SPECIFICATION Spec
CONSTANTS
  Lengths = {0, 1, 2}
  Messages <- Answers
  IovCts = {1, 3}
  Cuts = {5, 800}
  WBUF = 20
  Fronts = {0, 16}
INVARIANT EmptyFillIsDone
CHECK_DEADLOCK FALSE
