SPECIFICATION Spec
CONSTANTS
  Lengths = {0, 1, 2}
  Messages <- EveryMessage
  IovCts = {1, 3}
  Cuts = {7, 800}
  WBUF = 20
  Fronts = {0, 5}
INVARIANTS
  ArrivesAsSent
  LengthIsKnownOrNot
PROPERTY EveryMessageArrives
CHECK_DEADLOCK FALSE
