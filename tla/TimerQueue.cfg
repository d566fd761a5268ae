SPECIFICATION FairSpec
CONSTANTS
  Timer = {t1, t2, t3, t4}
  Horizon = 3
PROPERTIES
  AllDueAreCalled
  ImplementsTimers
  EveryTimerEnds
CHECK_DEADLOCK FALSE
