SPECIFICATION FairLocks
CONSTANTS
  Ki = {k1, k2}
  NoKi = NoKi
  Lock = {lock, footstep}
  Footstep = {footstep}
  MAX_LOCK_TIME = 1
  Horizon = 4
  MaxGrants = 3
INVARIANTS
  OneEntitled
  HeldIsTimed
PROPERTY
  GrantEnds
CHECK_DEADLOCK FALSE
