SPECIFICATION FairSpec
CONSTANTS
  a1 = a1
  a2 = a2
  k1 = k1
  k2 = k2
  Account = {a1, a2}
  NoAccount = NoAccount
  Ki = {k1, k2}
  NoKi = NoKi
  Holder <- HolderEach
  Session <- TwoSessions
  MaxRequests <- FourAndOne
  MaxFailures = 1
INVARIANT
  SidesAgree
PROPERTY
  OnlyTheLastAge
  LastRequestIsAnswered
CHECK_DEADLOCK FALSE
