SPECIFICATION Spec
CONSTANTS
  a1 = a1
  a2 = a2
  k1 = k1
  k2 = k2
  Account = {a1, a2}
  NoAccount = NoAccount
  Ki = {k1, k2}
  NoKi = NoKi
  Holder <- HolderOne
  Session <- TwoSessions
  MaxRequests <- TwoEach
  MaxFailures = 0
INVARIANT
  PlayerIsConnected
CHECK_DEADLOCK FALSE
