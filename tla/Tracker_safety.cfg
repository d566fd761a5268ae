SPECIFICATION Spec
CONSTANTS
  k1 = k1
  k2 = k2
  Ki = {k1, k2}
  NoKi = NoKi
  Session <- TwoIds
  Player <- PlayerEach
  GameId <- TwoIds
  MaxRequests = 2
  MaxRefusals = 1
INVARIANTS
  OneWaiterPerRequest
  SentOnce
  UnderWay
CHECK_DEADLOCK FALSE
