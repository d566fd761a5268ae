SPECIFICATION FairSpec
CONSTANTS
  k1 = k1
  k2 = k2
  Ki = {k1, k2}
  NoKi = NoKi
  Session <- TwoIds
  Player <- PlayerEach
  GameId <- OneId
  MaxRequests = 2
  MaxRefusals = 1
PROPERTY
  RequestIsAnswered
CHECK_DEADLOCK FALSE
