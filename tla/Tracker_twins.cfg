SPECIFICATION Spec
CONSTANTS
  k1 = k1
  k2 = k2
  Ki = {k1, k2}
  NoKi = NoKi
  Session <- TwoIds
  Player <- PlayerEach
  GameId <- TwoIds
  MaxRequests = 3
  MaxRefusals = 0
PROPERTY
  NoneOfThatTypeIsLeft
CHECK_DEADLOCK FALSE
