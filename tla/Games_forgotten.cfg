SPECIFICATION Spec
CONSTANTS
  Players = {11, 12, 13}
  MaxMgrs = 2
  MaxVisits <- MCVisits
  VarNames = {"a", "b"}
  VarValues = {0, 1}
  MaxVars = 2
  Cloths = 2
  MaxRounds = 2
  Hands = {"rock", "scissors"}
  Chair <- MCChair
  Stakes = 1
  WinsNeeded = 0
  MaxWins = 2
  MaxStray = 1
  Least = 0
  GameNames = {"n"}
  NewKinds = {TRUE}
  MaxAsked <- MCAsked
  MaxFaults <- MCFaults
PROPERTY OnlyTheLeaverIsForgotten
CHECK_DEADLOCK FALSE
