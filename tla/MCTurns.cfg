CONSTANTS
  a = a
  b = b
  C1 = C1
  Clients <- TwoClients
  ZeroTexts = FALSE
  MaxTexts = 2
  SEMAEM = 8
  Rounds = 7
  MayDie = TRUE
  t1 = t1
  t2 = t2
  t3 = t3
  Trains <- ThreeTrains
  NumPlatforms = 2
  MaxInside = 1
  Slow = TRUE
SPECIFICATION MCFairSpec
INVARIANTS MCTypeOK    OneRound 
PROPERTIES  InTurn Answered  
CHECK_DEADLOCK FALSE
