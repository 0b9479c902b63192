CONSTANTS
  c1 = c1
  c2 = c2
  Clients <- MCClients
  NUMS = 2
  NoClient = NoClient
  Capacity = 20
  CountFirst = FALSE
  Paced = FALSE
  MayDisconnect = TRUE
  FirstChoices <- OnlyFirst
  NextChoices <- OnlyServices
  MaxTexts = 1
  MaxChanges = 1
SPECIFICATION Spec
SYMMETRY Symmetry
INVARIANTS TypeOK  NoCrossTalk
CHECK_DEADLOCK FALSE
