CONSTANTS
  c1 = c1
  c2 = c2
  Clients <- MCClients
  NUMS = 2
  NoClient = NoClient
  Capacity = 20
  CountFirst = FALSE
  Paced = TRUE
  MayDisconnect = TRUE
  FirstChoices <- OnlyFirst
  NextChoices <- OnlyFirst
  MaxTexts = 1
  MaxChanges = 0
SPECIFICATION FairSpec
PROPERTY Answered
CHECK_DEADLOCK FALSE
