CONSTANTS
  c1 = c1
  c2 = c2
  Clients <- MCClients
  NUMS = 2
  NoClient = NoClient
  Capacity = 20
  CountFirst = FALSE
  Paced = TRUE
  MayDisconnect = FALSE
  FirstChoices <- FirstOrProxy
  NextChoices <- OnlyServices
  MaxTexts = 1
  MaxChanges = 2
SPECIFICATION FairSpec
 
PROPERTIES ChangeHonoured Answered Admitted
CHECK_DEADLOCK FALSE
