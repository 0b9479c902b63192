CONSTANTS
  a = a
  b = b
  Clients <- TwoClients
  Sources <- OnlyKeyboard
  MayLeave = FALSE
  MaxTexts = 2
  MaxSignals = 2
SPECIFICATION FairSpec
PROPERTIES Returned Taken
CHECK_DEADLOCK FALSE
