CONSTANTS
  a = a
  b = b
  Clients <- TwoClients
  Sources <- OnlyFifo
  MayLeave = TRUE
  MaxTexts = 2
  MaxSignals = 2
SPECIFICATION Spec
INVARIANTS TypeOK OneEcho OneStray BlockedByEcho
CHECK_DEADLOCK FALSE
