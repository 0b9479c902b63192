CONSTANTS
  Clients = {c1, c2}
  Leavers = {c1}
  NUMS = 2
  Requests = 2
  MAX_CLIENTS = 2
  SLOTS = 4
  Pieces = 2
  Programs <- AllPrograms
  Editions <- AllEditions
SPECIFICATION FairSpec
PROPERTY AnsweredAll
CHECK_DEADLOCK FALSE
