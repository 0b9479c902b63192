CONSTANTS
  Clients = {c1, c2, c3}
  Leavers = {c1}
  NUMS = 2
  Requests = 2
  MAX_CLIENTS = 2
  SLOTS = 4
  Pieces = 2
  Programs <- OnlyQ3
  Editions <- AllEditions
SPECIFICATION MCSpec
INVARIANT FirstClient
CHECK_DEADLOCK FALSE
