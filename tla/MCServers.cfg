CONSTANTS
  Clients = {c1, c2, c3}
  Leavers = {c1}
  NUMS = 2
  Requests = 2
  MAX_CLIENTS = 2
  SLOTS = 4
  Pieces = 2
  Programs <- AllPrograms
  Editions <- AllEditions
SYMMETRY StayersAlike
SPECIFICATION MCSpec
INVARIANTS MCTypeOK  Holders
 
CHECK_DEADLOCK FALSE
