SPECIFICATION FairSpec
CONSTANTS
  Pingers = {"p1", "p2"}
  Tracers = {"t", "u"}
  Distances = {0, 4}
  MAX_STARTED = 2
  MAX_HOPS = 4
  MAX_PINGS = 2
  MAX_FAILURES = 2
  PING_SUM = 40000
  MAX_CLIENTS = 1
INVARIANTS
  MCTypeOK
  Statistics
  
  Route
  PathShown
PROPERTIES
  Ends
CHECK_DEADLOCK FALSE
