CONSTANTS
  MaxConn = 3
  MaxServed = 3
  Env <- MCHttpClients
  NotConstructed <- MCNotConstructed
  ReuseClears <- MCReuseClears
SPECIFICATION Spec
INVARIANTS TypeOK NoDanglingHandler ResultsReachTheirConnection OnlyListenerLeaks NeverAborts QuiescentStop
CHECK_DEADLOCK FALSE
