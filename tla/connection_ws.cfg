CONSTANTS
  MaxConn = 2
  MaxServed = 1
  Env <- MCWsClients
  NotConstructed <- MCNotConstructed
  ReuseClears <- MCReuseClears
SPECIFICATION Spec
INVARIANTS OnlyListenerLeaks OneAcceptAtATime StreamHasOneOwner
CHECK_DEADLOCK FALSE
