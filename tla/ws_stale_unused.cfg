CONSTANTS
  MaxConn = 3
  MaxServed = 3
  Env = {"upgrade", "send"}
  NotConstructed <- MCNotConstructed
  ReuseClears <- MCReuseClears
SPECIFICATION Spec
INVARIANT NeverAborts
CHECK_DEADLOCK FALSE
