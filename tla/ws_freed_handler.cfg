CONSTANTS
  MaxConn = 2
  MaxServed = 2
  Env = {"upgrade"}
  NotConstructed <- MCNotConstructed
  ReuseClears <- MCReuseClears
SPECIFICATION Spec
INVARIANT NoDanglingHandler
CHECK_DEADLOCK FALSE
