CONSTANTS
  MaxConn = 2
  MaxServed = 2
  Env = {"upgrade", "messages"}
  NotConstructed <- MCNotConstructed
  ReuseClears <- MCReuseClears
SPECIFICATION Spec
INVARIANT MessagesBelong
CHECK_DEADLOCK FALSE
