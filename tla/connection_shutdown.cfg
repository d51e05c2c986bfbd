CONSTANTS
  MaxConn = 2
  MaxServed = 1
  Env <- MCWsReaders
  NotConstructed <- MCNotConstructed
  ReuseClears <- MCReuseClears
SPECIFICATION FairSpec
PROPERTY ShutdownFreesEntities
CHECK_DEADLOCK FALSE
