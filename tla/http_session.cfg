CONSTANTS
  Requests <- MCRequests
  MaxRequests = 3
  Expire = 2
SPECIFICATION FairSpec
INVARIANTS TypeOK OnlyRefusedHeadConfuses CutAnswerIsLast
PROPERTIES ImplementsExchange SessionEnds
CHECK_DEADLOCK FALSE
