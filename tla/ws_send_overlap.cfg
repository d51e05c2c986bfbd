CONSTANTS
  Capacity = 2
  MaxSends = 4
SPECIFICATION Spec
INVARIANT OneWriteAtATime
CHECK_DEADLOCK FALSE
