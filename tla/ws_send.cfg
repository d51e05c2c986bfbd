CONSTANTS
  Capacity = 2
  MaxSends = 4
SPECIFICATION FairSpec
INVARIANTS TypeOK NoStall PacedDelivery PacedWrites
PROPERTY Drains
CHECK_DEADLOCK FALSE
