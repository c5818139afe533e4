SPECIFICATION HFairSpec
CONSTANTS
  MaxLost = 3
  MaxPresses = 2
CHECK_DEADLOCK FALSE
INVARIANTS
  ClearsUndrawn
PROPERTIES
  ViewerStops
  ViewerFinishes
