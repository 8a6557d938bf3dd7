SPECIFICATION Spec
CONSTANTS
  UintMax = 15
  Intervals = {1, 2, 3, 5}
  ObjectIntervals = {0, 2}
  Counts = {0, 4, 5}
  LoadedIntervalMax = 3
  MaxLoads = 1
  Unusual = {}
CHECK_DEADLOCK FALSE
INVARIANTS
  LimitEnforced
PROPERTIES
  CollectsWhenDue
