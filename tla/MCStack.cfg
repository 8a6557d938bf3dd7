SPECIFICATION Spec
CONSTANTS
  v0 = v0
  v1 = v1
  Values = {v0, v1}
  Zero = v0
  Capacities = {1, 2, 4, 8}
  MaxCapacity = 8
  Limits = {0, 3, 4, 100}
CHECK_DEADLOCK FALSE
INVARIANTS
  MaskFollowsCapacity
PROPERTIES
  ImplementsValueStack
