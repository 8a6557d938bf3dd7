SPECIFICATION Spec
CONSTANTS
  Entry = {e1, e2, e3, e4}
  NULL = NULL
  IndexSpace = 8
SYMMETRY Symmetric
CHECK_DEADLOCK FALSE
INVARIANT RangesSaneAlways
