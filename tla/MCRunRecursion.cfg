SPECIFICATION Spec
CONSTANTS
  RecursionLimit = 256
  IntValues = 3
  Fuel = 12
  Unusual = {}
  Programs <- AllPrograms
INVARIANT RecursionBalanced
CHECK_DEADLOCK FALSE
