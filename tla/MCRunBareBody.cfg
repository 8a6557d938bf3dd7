SPECIFICATION Spec
CONSTANTS
  RecursionLimit = 256
  IntValues = 3
  Fuel = 12
  Unusual = {"bare body"}
  Programs <- AllPrograms
INVARIANT EndsClean
CHECK_DEADLOCK FALSE
