SPECIFICATION Spec
CONSTANTS
  RecursionLimit = 256
  IntValues = 3
  Fuel = 12
  Unusual = {"is_finished"}
  Programs <- AllPrograms
INVARIANT EndsClean
CHECK_DEADLOCK FALSE
