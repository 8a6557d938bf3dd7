SPECIFICATION FairSpec
CONSTANTS
  RecursionLimit = 256
  IntValues = 3
  Fuel = 12
  Unusual = {}
  Programs <- AllPrograms
INVARIANTS TypeOK
CHECK_DEADLOCK FALSE
