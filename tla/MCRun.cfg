SPECIFICATION FairSpec
CONSTANTS
  RecursionLimit = 256
  IntValues = 3
  Fuel = 12
  Unusual = {}
  Programs <- AllPrograms
INVARIANTS RejectsIllFormed RunsInstructions EndsClean KeepsMeaning CompilesToCertified
PROPERTY EndsWhenMeant
CHECK_DEADLOCK FALSE
