SPECIFICATION FairSpec
CONSTANTS
  Obj = {o1, o2}
  CoroutineId = {}
  Str = {}
  Root = Root
  None = None
  PassSpace = 3
  HandleSpace = 3
  PassesWrap = FALSE
  ReleaseUnheld = FALSE
  StackBound = 1
  FieldBound = 1
  StaticBound = 1
  OwnBound = 3
CHECK_DEADLOCK FALSE
INVARIANTS
  TypeOK
  HandleListExact
PROPERTIES
  GcTerminates
