SPECIFICATION Spec
CONSTANTS
  Obj = {o1, o2}
  CoroutineId = {}
  Str = {}
  Root = Root
  None = None
  PassSpace = 4
  HandleSpace = 2
  PassesWrap = TRUE
  ReleaseUnheld = FALSE
  StackBound = 1
  FieldBound = 1
  StaticBound = 0
  OwnBound = 1
CHECK_DEADLOCK FALSE
INVARIANTS
  HandlesProtect
