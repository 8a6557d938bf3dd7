SPECIFICATION Spec
CONSTANTS
  Obj = {o1, o2, o3}
  CoroutineId = {}
  Str = {s1}
  Root = Root
  None = None
  PassSpace = 3
  HandleSpace = 2
  PassesWrap = FALSE
  ReleaseUnheld = FALSE
  StackBound = 1
  FieldBound = 1
  StaticBound = 1
  OwnBound = 1
SYMMETRY Symmetric
CHECK_DEADLOCK FALSE
INVARIANTS
  NothingReachableLost
  MarkExact
  HandlesProtect
