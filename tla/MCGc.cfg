SPECIFICATION FairSpec
CONSTANTS
  Obj = {o1, c1}
  CoroutineId = {c1}
  Str = {s1}
  Root = Root
  None = None
  PassSpace = 3
  HandleSpace = 2
  PassesWrap = FALSE
  ReleaseUnheld = FALSE
  StackBound = 1
  FieldBound = 1
  StaticBound = 1
  OwnBound = 1
CHECK_DEADLOCK FALSE
INVARIANTS
  NothingReachableLost
  MarkExact
  HandleListExact
  HandlesProtect
PROPERTIES
  GcTerminates
