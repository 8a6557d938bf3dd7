SPECIFICATION Spec
CONSTANTS
  Obj = {c1, c2}
  CoroutineId = {c1, c2}
  Str = {}
  Root = Root
  None = None
  PassSpace = 3
  HandleSpace = 2
  PassesWrap = FALSE
  ReleaseUnheld = FALSE
  StackBound = 2
  FieldBound = 1
  StaticBound = 0
  OwnBound = 1
SYMMETRY Symmetric
CHECK_DEADLOCK FALSE
INVARIANTS
  NothingReachableLost
  MarkExact
  OneChain
