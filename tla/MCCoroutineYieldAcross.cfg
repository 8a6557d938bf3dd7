SPECIFICATION Spec
CONSTANTS
  Co = {c1, c2}
  Root = Root
  None = None
  Invalid = Invalid
  NativeReturn = NativeReturn
  Unusual = {"yield across"}
  DepthBound = 1
  FrameBound = 3
  NativeBound = 2
INVARIANTS
  NativeAtHome
