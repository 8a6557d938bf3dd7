SPECIFICATION Spec
CONSTANTS
  Co = {c1, c2}
  Root = Root
  None = None
  Invalid = Invalid
  NativeReturn = NativeReturn
  Unusual = {"resume native"}
  DepthBound = 1
  FrameBound = 3
  NativeBound = 2
INVARIANTS
  StackAsCompiled
