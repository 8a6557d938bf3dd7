SPECIFICATION Spec
CONSTANTS
  Co = {c1, c2}
  Root = Root
  None = None
  Invalid = Invalid
  NativeReturn = NativeReturn
  Unusual = {}
  DepthBound = 1
  FrameBound = 4
  NativeBound = 2
INVARIANTS
  StackAsCompiled
  NativeAtHome
  ErrorsInvalidate
PROPERTIES
  ImplementsCoroutines
