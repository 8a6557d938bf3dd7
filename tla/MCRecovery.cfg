SPECIFICATION Spec
CONSTANTS
  b1 = b1
  b2 = b2
  b3 = b3
  Blocks = {b1, b2, b3}
  NoBlock = NoBlock
  Sizes = {1, 3, 14}
  Header = 2
  UintMax = 15
  Limits = {4, 8}
  MaxDepth = 5
  Unusual = {}
INVARIANTS
  ListSound
  UsageExact
  FramesNest
  StopsOnFailure
  MemoryReturned
PROPERTIES
  LimitHolds
  FailureReachesHost
