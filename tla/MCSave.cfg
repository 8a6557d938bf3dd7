SPECIFICATION Spec
CONSTANTS
  nil = nil
  one = one
  s = s
  t = t
  f = f
  g = g
  coroutine = coroutine
  file = file
  clock = clock
  SlotCount = 2
  BucketCount = 2
  Contents = {s, t}
  Atoms = {nil, one}
  Nil = nil
  None = None
  HashOf <- Hashes
  Names = {f, g, coroutine, file, clock}
  Running <- RunningVMs
  Hosts <- SomeHosts
INVARIANTS
  LoadedIsSaved
  FunctionsByName
  SavedIsLoadable
  LoadedIsSane
