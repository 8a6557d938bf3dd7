SPECIFICATION Spec
CONSTANTS
  o1 = o1
  o2 = o2
  s1 = s1
  n0 = n0
  n1 = n1
  zero = zero
  minusZero = minusZero
  nan = nan
  Objects = {o1, o2}
  Coroutines = {}
  Strings = {s1}
  Literals = {}
  Atoms = {n0, n1}
  Nil = n0
  Zero = n1
  NaNs = {}
  FirstEqual <- Equals
  None = None
  SlotCount = 2
  BucketCount = 2
  HashOf <- Hashes
  MaxFieldsPerObject = 2
  ScriptPlaces = {"stack"}
  MaxElements = 2
  Unusual = {"object keys"}
SYMMETRY Symmetric
CHECK_DEADLOCK FALSE
INVARIANT
  KeysFindable
