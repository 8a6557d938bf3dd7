SPECIFICATION Spec
CONSTANTS
  o1 = o1
  o2 = o2
  s1 = s1
  n0 = n0
  n1 = n1
  zero = zero
  minusZero = minusZero
  nan = nan
  Objects = {o1}
  Coroutines = {}
  Strings = {}
  Literals = {}
  Atoms = {n0, n1, zero, minusZero, nan}
  Nil = n0
  Zero = n1
  NaNs = {nan}
  FirstEqual <- Equals
  None = None
  SlotCount = 1
  BucketCount = 2
  HashOf <- Hashes
  MaxFieldsPerObject = 2
  ScriptPlaces = {"stack"}
  MaxElements = 2
  Unusual = {}
CHECK_DEADLOCK FALSE
INVARIANTS
  KeysFindable
  LenCountsFields
PROPERTIES
  ImplementsFieldMap
