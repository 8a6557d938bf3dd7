SPECIFICATION Spec
CONSTANTS
  Entry = {e1, e2, e3, e4}
  NULL = NULL
  IndexSpace = 8
SYMMETRY Symmetric
CHECK_DEADLOCK FALSE
INVARIANTS
  TypeOK
  HolesAreEmptySlots
  NoSlotLeaked
  RangesSane
  CompactionPacks
PROPERTIES
  ImplementsSlotMap
