SPECIFICATION Spec
CONSTANTS
  NPAGE = 3
  SLOB_UNIT = 2
  PageUnits = 6
  Sizes = {2, 3, 8, 12, 24}
INVARIANTS
  HeapOK
  ObjectsApart
