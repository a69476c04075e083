SPECIFICATION Spec
CONSTANTS
  NPAGE = 8
  NULL = NULL
INVARIANTS
  BlocksOK
PROPERTIES
  ServesLowest
