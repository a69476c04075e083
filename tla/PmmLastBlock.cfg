SPECIFICATION Spec
CONSTANTS
  NPAGE = 5
  NULL = NULL
INVARIANT EntriesAreHeads
