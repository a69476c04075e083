SPECIFICATION TableFairSpec
CONSTANTS
  MAX_PROCESS = 5
  MAX_PID = 7
  idleproc = idleproc
  initproc = initproc
  Other = {p1, p2, p3}
  Null = Null
  HASH_SHIFT = 1
INVARIANTS
  PidsOK
  NextFree
  LinksOK
  CountIsExact
  InitIsLast
PROPERTIES
  SearchReturns
