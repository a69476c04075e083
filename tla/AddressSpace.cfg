SPECIFICATION FairSpec
CONSTANTS
  NPDEENTRY = 2
  NPTEENTRY = 2
  NFRAME = 11
  PGSIZE = 2
  KSTACKPAGE = 2
  STACKPAGES = 1
  MaxSize = 4
  STACK <- SmallStack
  Programs <- SmallPrograms
INVARIANTS
  MemoryOK
  SatpIsHeld
  PanicsOnlyWhenShort
  ImageLoaded
PROPERTIES
  CallReturns
