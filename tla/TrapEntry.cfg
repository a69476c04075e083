SPECIFICATION FairSpec
CONSTANTS
  idleproc = idleproc
  initproc = initproc
  Task = {t1, t2}
  Null = Null
  NoContext = NoContext
  TICK_NUM = 2
  NPC = 2
INVARIANTS
  StacksOK
  InterruptsAsIntended
  NoLostWakeup
PROPERTIES
  TrapsUnseen
  TimerAnswered
  SliceEnds
CHECK_DEADLOCK FALSE
