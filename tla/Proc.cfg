SPECIFICATION FairSpec
CONSTANTS
  MAX_PROCESS = 5
  MAX_PID = 6
INVARIANTS
  TableOK
  SleepersAreOwed
  IdleNeverReturns
  NoProtocolPanic
PROPERTIES
  LineageKept
  RunnableRuns
  KilledWaiterExits
  ShutsDown
