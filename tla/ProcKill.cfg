SPECIFICATION FairSpec
CONSTANTS
  MAX_PROCESS = 4
  MAX_PID = 5
PROPERTY KillTakesEffect
