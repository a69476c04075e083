SPECIFICATION Spec
CONSTANTS
  PGSIZE = 2
  USERBASE = 2
  USERTOP = 10
  Flags <- ProgramFlags
INVARIANTS
  AreasOK
  ChecksEveryByte
PROPERTIES
  AreasStay
