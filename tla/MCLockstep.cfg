SPECIFICATION Spec
CONSTANTS
  TEXT_BASE = 8
  SSEG = 32
  PASS_CODE = 9
  FAIL_CODE = 5
  BYTE = 1
  MAX_FAULTS = 2
  NoFile = NoFile
  Codes <- CodeTable
  Requests <- Batches
INVARIANTS VerdictSound NoFalseAlarm ExitStatusExact
PROPERTIES EventuallyExits
CHECK_DEADLOCK FALSE
