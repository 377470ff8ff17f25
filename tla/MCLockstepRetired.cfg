SPECIFICATION Spec
CONSTANTS
  TEXT_BASE = 8
  SSEG = 32
  PASS_CODE = 9
  FAIL_CODE = 5
  BYTE = 1
  MAX_FAULTS = 1
  NoFile = NoFile
  Codes <- CodeTable
  Requests <- Batches
INVARIANTS RetiredBeforeSseg
CHECK_DEADLOCK FALSE
