SPECIFICATION UnitsSpec
CONSTANTS
  GHR_BITS = 2
  BHT_BITS = 1
  BTB_BITS = 1
  RAS_DEPTH = 2
  WINDOW = 2
  CKPTS = 2
  NoPC = NoPC
  PC <- MCPC
  Code <- MixedCode
  ROB_SIZE = 4
  REQUESTERS = 4
  NoTag = NoTag
INVARIANTS HistoryExact ReturnStackExact GrantsOldest OneResultPerBus NoIdleBus
