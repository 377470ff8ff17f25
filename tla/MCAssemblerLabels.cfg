SPECIFICATION ToolsSpec
CONSTANTS
  EXP_BITS = 3
  FRAC_BITS = 2
  PAIRS = 160
  CHUNK = 32
  NoTarget = NoTarget
  MEM_BYTES = 16
  JUMP_TARGET = 8
  Draws <- RandomPairs
  Counts <- StreamLengths
  Logs <- UpToTwoLogs
  Payloads <- Programs
  Offsets <- JumpOffsets
  Labels = {a, b}
  Workloads = {w1, w2}
  Metrics = {"completion_cycles", "ipc"}
  NewMetrics = {"ipc"}
  NoLabel = NoLabel
  NoSnapshot = NoSnapshot
  NoStore = NoStore
  Dash = Dash
  MAX_COMMITS = 1
  MAX_INVOCATIONS = 3
INVARIANTS LabelsResolve
CHECK_DEADLOCK FALSE
