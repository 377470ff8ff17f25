SPECIFICATION Spec
CONSTANTS
  Labels = {a, b}
  Workloads = {w1, w2}
  Metrics = {"completion_cycles", "ipc"}
  NewMetrics = {"ipc"}
  NoLabel = NoLabel
  NoSnapshot = NoSnapshot
  NoStore = NoStore
  Dash = Dash
  MAX_COMMITS = 1
  MAX_INVOCATIONS = 3
PROPERTIES ImplementsStore
CHECK_DEADLOCK FALSE
