SPECIFICATION StreamsSpec
CONSTANTS
  CODE_LINES = 3
  LINE_HALVES = 4
  LINES = 2
  Images <- MCImages
  Targets = {0, 3, 7}
  Patches <- MCPatches
  NoLine = NoLine
  NoTarget = NoTarget
  ROB_SIZE = 4
  Instr = {i1, i2}
  Result = {r1}
  NoResult = NoResult
  DEPTH = 3
  Store <- AllStores
  Query <- AllQueries
INVARIANTS RefillRightLine NoStaleCode FetchWaitBounded ValidIsWindow ForwardExact
PROPERTIES ImplementsFetchPath ImplementsWindow ImplementsFifo
