SPECIFICATION FairSpec
CONSTANTS
  WORDS = 9
  LANES = 2
  LINE_WORDS = 4
  LINES = 1
  Uncached = {8}
  STOREBUF_DEPTH = 3
  NoLoad = NoLoad
  NoLine = NoLine
  NoTag = NoTag
  NoWord = NoWord
  NoResult = NoResult
  ROB_SIZE = 8
  QUEUE_ENTRIES = 3
  SQ_ENTRIES = 3
  Programs <- EveryProgram
INVARIANTS AccessOnce StoreQueueExact CacheCoherent
PROPERTIES EventuallyDrained ImplementsInOrderMemory
