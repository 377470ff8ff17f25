SPECIFICATION ProgramSpec
CONSTANTS
  FREE_REGS = {1, 5, 8}
  LENGTH = 6
  BODY = 2
  PATH = 1
INVARIANTS AccessesKnown
PROPERTIES ControlKept EventuallyPasses
CHECK_DEADLOCK FALSE
