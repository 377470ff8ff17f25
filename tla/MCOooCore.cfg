SPECIFICATION FairSpec
CONSTANTS
  ROB_SIZE = 4
  Reg = {1, 2}
  NoReg = NoReg
  NoTag = NoTag
  Garbage = Garbage
  Programs <- EveryProgram
  CKPTS = 2
  RS_ALU = 3
  RS_BR = 2
  RS_MUL = 1
  RS_DIV = 1
  MUL_STAGES = 2
INVARIANTS InFlightOnce NoLostWakeup
PROPERTIES ImplementsInOrder EventuallyHalts
