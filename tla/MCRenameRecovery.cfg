SPECIFICATION Spec
CONSTANTS
  ROB_SIZE = 4
  Reg = {r1, r2}
  NoReg = NoReg
  Committed = Committed
  CKPTS = 2
  NoCkpt = NoCkpt
  BR_RS_ENTRIES = 2
INVARIANTS RatExact CkptExact CkptLifecycle
SYMMETRY RegSymmetry
