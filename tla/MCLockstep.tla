------------------------------ MODULE MCLockstep ----------------------------
EXTENDS Lockstep

Plain(pc, rd, value) ==
  [pc |-> pc, rd |-> rd, value |-> value, csr |-> FALSE, mem |-> "none",
   addr |-> 0, data |-> 0, size |-> 0, traps |-> FALSE]
Csr(pc, rd, value) == [Plain(pc, rd, value) EXCEPT !.csr = TRUE]
Load(pc, rd, value, addr) == [Plain(pc, rd, value) EXCEPT !.mem = "load", !.addr = addr]
Mem(pc, addr, data, size) ==
  [Plain(pc, 0, addr) EXCEPT !.mem = "store", !.addr = addr, !.data = data, !.size = size]
Amo(pc, rd, value, addr, data) ==
  [Load(pc, rd, value, addr) EXCEPT !.mem = "amo", !.data = data, !.size = 2]
Trap(pc) == [Plain(pc, 0, 0) EXCEPT !.traps = TRUE]

Prog(exec) == [exec |-> exec, assembles |-> TRUE, fits |-> TRUE]
Src(stem, code) == [stem |-> stem, code |-> code]

t == TEXT_BASE
Pass(pc) == Mem(pc, SSEG, PASS_CODE, 2)
Fail(pc) == Mem(pc, SSEG, FAIL_CODE, 2)
ToHost(pc) == Mem(pc, 40, 1, 2)

\* A byte of a wider register stored, a link written to x0, a load.
Stores == Prog(<<Plain(t, 5, 3), Mem(t + 4, 20, 7, 0), Plain(t + 8, 0, t + 12),
                 Load(t + 12, 6, 1, 20), Pass(t + 16), ToHost(t + 20)>>)
\* A CSR and an f register in one line, an atomic, a trap, a half word.
Mixed == Prog(<<Csr(t, 33, 2), Amo(t + 4, 7, 1, 24, 6), Trap(t + 8), Mem(t + 12, 26, 14, 1),
                Pass(t + 16)>>)
Trapped == Prog(<<Plain(t, 5, 3), Trap(t + 4), Fail(t + 8)>>)
Runaway == Prog(<<Plain(t, 5, 3), Mem(t + 4, 20, 1, 2)>>)
Unbuilt == [Stores EXCEPT !.assembles = FALSE]
TooBig == [Stores EXCEPT !.fits = FALSE]

CodeTable == [stores |-> Stores, mixed |-> Mixed, trapped |-> Trapped, runaway |-> Runaway,
              unbuilt |-> Unbuilt, toobig |-> TooBig]

Request(programs, directed, random, no_directed, keep, require, workers) ==
  [programs |-> programs, directed |-> directed, random |-> random,
   no_directed |-> no_directed, keep |-> keep, require |-> require, workers |-> workers]

dir == <<Src("a", "stores"), Src("b", "mixed")>>
ran == <<Src("random_1", "mixed"), Src("random_2", "stores")>>

Batches ==
  {Request(<<>>, dir, <<>>, FALSE, TRUE, FALSE, 2),
   Request(<<Src("c", "trapped")>>, dir, <<ran[1]>>, FALSE, FALSE, FALSE, 2),
   Request(<<Src("d", "runaway"), Src("e", "unbuilt"), Src("f", "toobig")>>, dir, <<>>, FALSE, TRUE, TRUE, 2),
   Request(<<>>, dir, ran, TRUE, FALSE, TRUE, 1),
   Request(<<>>, dir, <<>>, TRUE, FALSE, TRUE, 1),
   Request(<<Src("random_1", "stores")>>, dir, ran, FALSE, FALSE, FALSE, 2)}
=============================================================================
