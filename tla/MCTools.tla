------------------------------- MODULE MCTools -------------------------------
(***************************************************************************)
(* The tools that compute from their input alone, and the performance      *)
(* history.  They share no state: a behaviour is the one run of a tool, or *)
(* the invocations of perf_snapshot.py, so that the states add up.         *)
(***************************************************************************)
EXTENDS ToolChecks, PerfHistory

RandomPairs == {<<<<One, One + 1>>, <<3, 1>>, <<MAX_FINITE, Negated(MAX_FINITE)>>, <<0, 5>>>>}

\* A last chunk of one instruction, cut short, and whole.
StreamLengths == {1, 31, 32, 33, 40, 64}

Line(mark, counts) == [marks |-> IF mark = "" THEN {} ELSE {mark}, counts |-> counts]
LogLines ==
  {Line("TB STATS", [l2 |-> 0, l2_hit |-> 0, dc_hit |-> 2]),
   Line("TB STATS", [l2 |-> 1, l2_hit |-> 1, dc_hit |-> 0]),
   Line("TB STATS", [l2 |-> 1, l2_hit |-> 0]),
   Line("TB OOO", [traps |-> 1, dc_hit |-> 1]),
   Line("RAND COV", [atomic_amo |-> 1]),
   Line("", [mrets |-> 1])}
LogsOfTwo == UNION {[1 .. n -> LogLines] : n \in 0 .. 2}
UpToTwoLogs == UNION {[1 .. n -> LogsOfTwo] : n \in 0 .. 2}

\* Bytes that tell their positions apart, and every short program of a few.
Positions(n) == [a \in 0 .. n - 1 |-> OffsetBits(a + 1)]
Programs == {Positions(n) : n \in 0 .. MEM_BYTES + 1}
            \union UNION {[0 .. n - 1 -> {{}, {0}, {7}, {1, 6}}] : n \in 1 .. 3}

JumpOffsets == {2 ^ b : b \in 1 .. 19} \union {-(2 ^ b) : b \in 1 .. 20}
               \union {2 ^ b - 2 : b \in 2 .. 20} \union {2 - 2 ^ b : b \in 2 .. 20}

-----------------------------------------------------------------------------
ToolsInit == ToolInit /\ Init
ToolsNext ==
  \/ Init /\ ToolNext /\ UNCHANGED vars
  \/ ToolInit /\ Next /\ UNCHANGED ran
ToolsSpec == ToolsInit /\ [][ToolsNext]_<<ran, vars>>

=============================================================================
