--------------------------- MODULE ProgramWindow ----------------------------
(***************************************************************************)
(* What the reorder buffer promises the rest of the core: the instructions *)
(* in flight form one sequence in program order.  Dispatch appends at the  *)
(* young end, completion fills in results in any order, commit removes     *)
(* finished instructions from the old end, and a mispredicted branch cuts  *)
(* everything behind it.  No ring, no tags, no storage banks.              *)
(***************************************************************************)
EXTENDS Integers, Sequences

CONSTANTS Instr,        \* what dispatch records of an instruction
          Result,       \* what a common data bus can deliver
          NoResult,     \* an instruction that has not completed
          Capacity      \* most instructions in flight

VARIABLE window         \* Seq of [instr, done, result], oldest first

InFlight == [instr : Instr, done : BOOLEAN, result : Result \cup {NoResult}]

\* What may be dispatched: unfinished, or finished at dispatch (an exception
\* or a system instruction, which acts when it commits).
Fresh == [instr : Instr, done : BOOLEAN, result : {NoResult}]

Bundles == {<<>>} \cup {<<a>> : a \in Fresh} \cup {<<a, b>> : a, b \in Fresh}

\* Results delivered in one cycle, by position; only unfinished instructions
\* receive one.
Deliveries ==
  {d \in [DOMAIN window -> Result \cup {NoResult}] :
     \A i \in DOMAIN window : window[i].done => d[i] = NoResult}

Delivered(d) ==
  [i \in DOMAIN window |->
     IF d[i] = NoResult
     THEN window[i]
     ELSE [instr |-> window[i].instr, done |-> TRUE, result |-> d[i]]]

\* Commit takes at most two instructions, each finished before this cycle.
Retirable(k) == k <= Len(window) /\ \A i \in 1 .. k : window[i].done

Init == window = <<>>

Cycle ==
  \E k \in 0 .. 2, d \in Deliveries, b \in Bundles :
    /\ Retirable(k)
    /\ Len(window) + Len(b) <= Capacity
    /\ window' = SubSeq(Delivered(d), k + 1, Len(window)) \o b

\* The branch at position p resolves as mispredicted: it completes in this
\* cycle, everything younger disappears, older instructions carry on.
Squash ==
  \E k \in 0 .. 2, d \in Deliveries, p \in DOMAIN window :
    /\ Retirable(k)
    /\ ~window[p].done /\ d[p] # NoResult
    /\ window' = SubSeq(Delivered(d), k + 1, p)

Flush ==
  /\ window = <<>> \/ window[1].done
  /\ window' = <<>>

Next == Cycle \/ Squash \/ Flush

Spec == Init /\ [][Next]_window

=============================================================================
