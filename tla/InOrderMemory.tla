---------------------------- MODULE InOrderMemory ---------------------------
(***************************************************************************)
(* What the memory side promises: loads, stores and atomics act on memory  *)
(* one after another, in program order, and only those the program really  *)
(* executes.  No store queue, no store buffer, no cache, no wrong path.    *)
(*                                                                         *)
(* A program is a sequence of records:                                     *)
(*   op    "ld", "st", "lr", "sc", "amo", "br", "fencei"                   *)
(*   word  the word accessed                                               *)
(*   mask  the byte lanes accessed; {} is a misaligned access, which traps *)
(* An instruction writes its own position, which no other one writes.      *)
(* Trap handlers and branches go on at a later instruction.                *)
(***************************************************************************)
EXTENDS StoreForwarding

CONSTANTS NoWord, NoResult

VARIABLES prog, pc, memory,
          reserved,      \* word of the valid reservation, or NoWord
          results        \* what each load or atomic returned to the program

memVars == <<prog, pc, memory, reserved, results>>

Code(p) == prog[p]
PC == DOMAIN prog

IsAtomic(p) == Code(p).op \in {"lr", "sc", "amo"}
Faults(p) == Code(p).op \notin {"br", "fencei"} /\ Code(p).mask = {}

StoreOf(p) == [word |-> Code(p).word, data |-> [l \in Code(p).mask |-> p]]

Bytes(cell, mask) == [l \in mask |-> cell[l]]

State == [pc |-> pc, memory |-> memory, reserved |-> reserved, results |-> results]

\* The possible states after the instruction at s.pc.
Exec(s) ==
  LET i == Code(s.pc)
      old == Bytes(s.memory[i.word], i.mask)
      after == Written(s.memory, StoreOf(s.pc))
      next == [s EXCEPT !.pc = @ + 1]
      Returning(r) == [s.results EXCEPT ![s.pc] = r]
  IN  CASE i.op = "br" -> {[s EXCEPT !.pc = q] : q \in s.pc + 1 .. Len(prog) + 1}
        [] i.op = "fencei" \/ Faults(s.pc) -> {next}
        [] i.op = "ld" /\ i.mask # {} -> {[next EXCEPT !.results = Returning(old)]}
        [] i.op = "st" /\ i.mask # {} ->
             {[next EXCEPT !.memory = after,
                           !.reserved = IF @ = i.word THEN NoWord ELSE @]}
        [] i.op = "lr" /\ i.mask # {} ->
             {[next EXCEPT !.results = Returning(old), !.reserved = i.word]}
        [] i.op = "amo" /\ i.mask # {} ->
             {[next EXCEPT !.results = Returning(old), !.memory = after, !.reserved = NoWord]}
        [] i.op = "sc" /\ i.mask # {} ->
             {[next EXCEPT !.results = Returning(s.reserved = i.word),
                           !.memory = IF s.reserved = i.word THEN after ELSE @,
                           !.reserved = NoWord]}

Becomes(s) ==
  /\ pc' = s.pc /\ memory' = s.memory /\ reserved' = s.reserved /\ results' = s.results
  /\ UNCHANGED prog

Init ==
  /\ pc = 1
  /\ \A w \in DOMAIN memory : \A l \in DOMAIN memory[w] : memory[w][l] = 0
  /\ reserved = NoWord
  /\ results = [p \in PC |-> NoResult]

StepOne == pc \in PC /\ \E s \in Exec(State) : Becomes(s)

StepTwo ==
  /\ pc \in PC
  /\ \E s \in Exec(State) : s.pc \in PC /\ \E u \in Exec(s) : Becomes(u)

Spec == Init /\ [][StepOne \/ StepTwo]_memVars

=============================================================================
