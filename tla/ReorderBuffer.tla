---------------------------- MODULE ReorderBuffer ---------------------------
(***************************************************************************)
(* The reorder buffer (ReorderBuffer.sv).  One step is one clock cycle.    *)
(* Completion state (entries) is a ring written by the data buses and by   *)
(* allocation; what dispatch records of an instruction lives in two banks, *)
(* even and odd tags, so that two consecutive tags never share a port.     *)
(*                                                                         *)
(* The inputs of a cycle are those the core can drive: dispatch respects   *)
(* free_count and never coincides with a squash, completions name          *)
(* unfinished entries in flight, commit takes finished instructions from   *)
(* the head, and the squashing branch completes in its squash cycle.       *)
(***************************************************************************)
EXTENDS Tags, Sequences

CONSTANTS Instr,      \* the allocation-only fields of an entry
          Result,     \* the completion fields a data bus delivers
          NoResult    \* completion fields before completion

ASSUME BankAssumption == ROB_SIZE % 2 = 0 /\ Instr # {}
ASSUME NoResultAssumption == NoResult \notin Result

HALF == ROB_SIZE \div 2
Rows == 0 .. HALF - 1

VARIABLES entries,    \* [Tag -> [valid, done, result]]
          bank_even, bank_odd,
          head, tail, used

robVars == <<entries, bank_even, bank_odd, head, tail, used>>

Entry == [valid : BOOLEAN, done : BOOLEAN, result : Result \cup {NoResult}]
EmptyEntry == [valid |-> FALSE, done |-> FALSE, result |-> NoResult]

\* An allocation port: the static fields, and whether the instruction is
\* finished as it dispatches.
Alloc == [instr : Instr, done : BOOLEAN]

head1_tag == TagPlus(head, 1)
tail1 == TagPlus(tail, 1)
\* Mutated: room for one more than there is.
free_countTooHigh == ROB_SIZE + 1 - used
free_count == ROB_SIZE - used

-----------------------------------------------------------------------------
(* Ports.                                                                  *)

\* The static fields of entry t, from the bank its parity selects.
StaticOf(t) == IF t % 2 = 0 THEN bank_even[t \div 2] ELSE bank_odd[t \div 2]

DoneVec(t) == entries[t].valid /\ entries[t].done

\* Commit may take k instructions from the head.
CanCommit(k) ==
  /\ k >= 1 => DoneVec(head)
  /\ k = 2 => DoneVec(head1_tag)

\* The data buses of one cycle, by tag: at most one result for an entry, and
\* only for an unfinished one.
Broadcasts ==
  {c \in [Tag -> Result \cup {NoResult}] :
     \A t \in Tag : c[t] # NoResult => entries[t].valid /\ ~entries[t].done}

-----------------------------------------------------------------------------
(* RobNext state of the ring.                                                 *)

Completed(e, r) ==
  IF e.valid /\ r # NoResult
  THEN [valid |-> TRUE, done |-> TRUE, result |-> r]
  ELSE e

Invalid(e) == [valid |-> FALSE, done |-> e.done, result |-> e.result]

Retired(e, t, k) ==
  IF (k >= 1 /\ t = head) \/ (k = 2 /\ t = head1_tag)
  THEN Invalid(e)
  ELSE e

NewEntry(a) == [valid |-> TRUE, done |-> a.done, result |-> NoResult]

Allocated(e, t, b) ==
  IF Len(b) = 2 /\ t = tail1 THEN NewEntry(b[2])
  ELSE IF Len(b) >= 1 /\ t = tail THEN NewEntry(b[1])
  ELSE e

\* Mutated: the squash leaves the entry right behind the branch.
SquashedOffByOne(e, t, br) ==
  IF TagAge(t, head) > TagAge(br, head) + 1 THEN Invalid(e) ELSE e

Squashed(e, t, br) ==
  IF TagYounger(t, br, head) THEN Invalid(e) ELSE e

\* Mutated: the second slot writes the row of the first.
BankWriteSameRow(bank, parity, b) ==
  IF Len(b) >= 1 /\ tail % 2 = parity
    THEN [bank EXCEPT ![tail \div 2] = b[1].instr]
  ELSE IF Len(b) = 2 /\ tail1 % 2 = parity
    THEN [bank EXCEPT ![tail \div 2] = b[2].instr]
  ELSE bank

\* Allocation writes each bank at most once: tail and tail1 differ in parity.
BankWrite(bank, parity, b) ==
  IF Len(b) >= 1 /\ tail % 2 = parity
    THEN [bank EXCEPT ![tail \div 2] = b[1].instr]
  ELSE IF Len(b) = 2 /\ tail1 % 2 = parity
    THEN [bank EXCEPT ![tail1 \div 2] = b[2].instr]
  ELSE bank

-----------------------------------------------------------------------------
RobInit ==
  /\ entries = [t \in Tag |-> EmptyEntry]
  /\ \E zero \in Instr : /\ bank_even = [r \in Rows |-> zero]
                         /\ bank_odd = bank_even
  /\ head = 0 /\ tail = 0 /\ used = 0

Bundle == {<<>>} \cup {<<a>> : a \in Alloc} \cup {<<a, b>> : a, b \in Alloc}

\* A cycle without recovery: complete, commit k, allocate b.
RobCycle(c, k, b) ==
  /\ CanCommit(k)
  /\ Len(b) <= free_count
  /\ entries' = [t \in Tag |->
       Allocated(Retired(Completed(entries[t], c[t]), t, k), t, b)]
  /\ bank_even' = BankWrite(bank_even, 0, b)
  /\ bank_odd' = BankWrite(bank_odd, 1, b)
  /\ head' = TagPlus(head, k)
  /\ tail' = TagPlus(tail, Len(b))
  /\ used' = used + Len(b) - k

\* A cycle in which the branch br resolves as mispredicted.
SquashCycle(c, k, br) ==
  /\ CanCommit(k)
  /\ c[br] # NoResult
  /\ entries' = [t \in Tag |->
       Squashed(Retired(Completed(entries[t], c[t]), t, k), t, br)]
  /\ head' = TagPlus(head, k)
  /\ tail' = TagPlus(br, 1)
  /\ used' = TagAge(br, head) + 1 - k
  /\ UNCHANGED <<bank_even, bank_odd>>

\* A commit-time flush: a trap, mret or fence.i at the head, or an interrupt
\* taken with the buffer empty.
Flush ==
  /\ used = 0 \/ DoneVec(head)
  /\ entries' = [t \in Tag |-> EmptyEntry]
  /\ head' = 0 /\ tail' = 0 /\ used' = 0
  /\ UNCHANGED <<bank_even, bank_odd>>

RobNext ==
  \/ \E c \in Broadcasts, k \in 0 .. 2, b \in Bundle : RobCycle(c, k, b)
  \/ \E c \in Broadcasts, k \in 0 .. 2, br \in Tag : SquashCycle(c, k, br)
  \/ Flush

RobSpec == RobInit /\ [][RobNext]_robVars

-----------------------------------------------------------------------------
(* Every register of the buffer keeps its width: pointers are tags and the *)
(* occupancy counter never leaves 0 .. ROB_SIZE, whatever commit, dispatch *)
(* and squash coincide (the counter is recomputed from tag ages on a       *)
(* squash rather than counted).                                            *)
RobTypeOK ==
  /\ entries \in [Tag -> Entry]
  /\ bank_even \in [Rows -> Instr]
  /\ bank_odd \in [Rows -> Instr]
  /\ head \in Tag /\ tail \in Tag
  /\ used \in 0 .. ROB_SIZE

(* The valid bits are exactly the ring segment the pointers describe: an   *)
(* entry is valid if and only if its age is below the occupancy, and tail  *)
(* is head plus occupancy.  Commit, completion, allocation and squash all  *)
(* write the valid bits and the pointers separately.                       *)
ValidIsWindow ==
  /\ tail = TagPlus(head, used)
  /\ \A t \in Tag : entries[t].valid <=> TagAge(t, head) < used

-----------------------------------------------------------------------------
(* The abstract window, read out of the ring and the banks.                *)
EntryAt(i) ==
  LET t == TagPlus(head, i - 1)
  IN  [instr |-> StaticOf(t), done |-> entries[t].done, result |-> entries[t].result]

Abstract == INSTANCE ProgramWindow
  WITH Capacity <- ROB_SIZE, window <- [i \in 1 .. used |-> EntryAt(i)]

(* The ring implements the program-order window: what commit sees at the   *)
(* head is always the oldest unsquashed instruction with the fields it     *)
(* dispatched with and the result the buses delivered to it, through any   *)
(* mix of wrap-around, dual commit, dual dispatch and squash.              *)
ImplementsWindow == Abstract!Spec

=============================================================================
