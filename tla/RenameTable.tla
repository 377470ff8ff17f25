----------------------------- MODULE RenameTable ----------------------------
(***************************************************************************)
(* The register alias table and its checkpoints (RenameTable.sv).  The     *)
(* busy bit and the tag of a register are one value here: the tag of the   *)
(* instruction its newest value will come from, or Committed when it is    *)
(* not busy (the tag of a register that is not busy is never looked at).   *)
(* The operators give the next state from one cycle's ports; the module    *)
(* that composes the table with dispatch, commit and branches is           *)
(* RenameRecovery.                                                         *)
(***************************************************************************)
EXTENDS Tags, Sequences

CONSTANTS Reg,        \* renamed registers: x1..x31 and f0..f31
          NoReg,      \* "writes no register" (also x0)
          Committed,  \* mapping of a register that is not busy
          CKPTS,      \* number of checkpoints
          NoCkpt      \* port not enabled

Ckpt == 0 .. CKPTS - 1

ASSUME RenameAssumption ==
  /\ NoReg \notin Reg /\ Committed \notin Tag
  /\ CKPTS \in Nat \ {0} /\ NoCkpt \notin Ckpt

Dest == Reg \cup {NoReg}
Table == [Reg -> Tag \cup {Committed}]

VARIABLES rat,        \* the current table
          ck          \* [Ckpt -> Table]

ratVars == <<rat, ck>>

\* An enabled set or clear port: a destination and the tag it is about.
Port(rd, t) == [rd |-> rd, tag |-> t]

\* Mutated: commit clears the register whoever renamed it last.
ClearedWhateverTag(table, clears) ==
  [r \in Reg |-> IF \E p \in clears : p.rd = r THEN Committed ELSE table[r]]

\* Commit clears a register only if nothing younger has renamed it since.
Cleared(table, clears) ==
  [r \in Reg |-> IF \E p \in clears : p.rd = r /\ p.tag = table[r]
                 THEN Committed ELSE table[r]]

Renamed(table, set) ==
  [r \in Reg |-> IF set.rd = r THEN set.tag ELSE table[r]]

\* The table after this cycle's restore and clears, before any rename.
Base(clears, restore) ==
  Cleared(IF restore = NoCkpt THEN rat ELSE ck[restore], clears)

\* Mutated: checkpoints do not see commits.
RenameStepStaleCheckpoints(sets, clears, save, save_after_slot0, restore) ==
  LET table0 == IF Len(sets) >= 1 THEN Renamed(Base(clears, restore), sets[1])
                                  ELSE Base(clears, restore)
      table1 == IF Len(sets) = 2 THEN Renamed(table0, sets[2]) ELSE table0
  IN  /\ rat' = table1
      /\ ck' = [k \in Ckpt |->
                  IF k = save THEN IF save_after_slot0 THEN table0 ELSE table1
                  ELSE ck[k]]

\* One cycle.  sets are the renames of the dispatched slots, in order; a
\* restore never coincides with them.  A checkpoint is saved with the renames
\* of the slots up to the branch, and every other one keeps up with commit.
RenameStep(sets, clears, save, save_after_slot0, restore) ==
  LET table0 == IF Len(sets) >= 1 THEN Renamed(Base(clears, restore), sets[1])
                                  ELSE Base(clears, restore)
      table1 == IF Len(sets) = 2 THEN Renamed(table0, sets[2]) ELSE table0
  IN  /\ rat' = table1
      /\ ck' = [k \in Ckpt |->
                  IF k = save THEN IF save_after_slot0 THEN table0 ELSE table1
                  ELSE Cleared(ck[k], clears)]

AllCommitted == [r \in Reg |-> Committed]

RenameInit == rat = AllCommitted /\ ck = [k \in Ckpt |-> AllCommitted]

\* A flush leaves nothing in flight, in the table and in every checkpoint.
RenameFlush == rat' = AllCommitted /\ ck' = [k \in Ckpt |-> AllCommitted]

=============================================================================
