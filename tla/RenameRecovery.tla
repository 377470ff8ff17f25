--------------------------- MODULE RenameRecovery ---------------------------
(***************************************************************************)
(* Register renaming and branch recovery (otter_mcu_ooo.sv, with           *)
(* RenameTable.sv, ReorderBuffer.sv and the branch reservation station).   *)
(* One step is one clock cycle; any stream of instructions may dispatch.   *)
(*                                                                         *)
(* A branch that dispatches takes a checkpoint of the rename table, waits  *)
(* in the branch station, is selected out of order into br_e, and executes *)
(* in the next cycle.  A misprediction restores its checkpoint and drops   *)
(* every younger instruction while commit and the selection of an older    *)
(* branch go on in the same cycle.                                         *)
(*                                                                         *)
(* The reorder buffer appears as the ring that ReorderBuffer refines: an   *)
(* entry that is not in flight is normalised to Idle, and completion of    *)
(* anything but a branch is left to commit, which may take an instruction  *)
(* in any cycle after its dispatch.                                        *)
(***************************************************************************)
EXTENDS RenameTable, FiniteSets

CONSTANT BR_RS_ENTRIES   \* slots of the branch reservation station

VARIABLES rob,           \* [Tag -> entry]
          head, used,    \* ring pointer and occupancy
          ckpt_used,     \* checkpoints taken
          ckpt_owner,    \* [Ckpt -> Tag], meaningful for the taken ones
          rs_br,         \* the branch station: set of [tag, ckpt]
          br_e           \* the branch executing this cycle

vars == <<rat, ck, rob, head, used, ckpt_used, ckpt_owner, rs_br, br_e>>

\* Is it a control instruction, and has it executed?
BrState == {"none", "pending", "resolved"}
Entry == [live : BOOLEAN, rd : Dest, br : BrState]
Idle == [live |-> FALSE, rd |-> NoReg, br |-> "none"]

Station == [tag : Tag, ckpt : Ckpt]
NoBranch == [valid |-> FALSE, tag |-> 0, ckpt |-> NoCkpt]

tail == TagPlus(head, used)
Younger(t, b) == TagYounger(t, b, head)

-----------------------------------------------------------------------------
(* Dispatch.                                                               *)

\* A bundle of up to two decoded instructions.  Control instructions are
\* fetch barriers, so at most one of the two is one.
Slot == [rd : Dest, ctl : BOOLEAN]
Bundle ==
  {<<>>} \cup {<<s>> : s \in Slot}
         \cup {b \in Slot \X Slot : ~(b[1].ctl /\ b[2].ctl)}

HasBranch(b) == \E i \in DOMAIN b : b[i].ctl
BranchTag(b) == IF b[1].ctl THEN tail ELSE TagPlus(tail, 1)

FreeCkpt == Ckpt \ ckpt_used
free_br == BR_RS_ENTRIES - Cardinality(rs_br)
\* Mutated: dispatch stops one entry too late.
rob_freeTooHigh == ROB_SIZE + 1 - used
rob_free == ROB_SIZE - used

CanDispatch(b) ==
  /\ Len(b) <= rob_free
  /\ HasBranch(b) => FreeCkpt # {} /\ free_br >= 1

\* A dispatching branch takes the lowest free checkpoint.
CkptFor(b, id) ==
  IF HasBranch(b)
  THEN id \in FreeCkpt /\ \A q \in FreeCkpt : id <= q
  ELSE id = NoCkpt

Allocated(b, t) ==
  [live |-> TRUE, rd |-> b[t].rd, br |-> IF b[t].ctl THEN "pending" ELSE "none"]

Renames(b) == [i \in DOMAIN b |-> Port(b[i].rd, TagPlus(tail, i - 1))]

-----------------------------------------------------------------------------
(* Commit.                                                                 *)

\* Up to two instructions from the head; a branch retires once resolved and
\* never as the second.
CanCommit(k) ==
  /\ k <= used
  /\ k >= 1 => rob[head].br # "pending"
  /\ k = 2 => rob[TagPlus(head, 1)].br = "none"

Committing(k, t) == TagAge(t, head) < k

Clears(k) == {Port(rob[t].rd, t) : t \in {u \in Tag : Committing(k, u)}}

-----------------------------------------------------------------------------
(* Branch issue.                                                           *)

\* Mutated: a branch selected in the recovery cycle slips into execution.
IntoExecuteUnsquashed(sel, recover) ==
  IF sel = NoBranch THEN NoBranch
  ELSE [valid |-> TRUE, tag |-> sel.tag, ckpt |-> sel.ckpt]

\* The station offers its oldest ready entry; operands arrive in any order,
\* so any entry, or none, may be the one selected.
Selection == rs_br \cup {NoBranch}

IntoExecute(sel, recover) ==
  IF sel = NoBranch \/ (recover /\ Younger(sel.tag, br_e.tag))
  THEN NoBranch
  ELSE [valid |-> TRUE, tag |-> sel.tag, ckpt |-> sel.ckpt]

\* An executing branch completes on its own data bus.
Executed(t) ==
  IF br_e.valid /\ br_e.tag = t THEN [rob[t] EXCEPT !.br = "resolved"] ELSE rob[t]

-----------------------------------------------------------------------------
Init ==
  /\ RenameInit
  /\ rob = [t \in Tag |-> Idle]
  /\ head = 0 /\ used = 0
  /\ ckpt_used = {}
  /\ ckpt_owner = [k \in Ckpt |-> 0]
  /\ rs_br = {}
  /\ br_e = NoBranch

\* A cycle without recovery: dispatch b, commit k, select sel; a branch in
\* br_e resolves as predicted and gives up its checkpoint.
Cycle(b, k, sel, id) ==
  /\ CanDispatch(b) /\ CanCommit(k) /\ CkptFor(b, id)
  /\ RenameStep(Renames(b), Clears(k), id, HasBranch(b) /\ b[1].ctl, NoCkpt)
  /\ rob' = [t \in Tag |->
       IF Len(b) >= 1 /\ t = tail THEN Allocated(b, 1)
       ELSE IF Len(b) = 2 /\ t = TagPlus(tail, 1) THEN Allocated(b, 2)
       ELSE IF Committing(k, t) THEN Idle
       ELSE Executed(t)]
  /\ head' = TagPlus(head, k)
  /\ used' = used + Len(b) - k
  /\ ckpt_used' = (ckpt_used \ {br_e.ckpt}) \cup ({id} \ {NoCkpt})
  /\ ckpt_owner' = [q \in Ckpt |-> IF q = id THEN BranchTag(b) ELSE ckpt_owner[q]]
  /\ rs_br' = (rs_br \ {sel})
              \cup (IF HasBranch(b) THEN {[tag |-> BranchTag(b), ckpt |-> id]} ELSE {})
  /\ br_e' = IntoExecute(sel, FALSE)

\* The branch in br_e was mispredicted: restore its checkpoint, drop what is
\* younger.  Nothing dispatches; commit and older branches carry on.
Recover(k, sel) ==
  /\ br_e.valid /\ CanCommit(k)
  /\ RenameStep(<<>>, Clears(k), NoCkpt, FALSE, br_e.ckpt)
  /\ rob' = [t \in Tag |->
       IF Committing(k, t) \/ Younger(t, br_e.tag) THEN Idle ELSE Executed(t)]
  /\ head' = TagPlus(head, k)
  /\ used' = TagAge(br_e.tag, head) + 1 - k
  /\ ckpt_used' = {q \in ckpt_used :
       q # br_e.ckpt /\ ~Younger(ckpt_owner[q], br_e.tag)}
  /\ rs_br' = {e \in rs_br : e # sel /\ ~Younger(e.tag, br_e.tag)}
  /\ br_e' = IntoExecute(sel, TRUE)
  /\ UNCHANGED ckpt_owner

\* A commit-time flush: a trap, mret or fence.i at the head (never a branch),
\* or an interrupt with nothing in flight.  It wins over a recovery.
Flush ==
  /\ used = 0 \/ rob[head].br = "none"
  /\ RenameFlush
  /\ rob' = [t \in Tag |-> Idle]
  /\ head' = 0 /\ used' = 0
  /\ ckpt_used' = {} /\ rs_br' = {} /\ br_e' = NoBranch
  /\ UNCHANGED ckpt_owner

Next ==
  \/ \E b \in Bundle, k \in 0 .. 2, sel \in Selection, id \in Ckpt \cup {NoCkpt} :
       Cycle(b, k, sel, id)
  \/ \E k \in 0 .. 2, sel \in Selection : Recover(k, sel)
  \/ Flush

Spec == Init /\ [][Next]_vars

-----------------------------------------------------------------------------
Live(t) == rob[t].live

TypeOK ==
  /\ rat \in Table /\ ck \in [Ckpt -> Table]
  /\ rob \in [Tag -> Entry]
  /\ head \in Tag /\ used \in 0 .. ROB_SIZE
  /\ ckpt_used \in SUBSET Ckpt /\ ckpt_owner \in [Ckpt -> Tag]
  /\ rs_br \in SUBSET Station
  /\ br_e \in {NoBranch} \cup [valid : {TRUE}, tag : Tag, ckpt : Ckpt]

\* table is the mapping of the instructions satisfying Upto: a busy register
\* names the youngest of them that writes it.
MapsExactly(table, Upto(_)) ==
  \A r \in Reg :
    /\ table[r] # Committed => /\ Live(table[r]) /\ Upto(table[r])
                               /\ rob[table[r]].rd = r
    /\ \A t \in Tag : Live(t) /\ Upto(t) /\ rob[t].rd = r
         => table[r] # Committed /\ ~Younger(t, table[r])

(* The rename table always names, for each register, the youngest          *)
(* instruction in flight that writes it, and says committed exactly when   *)
(* there is none: through dual dispatch with a destination clash, dual     *)
(* commit in any cycle, nested out-of-order recoveries and tag reuse.      *)
RatExact == TypeOK /\ MapsExactly(rat, LAMBDA t : TRUE)

(* A taken checkpoint is at all times the mapping of the instructions up   *)
(* to and including its branch, however many of them have committed since  *)
(* it was saved, so restoring it is exact in any later cycle.              *)
CkptExact ==
  \A q \in ckpt_used : MapsExactly(ck[q], LAMBDA t : ~Younger(t, ckpt_owner[q]))

(* Checkpoints and unresolved branches in flight correspond one to one: no *)
(* checkpoint leaks when a branch is squashed, none is released while its  *)
(* branch can still mispredict, and the identifier a branch carries in the *)
(* station or in br_e is the checkpoint recorded as its own.               *)
Holds(t, q) ==
  \/ [tag |-> t, ckpt |-> q] \in rs_br
  \/ br_e.valid /\ br_e.tag = t /\ br_e.ckpt = q

CkptLifecycle ==
  /\ \A q \in ckpt_used : /\ Live(ckpt_owner[q])
                          /\ rob[ckpt_owner[q]].br = "pending"
                          /\ Holds(ckpt_owner[q], q)
  /\ \A t \in Tag, q \in Ckpt : Holds(t, q) => q \in ckpt_used /\ ckpt_owner[q] = t
  /\ \A t \in Tag : rob[t].br = "pending" => \E q \in Ckpt : Holds(t, q)

=============================================================================
