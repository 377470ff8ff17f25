-------------------------- MODULE BranchPrediction --------------------------
(***************************************************************************)
(* BranchPredictor.sv and what otter_mcu_ooo.sv does with it: control      *)
(* instructions are fetched with a prediction and the history it was made  *)
(* with (FrontendPacketBuilder.sv), dispatched, executed out of order, and *)
(* committed.  A mispredicted one squashes the younger and gives its       *)
(* history back; a trap, an interrupt, mret or fence.i squashes all.       *)
(* Instructions without a prediction only delay the others, so any         *)
(* dispatch, issue or commit may be late by any number of cycles.          *)
(*                                                                         *)
(* One step is one clock cycle.  At most one control instruction is        *)
(* fetched (Bundled in FetchPath), at most one dispatched and at most one  *)
(* committed in it: commit1 takes none.                                    *)
(*                                                                         *)
(* A vector of bits is the set of the positions of its ones: a program     *)
(* counter is the set of the ones of its halfword address, exclusive or is *)
(* symmetric difference, an index is what is left of a program counter in  *)
(* its low positions.  An input that need not be there is <<>> or          *)
(* <<its value>>.                                                          *)
(***************************************************************************)
EXTENDS Integers, Sequences, FiniteSets

CONSTANTS GHR_BITS,      \* bits of history (8 in the code)
          BHT_BITS,      \* BHT_INDEX_WIDTH (9 in the code)
          BTB_BITS,      \* BTB_INDEX_WIDTH (4 in the code)
          RAS_DEPTH,     \* return addresses (4 in the code)
          PC,            \* program counters
          NoPC

ASSUME PredictorAssumption ==
  /\ PC \subseteq SUBSET Nat /\ {} \in PC /\ NoPC \notin PC
  /\ GHR_BITS \in Nat \ {0} /\ BHT_BITS \in Nat /\ BTB_BITS \in Nat
  \* A power of two: the stack pointer wraps by its width.
  /\ RAS_DEPTH \in Nat \ {0} /\ \E w \in 1 .. 16 : RAS_DEPTH = 2 ^ w

History == SUBSET (0 .. GHR_BITS - 1)
Maybe(S) == {<<>>} \cup {<<x>> : x \in S}

VARIABLES bht,           \* two-bit counters
          btb,           \* btb_pc and btb_target_mem, pc NoPC when not valid
          ras_stack, ras_sp, ras_count,
          ghr_spec,      \* history fetch predicts with
          ghr_retired    \* history of the branches that committed

predictorVars == <<bht, btb, ras_stack, ras_sp, ras_count, ghr_spec, ghr_retired>>

BhtIndex == SUBSET (0 .. BHT_BITS - 1)
BtbIndex == SUBSET (0 .. BTB_BITS - 1)
BHT_RESET_VALUE == 1

PredictorTypeOK ==
  /\ bht \in [BhtIndex -> 0 .. 3]
  /\ btb \in [BtbIndex -> [pc : PC \cup {NoPC}, target : PC]]
  /\ ras_stack \in [0 .. RAS_DEPTH - 1 -> PC]
  /\ ras_sp \in 0 .. RAS_DEPTH - 1 /\ ras_count \in 0 .. RAS_DEPTH
  /\ ghr_spec \in History /\ ghr_retired \in History

-----------------------------------------------------------------------------
(* Lookup.                                                                 *)

gshare(pc, h) == {n \in 0 .. BHT_BITS - 1 : (n \in pc) # (n \in h)}
btb_index(pc) == pc \cap (0 .. BTB_BITS - 1)

bht_taken(pc) == bht[gshare(pc, ghr_spec)] >= 2
bht_weak(pc) == bht[gshare(pc, ghr_spec)] = BHT_RESET_VALUE
btb_hit(pc) == btb[btb_index(pc)].pc = pc
btb_target(pc) == btb[btb_index(pc)].target

ras_valid == ras_count # 0
ras_top == ras_stack[(ras_sp - 1) % RAS_DEPTH]

-----------------------------------------------------------------------------
(* Update.                                                                 *)

\* History h with a newest outcome; the oldest falls out.
Shift(h, taken) ==
  {n + 1 : n \in h \ {GHR_BITS - 1}} \cup (IF taken THEN {0} ELSE {})
ShiftBy(h, outcome) == IF outcome = <<>> THEN h ELSE Shift(h, outcome[1])

Counted(n, taken) ==
  IF taken THEN (IF n = 3 THEN 3 ELSE n + 1) ELSE (IF n = 0 THEN 0 ELSE n - 1)

\* Mutated: a flush leaves the speculative history.
NextHistoryKept(shift, recover, restore, retired) ==
  IF recover # <<>> THEN recover[1] ELSE ShiftBy(ghr_spec, shift)
\* A flush or a recovery overrides the fetch of its cycle.
NextHistory(shift, recover, restore, retired) ==
  IF restore THEN retired
  ELSE IF recover # <<>> THEN recover[1]
  ELSE ShiftBy(ghr_spec, shift)

\* branch: the conditional branch that commits, [pc, ghr, taken].
Trained(branch) ==
  IF branch = <<>> THEN bht
  ELSE [bht EXCEPT ![gshare(branch[1].pc, branch[1].ghr)] = Counted(@, branch[1].taken)]

\* jump: the indirect jump that commits, [pc, target].
Remembered(jump) ==
  IF jump = <<>> THEN btb ELSE [btb EXCEPT ![btb_index(jump[1].pc)] = jump[1]]

\* A push into a full stack overwrites the oldest address.  No instruction
\* both pops and pushes: a return writes no link register.
\* Mutated: a full stack keeps its oldest address and drops the new one.
ReturnStackRefusing(pop, push) ==
  LET room == push # <<>> /\ ras_count # RAS_DEPTH
  IN  /\ ras_stack' = IF room THEN [ras_stack EXCEPT ![ras_sp] = push[1]] ELSE ras_stack
      /\ ras_sp' = IF room THEN (ras_sp + 1) % RAS_DEPTH
                   ELSE IF pop /\ ras_valid THEN (ras_sp - 1) % RAS_DEPTH ELSE ras_sp
      /\ ras_count' = IF room THEN ras_count + 1
                      ELSE IF pop /\ ras_valid THEN ras_count - 1 ELSE ras_count
ReturnStack(pop, push) ==
  /\ ras_stack' = IF push = <<>> THEN ras_stack ELSE [ras_stack EXCEPT ![ras_sp] = push[1]]
  /\ ras_sp' = IF push # <<>> THEN (ras_sp + 1) % RAS_DEPTH
               ELSE IF pop /\ ras_valid THEN (ras_sp - 1) % RAS_DEPTH ELSE ras_sp
  /\ ras_count' = IF push # <<>> THEN (IF ras_count # RAS_DEPTH THEN ras_count + 1 ELSE ras_count)
                  ELSE IF pop /\ ras_valid THEN ras_count - 1 ELSE ras_count

PredictorInit ==
  /\ bht = [n \in BhtIndex |-> BHT_RESET_VALUE]
  /\ btb = [n \in BtbIndex |-> [pc |-> NoPC, target |-> {}]]
  /\ ras_stack = [n \in 0 .. RAS_DEPTH - 1 |-> {}] /\ ras_sp = 0 /\ ras_count = 0
  /\ ghr_spec = {} /\ ghr_retired = {}

\* One cycle.
Predictor(shift, recover, restore, branch, jump, pop, push) ==
  LET retired == ShiftBy(ghr_retired, IF branch = <<>> THEN <<>> ELSE <<branch[1].taken>>)
  IN  /\ ghr_retired' = retired
      /\ ghr_spec' = NextHistory(shift, recover, restore, retired)
      /\ bht' = Trained(branch)
      /\ btb' = Remembered(jump)
      /\ ReturnStack(pop, push)

-----------------------------------------------------------------------------
(* The instructions it predicts.                                           *)

CONSTANTS Code,          \* the control instructions, by program counter
          WINDOW,        \* control instructions between dispatch and commit
          CKPTS          \* rename checkpoints (4 in the code)

\* What an instruction is and where it may go: back for a branch whose offset
\* is negative, link for one that writes a link register, next for the address
\* after it, goes for its possible outcomes, NoPC being "on to next".
ControlTransfer ==
  [kind : {"branch", "jal", "jalr", "return"}, link : BOOLEAN, back : BOOLEAN,
   to : PC, next : PC, goes : SUBSET (PC \cup {NoPC})]

ASSUME CodeAssumption ==
  /\ DOMAIN Code \subseteq PC
  /\ \A pc \in DOMAIN Code :
       /\ Code[pc] \in ControlTransfer
       /\ Code[pc].kind = "return" => ~Code[pc].link
  /\ WINDOW \in Nat \ {0} /\ CKPTS \in Nat \ {0}

VARIABLES flight,        \* control instructions from fetch to commit, oldest first
          calls          \* history: the latest RAS_DEPTH calls not returned from

branchVars == <<predictorVars, flight, calls>>

\* One in flight.  Only the youngest can be "queued", before dispatch; went is
\* where it goes once it is "done".
Control ==
  [pc : DOMAIN Code, ghr : History, predicted : PC \cup {NoPC},
   stage : {"queued", "waiting", "executing", "done"}, went : PC \cup {NoPC}]

KindOf(c) == Code[c.pc].kind

-----------------------------------------------------------------------------
(* Fetch.                                                                  *)

Prediction(pc) ==
  LET i == Code[pc]
  IN  IF i.kind = "jal" THEN i.to
      ELSE IF i.kind = "return" /\ ras_valid THEN ras_top
      ELSE IF i.kind = "branch"
      THEN IF bht_taken(pc) \/ (bht_weak(pc) /\ i.back) THEN i.to ELSE NoPC
      ELSE IF btb_hit(pc) THEN btb_target(pc) ELSE NoPC

\* Mutated: a packet carries the history with its own prediction in it.
PacketAfter(pc) ==
  [pc |-> pc, ghr |-> IF Code[pc].kind = "branch"
                      THEN Shift(ghr_spec, Prediction(pc) # NoPC) ELSE ghr_spec,
   predicted |-> Prediction(pc), stage |-> "queued", went |-> NoPC]
FetchPacket(pc) ==
  [pc |-> pc, ghr |-> ghr_spec, predicted |-> Prediction(pc),
   stage |-> "queued", went |-> NoPC]

\* The bit a fetched control instruction shifts into the history, if any.
\* Mutated: jumps shift the history as well.
FetchedOutcomeAny(fetch) ==
  IF fetch # <<>> THEN <<Prediction(fetch[1]) # NoPC>> ELSE <<>>
FetchedOutcome(fetch) ==
  IF fetch # <<>> /\ Code[fetch[1]].kind = "branch"
  THEN <<Prediction(fetch[1]) # NoPC>> ELSE <<>>

-----------------------------------------------------------------------------
(* Dispatch and the branch unit.                                           *)

Queued == flight # <<>> /\ flight[Len(flight)].stage = "queued"
Unresolved == {k \in DOMAIN flight : flight[k].stage \in {"waiting", "executing"}}
Executing == {k \in DOMAIN flight : flight[k].stage = "executing"}

\* Mutated: the reorder buffer is taken to have room for one more.
MayDispatchOverfull ==
  Queued /\ Len(flight) <= WINDOW + 1 /\ Cardinality(Unresolved) < CKPTS
MayDispatch ==
  Queued /\ Len(flight) <= WINDOW /\ Cardinality(Unresolved) < CKPTS

\* 0, or the one the branch station selects.
Selectable == {0} \cup {k \in DOMAIN flight : flight[k].stage = "waiting"}

\* Everyone one cycle further; who executes is done and goes where predicted.
Advanced(issue, dispatch) ==
  [k \in DOMAIN flight |->
     IF k \in Executing
     THEN [flight[k] EXCEPT !.stage = "done", !.went = flight[k].predicted]
     ELSE IF k = issue THEN [flight[k] EXCEPT !.stage = "executing"]
     ELSE IF flight[k].stage = "queued" /\ dispatch
     THEN [flight[k] EXCEPT !.stage = "waiting"] ELSE flight[k]]

\* What the dispatching control instruction does to the return address stack.
Pops(dispatch) == dispatch /\ KindOf(flight[Len(flight)]) = "return"
Pushes(dispatch) ==
  LET i == Code[flight[Len(flight)].pc]
  IN  IF dispatch /\ i.kind \in {"jal", "jalr"} /\ i.link THEN <<i.next>> ELSE <<>>

\* A stack that forgets only what its depth makes it forget.
Remember(pop, push) ==
  calls' = IF push # <<>>
           THEN Append(IF Len(calls) = RAS_DEPTH THEN Tail(calls) ELSE calls, push[1])
           ELSE IF pop /\ calls # <<>> THEN SubSeq(calls, 1, Len(calls) - 1) ELSE calls

\* The history a mispredicted control instruction restarts fetch with.
\* Mutated: the outcome is left out.
ghr_recover_valueBare(c, target) == c.ghr
ghr_recover_value(c, target) ==
  IF KindOf(c) = "branch" THEN Shift(c.ghr, target # NoPC) ELSE c.ghr

-----------------------------------------------------------------------------
(* Commit: of the oldest, n \in {0, 1}.                                    *)

Committable(n) == n = 1 => flight # <<>> /\ flight[1].stage = "done"

train_branch(n) ==
  IF n = 1 /\ KindOf(flight[1]) = "branch"
  THEN <<[pc |-> flight[1].pc, ghr |-> flight[1].ghr, taken |-> flight[1].went # NoPC]>>
  ELSE <<>>
train_btb(n) ==
  IF n = 1 /\ KindOf(flight[1]) \in {"jalr", "return"} /\ flight[1].went # NoPC
  THEN <<[pc |-> flight[1].pc, target |-> flight[1].went]>> ELSE <<>>

-----------------------------------------------------------------------------
(* One clock cycle.                                                        *)

BranchInit ==
  /\ PredictorInit
  /\ flight = <<>> /\ calls = <<>>

\* Whoever executes was predicted right.
RunOn ==
  \E n \in {0, 1}, issue \in Selectable, dispatch \in BOOLEAN,
     fetch \in Maybe(DOMAIN Code) :
    /\ Committable(n)
    /\ \A k \in Executing : flight[k].predicted \in Code[flight[k].pc].goes
    /\ dispatch => MayDispatch
    /\ fetch # <<>> /\ Queued => dispatch
    /\ flight' = SubSeq(Advanced(issue, dispatch), n + 1, Len(flight))
                   \o (IF fetch = <<>> THEN <<>> ELSE <<FetchPacket(fetch[1])>>)
    /\ Predictor(FetchedOutcome(fetch), <<>>, FALSE, train_branch(n), train_btb(n),
                 Pops(dispatch), Pushes(dispatch))
    /\ Remember(Pops(dispatch), Pushes(dispatch))

\* Who executes was predicted wrong: nothing is dispatched or fetched.
BranchRecover ==
  \E n \in {0, 1}, k \in Executing : \E issue \in Selectable, target \in Code[flight[k].pc].goes :
    /\ Committable(n)
    /\ target # flight[k].predicted
    /\ issue < k
    /\ flight' = SubSeq([Advanced(issue, FALSE) EXCEPT ![k].went = target], n + 1, k)
    /\ Predictor(<<>>, <<ghr_recover_value(flight[k], target)>>, FALSE,
                 train_branch(n), train_btb(n), FALSE, <<>>)
    /\ Remember(FALSE, <<>>)

\* A trap or an interrupt, mret or fence.i: none of them commits a control
\* instruction, and a misprediction of that cycle is not looked at.
Flush ==
  /\ flight' = <<>>
  /\ Predictor(<<>>, <<>>, TRUE, <<>>, <<>>, FALSE, <<>>)
  /\ UNCHANGED calls

BranchNext == RunOn \/ BranchRecover \/ Flush

BranchSpec == BranchInit /\ [][BranchNext]_branchVars

-----------------------------------------------------------------------------
(* Properties.                                                             *)

BranchTypeOK ==
  /\ PredictorTypeOK
  /\ flight \in Seq(Control) /\ Len(flight) <= WINDOW + 1
  /\ calls \in Seq(PC)

\* The history after c, as far as it is known: its outcome once it is done,
\* its prediction until then.
HistoryAfter(c) ==
  IF KindOf(c) = "branch"
  THEN Shift(c.ghr, (IF c.stage = "done" THEN c.went ELSE c.predicted) # NoPC)
  ELSE c.ghr

\* The oldest carries the retired history, each other one what its elder left,
\* and fetch goes on with what the youngest leaves.
HistoriesLinked ==
  /\ flight = <<>> => ghr_spec = ghr_retired
  /\ flight # <<>> => /\ flight[1].ghr = ghr_retired
                      /\ ghr_spec = HistoryAfter(flight[Len(flight)])
  /\ \A k \in 1 .. Len(flight) - 1 : flight[k + 1].ghr = HistoryAfter(flight[k])

\* However fetches, recoveries, commits and flushes meet (BranchPredictor.sv:
\* 149-159, otter_mcu_ooo.sv:284-289), histories line up, so the counter a
\* branch trains is the one that predicted it; and what is in flight fits the
\* reorder buffer and the queue.
HistoryExact == BranchTypeOK /\ HistoriesLinked

\* The return address stack holds the most recent calls that dispatched and
\* have not returned, in their order, also after its pointer wrapped, after a
\* call found it full and a return found it empty (BranchPredictor.sv:123-124,
\* 178-189).  Squashed calls and returns count: a recovery leaves the stack.
ReturnStackExact ==
  calls = [k \in 1 .. ras_count |-> ras_stack[(ras_sp - ras_count + k - 1) % RAS_DEPTH]]

=============================================================================
