------------------------ MODULE BranchPredictorProofs -----------------------
(***************************************************************************)
(* The branch history, for every number of history bits, every size of the *)
(* tables and the window, and every program: its registers keep their      *)
(* types, and the histories of the instructions in flight line up.  No     *)
(* step changes what an instruction leaves as history but a recovery, and  *)
(* that of the youngest only: this is what carries the invariant.          *)
(***************************************************************************)
EXTENDS BranchPrediction, SequenceTheorems, TLAPS

(* A history shifted is a history (BranchPredictor.sv:149-159).            *)
LEMMA ShiftIsHistory ==
  ASSUME NEW h \in History, NEW b \in BOOLEAN
  PROVE  Shift(h, b) \in History
BY PredictorAssumption DEF Shift, History

(* A prediction is an address or NoPC (FrontendPacketBuilder.sv:48-75).*)
LEMMA PredictionType ==
  ASSUME PredictorTypeOK, NEW pc \in DOMAIN Code
  PROVE  Prediction(pc) \in PC \cup {NoPC}
<1>1. pc \in PC /\ Code[pc] \in ControlTransfer
  BY CodeAssumption
<1>2. Code[pc].to \in PC
  BY <1>1 DEF ControlTransfer
<1>3. ras_top \in PC
  <2>1. (ras_sp - 1) % RAS_DEPTH \in 0 .. RAS_DEPTH - 1
    BY PredictorAssumption DEF PredictorTypeOK
  <2> QED BY <2>1 DEF PredictorTypeOK, ras_top
<1>4. btb_target(pc) \in PC
  <2>1. btb_index(pc) \in BtbIndex
    BY DEF btb_index, BtbIndex
  <2> QED BY <2>1 DEF PredictorTypeOK, btb_target
<1> QED BY <1>2, <1>3, <1>4 DEF Prediction

LEMMA PacketType ==
  ASSUME PredictorTypeOK, NEW pc \in DOMAIN Code
  PROVE  FetchPacket(pc) \in Control
BY PredictionType DEF FetchPacket, Control, PredictorTypeOK

(* One cycle of the predictor, whatever it is given.                       *)
LEMMA PredictorStepType ==
  ASSUME PredictorTypeOK,
         NEW shift \in Maybe(BOOLEAN), NEW recover \in Maybe(History),
         NEW restore \in BOOLEAN,
         NEW branch \in Maybe([pc : PC, ghr : History, taken : BOOLEAN]),
         NEW jump \in Maybe([pc : PC, target : PC]),
         NEW pop \in BOOLEAN, NEW push \in Maybe(PC),
         Predictor(shift, recover, restore, branch, jump, pop, push)
  PROVE  PredictorTypeOK'
<1> DEFINE outcome == IF branch = <<>> THEN <<>> ELSE <<branch[1].taken>>
           retired == ShiftBy(ghr_retired, outcome)
<1>1. retired \in History
  <2>1. CASE branch = <<>>
    BY <2>1 DEF ShiftBy, PredictorTypeOK
  <2>2. CASE branch # <<>>
    <3>1. branch[1].taken \in BOOLEAN
      BY <2>2 DEF Maybe
    <3>2. retired = Shift(ghr_retired, branch[1].taken)
      BY <2>2 DEF ShiftBy
    <3> QED BY <3>1, <3>2, ShiftIsHistory DEF PredictorTypeOK
  <2> QED BY <2>1, <2>2
<1>2. ghr_retired' \in History
  BY <1>1 DEF Predictor
<1>3. ghr_spec' \in History
  <2>1. ShiftBy(ghr_spec, shift) \in History
    BY ShiftIsHistory DEF ShiftBy, PredictorTypeOK, Maybe
  <2>2. recover # <<>> => recover[1] \in History
    BY DEF Maybe
  <2>3. ghr_spec' = NextHistory(shift, recover, restore, retired)
    BY DEF Predictor
  <2> QED BY <2>1, <2>2, <2>3, <1>1 DEF NextHistory
<1>4. bht' \in [BhtIndex -> 0 .. 3]
  <2>1. bht' = Trained(branch) /\ bht \in [BhtIndex -> 0 .. 3]
    BY DEF Predictor, PredictorTypeOK
  <2>2. \A n \in 0 .. 3, t \in BOOLEAN : Counted(n, t) \in 0 .. 3
    BY DEF Counted
  <2>3. CASE branch = <<>>
    BY <2>1, <2>3 DEF Trained
  <2>4. CASE branch # <<>>
    <3> DEFINE i == gshare(branch[1].pc, branch[1].ghr)
    <3>1. i \in BhtIndex /\ branch[1].taken \in BOOLEAN
      BY <2>4 DEF gshare, BhtIndex, Maybe
    <3>2. bht' = [bht EXCEPT ![i] = Counted(bht[i], branch[1].taken)]
      BY <2>1, <2>4 DEF Trained
    <3>3. Counted(bht[i], branch[1].taken) \in 0 .. 3
      BY <3>1, <2>1, <2>2
    <3> HIDE DEF i
    <3> QED BY <3>2, <3>3, <3>1, <2>1
  <2> QED BY <2>3, <2>4
<1>5. btb' \in [BtbIndex -> [pc : PC \cup {NoPC}, target : PC]]
  <2>1. btb' = Remembered(jump)
    BY DEF Predictor
  <2>2. CASE jump = <<>>
    BY <2>1, <2>2 DEF Remembered, PredictorTypeOK
  <2>3. CASE jump # <<>>
    <3>1. jump[1] \in [pc : PC \cup {NoPC}, target : PC]
      BY <2>3 DEF Maybe
    <3>2. btb' = [btb EXCEPT ![btb_index(jump[1].pc)] = jump[1]]
      BY <2>1, <2>3 DEF Remembered
    <3> QED BY <3>1, <3>2 DEF PredictorTypeOK
  <2> QED BY <2>2, <2>3
<1>6. ReturnStack(pop, push) /\ (push # <<>> => push[1] \in PC)
  BY DEF Predictor, Maybe
<1>7. ras_stack' \in [0 .. RAS_DEPTH - 1 -> PC]
  BY <1>6 DEF ReturnStack, PredictorTypeOK
<1>8. ras_sp' \in 0 .. RAS_DEPTH - 1
  <2>1. /\ (ras_sp + 1) % RAS_DEPTH \in 0 .. RAS_DEPTH - 1
        /\ (ras_sp - 1) % RAS_DEPTH \in 0 .. RAS_DEPTH - 1
    BY PredictorAssumption DEF PredictorTypeOK
  <2> QED BY <2>1, <1>6 DEF ReturnStack, PredictorTypeOK
<1>9. ras_count' \in 0 .. RAS_DEPTH
  BY <1>6, PredictorAssumption DEF ReturnStack, PredictorTypeOK, ras_valid
<1> QED BY <1>2, <1>3, <1>4, <1>5, <1>7, <1>8, <1>9 DEF PredictorTypeOK

-----------------------------------------------------------------------------
(* Types of a step of the whole.                                           *)

Room == ~Queued => Len(flight) <= WINDOW
TypeInv == BranchTypeOK /\ Room

LEMMA InitTypeInv == BranchInit => TypeInv
<1> SUFFICES ASSUME BranchInit PROVE TypeInv
  OBVIOUS
<1>1. PredictorTypeOK
  BY PredictorAssumption
  DEF BranchInit, PredictorInit, PredictorTypeOK, BhtIndex, BtbIndex, History, BHT_RESET_VALUE
<1>2. flight = <<>> /\ calls = <<>>
  BY DEF BranchInit
<1> QED BY <1>1, <1>2, CodeAssumption DEF TypeInv, BranchTypeOK, Room

(* Advanced changes stages, and gives who is done its prediction.          *)
LEMMA AdvancedKeeps ==
  ASSUME flight \in Seq(Control), NEW issue \in Selectable, NEW dispatch \in BOOLEAN
  PROVE  /\ Advanced(issue, dispatch) \in Seq(Control)
         /\ Len(Advanced(issue, dispatch)) = Len(flight)
         /\ \A k \in 1 .. Len(flight) :
              /\ Advanced(issue, dispatch)[k].pc = flight[k].pc
              /\ Advanced(issue, dispatch)[k].ghr = flight[k].ghr
              /\ HistoryAfter(Advanced(issue, dispatch)[k]) = HistoryAfter(flight[k])
              /\ Advanced(issue, dispatch)[k].stage = "queued" <=>
                   flight[k].stage = "queued" /\ ~dispatch
<1> DEFINE A == Advanced(issue, dispatch)
<1>1. DOMAIN flight = 1 .. Len(flight) /\ Len(flight) \in Nat
  OBVIOUS
<1>2. \A k \in 1 .. Len(flight) :
        /\ A[k] \in Control
        /\ A[k].pc = flight[k].pc /\ A[k].ghr = flight[k].ghr
        /\ HistoryAfter(A[k]) = HistoryAfter(flight[k])
        /\ A[k].stage = "queued" <=> flight[k].stage = "queued" /\ ~dispatch
  <2> TAKE k \in 1 .. Len(flight)
  <2>1. flight[k] \in Control /\ k # 0
    OBVIOUS
  <2>2. A[k] = IF k \in Executing
               THEN [flight[k] EXCEPT !.stage = "done", !.went = flight[k].predicted]
               ELSE IF k = issue THEN [flight[k] EXCEPT !.stage = "executing"]
               ELSE IF flight[k].stage = "queued" /\ dispatch
               THEN [flight[k] EXCEPT !.stage = "waiting"] ELSE flight[k]
    BY <1>1 DEF Advanced
  <2>3. CASE k \in Executing
    <3>1. A[k] = [flight[k] EXCEPT !.stage = "done", !.went = flight[k].predicted]
      BY <2>2, <2>3
    <3>2. flight[k].stage = "executing"
      BY <2>3 DEF Executing
    <3> HIDE DEF A
    <3> QED BY <2>1, <3>1, <3>2 DEF Control, HistoryAfter, KindOf
  <2>4. CASE k \notin Executing /\ k = issue
    <3>1. A[k] = [flight[k] EXCEPT !.stage = "executing"]
      BY <2>2, <2>4
    <3>2. flight[k].stage = "waiting"
      BY <2>1, <2>4 DEF Selectable
    <3> HIDE DEF A
    <3> QED BY <2>1, <3>1, <3>2 DEF Control, HistoryAfter, KindOf
  <2>5. CASE k \notin Executing /\ k # issue /\ flight[k].stage = "queued" /\ dispatch
    <3>1. A[k] = [flight[k] EXCEPT !.stage = "waiting"]
      BY <2>2, <2>5
    <3> HIDE DEF A
    <3> QED BY <2>1, <2>5, <3>1 DEF Control, HistoryAfter, KindOf
  <2>6. CASE k \notin Executing /\ k # issue /\ ~(flight[k].stage = "queued" /\ dispatch)
    <3>1. A[k] = flight[k]
      BY <2>2, <2>6
    <3> HIDE DEF A
    <3> QED BY <2>1, <2>6, <3>1
  <2> QED BY <2>3, <2>4, <2>5, <2>6
<1>3. A = [k \in 1 .. Len(flight) |-> A[k]]
  BY <1>1 DEF Advanced
<1>4. A \in Seq(Control) /\ Len(A) = Len(flight)
  <2> HIDE DEF A
  <2> QED BY <1>1, <1>2, <1>3
<1> QED BY <1>2, <1>4

(* A piece of a sequence, and what may be put behind it.                   *)
LEMMA PieceAndMore ==
  ASSUME NEW S, NEW s \in Seq(S), NEW n \in Nat, NEW m \in Nat, n <= m, m <= Len(s),
         NEW t \in Maybe(S)
  PROVE  /\ SubSeq(s, n + 1, m) \o t \in Seq(S) /\ t \in Seq(S)
         /\ Len(SubSeq(s, n + 1, m) \o t) = m - n + Len(t) /\ Len(t) \in {0, 1}
         /\ \A k \in 1 .. m - n : (SubSeq(s, n + 1, m) \o t)[k] = s[k + n]
<1>1. t \in Seq(S) /\ Len(t) \in {0, 1}
  <2>1. CASE t = <<>>
    BY <2>1
  <2>2. CASE t # <<>>
    <3> PICK e \in S : t = <<e>>
      BY <2>2 DEF Maybe
    <3> QED OBVIOUS
  <2> QED BY <2>1, <2>2
<1>2. SubSeq(s, n + 1, m) \in Seq(S)
  BY SubSeqProperties
<1>3. Len(SubSeq(s, n + 1, m)) = m - n
  BY SubSeqProperties
<1>4. \A k \in 1 .. m - n : SubSeq(s, n + 1, m)[k] = s[k + n]
  BY SubSeqProperties
<1> QED BY <1>1, <1>2, <1>3, <1>4

LEMMA LastBehind ==
  ASSUME NEW S, NEW s \in Seq(S), NEW t \in Seq(S), Len(t) = 1
  PROVE  (s \o t)[Len(s \o t)] = t[1]
<1>1. PICK l \in Nat : l = Len(s)
  BY LenProperties
<1>2. Len(s \o t) = l + 1
  <2>1. Len(s \o t) = Len(s) + Len(t)
    BY ConcatProperties
  <2> QED BY <2>1, <1>1
<1>3. (s \o t)[l + 1] = t[1]
  <2>1. \A i \in 1 .. Len(s) + Len(t) :
          (s \o t)[i] = IF i <= Len(s) THEN s[i] ELSE t[i - Len(s)]
    BY ConcatProperties, Zenon
  <2>2. l + 1 \in 1 .. Len(s) + Len(t) /\ ~(l + 1 <= Len(s)) /\ (l + 1) - Len(s) = 1
    BY <1>1
  <2>3. (s \o t)[l + 1] = t[(l + 1) - Len(s)]
    BY <2>1, <2>2, Zenon
  <2> QED BY <2>2, <2>3, Zenon
<1> QED BY <1>2, <1>3, Zenon

-----------------------------------------------------------------------------
(* What the predictor is told.                                             *)

LEMMA InputTypes ==
  ASSUME BranchTypeOK,
         NEW n \in {0, 1}, Committable(n), NEW dispatch \in BOOLEAN, dispatch => MayDispatch,
         NEW fetch \in Maybe(DOMAIN Code)
  PROVE  /\ FetchedOutcome(fetch) \in Maybe(BOOLEAN)
         /\ train_branch(n) \in Maybe([pc : PC, ghr : History, taken : BOOLEAN])
         /\ train_btb(n) \in Maybe([pc : PC, target : PC])
         /\ Pops(dispatch) \in BOOLEAN
         /\ Pushes(dispatch) \in Maybe(PC)
<1>1. n = 1 => 1 \in 1 .. Len(flight) /\ flight[1] \in Control
  BY DEF BranchTypeOK, Committable
<1>2. FetchedOutcome(fetch) \in Maybe(BOOLEAN)
  BY DEF FetchedOutcome, Maybe
<1>3. train_branch(n) \in Maybe([pc : PC, ghr : History, taken : BOOLEAN])
  <2>1. CASE n = 1
    <3>1. flight[1].pc \in PC /\ flight[1].ghr \in History
      BY <1>1, <2>1, CodeAssumption DEF Control
    <3>2. [pc |-> flight[1].pc, ghr |-> flight[1].ghr, taken |-> flight[1].went # NoPC]
            \in [pc : PC, ghr : History, taken : BOOLEAN]
      BY <3>1
    <3> QED BY <3>2 DEF train_branch, Maybe
  <2> QED BY <2>1 DEF train_branch, Maybe
<1>4. train_btb(n) \in Maybe([pc : PC, target : PC])
  <2>1. CASE n = 1 /\ flight[1].went # NoPC
    <3>1. [pc |-> flight[1].pc, target |-> flight[1].went] \in [pc : PC, target : PC]
      BY <1>1, <2>1, CodeAssumption DEF Control
    <3> QED BY <3>1 DEF train_btb, Maybe
  <2> QED BY <2>1 DEF train_btb, Maybe
<1>5. Pops(dispatch) \in BOOLEAN
  BY DEF Pops
<1>6. Pushes(dispatch) \in Maybe(PC)
  <2>1. CASE dispatch
    <3>1. Len(flight) \in 1 .. Len(flight) /\ flight[Len(flight)] \in Control
      BY <2>1 DEF BranchTypeOK, MayDispatch, Queued
    <3>2. Code[flight[Len(flight)].pc].next \in PC
      BY <3>1, CodeAssumption DEF Control, ControlTransfer
    <3> QED BY <3>2 DEF Pushes, Maybe
  <2> QED BY <2>1 DEF Pushes, Maybe
<1> QED BY <1>2, <1>3, <1>4, <1>5, <1>6

LEMMA CallsType ==
  ASSUME calls \in Seq(PC), NEW pop \in BOOLEAN,
         NEW push \in Maybe(PC),
         Remember(pop, push)
  PROVE  calls' \in Seq(PC)
<1>1. calls # <<>> => Tail(calls) \in Seq(PC) /\ SubSeq(calls, 1, Len(calls) - 1) \in Seq(PC)
  BY SubSeqProperties
<1>2. CASE push # <<>>
  <2>1. push[1] \in PC
    BY <1>2 DEF Maybe
  <2>2. CASE Len(calls) = RAS_DEPTH
    <3>1. calls # <<>>
      BY <2>2, PredictorAssumption
    <3> QED BY <1>1, <1>2, <2>1, <2>2, <3>1 DEF Remember
  <2> QED BY <1>2, <2>1, <2>2 DEF Remember
<1>3. CASE push = <<>>
  BY <1>1, <1>3 DEF Remember
<1> QED BY <1>2, <1>3

-----------------------------------------------------------------------------
(* What a step does to the instructions in flight.                         *)

\* The instructions in flight after a cycle that mispredicts nothing, and what
\* that leaves of those that were in flight before.
Ran(n, issue, dispatch, fetch) ==
  flight' = SubSeq(Advanced(issue, dispatch), n + 1, Len(flight))
              \o (IF fetch = <<>> THEN <<>> ELSE <<FetchPacket(fetch[1])>>)

RunKeeps(n, dispatch, fetch) ==
  /\ Len(flight) \in Nat /\ n <= Len(flight) /\ flight' \in Seq(Control)
  /\ Len(flight') = Len(flight) - n + (IF fetch = <<>> THEN 0 ELSE 1)
  /\ \A k \in 1 .. Len(flight) - n :
       /\ flight'[k].ghr = flight[k + n].ghr
       /\ HistoryAfter(flight'[k]) = HistoryAfter(flight[k + n])
       /\ flight'[k].stage = "queued" <=> flight[k + n].stage = "queued" /\ ~dispatch
  /\ fetch # <<>> => flight'[Len(flight')] = FetchPacket(fetch[1])

\* After a misprediction at e.
Recovered(n, e, issue, target) ==
  flight' = SubSeq([Advanced(issue, FALSE) EXCEPT ![e].went = target], n + 1, e)

RecoverKeeps(n, e, target) ==
  /\ Len(flight) \in Nat /\ e \in 1 .. Len(flight) /\ n < e
  /\ flight' \in Seq(Control) /\ Len(flight') = e - n
  /\ flight[e] \in Control /\ flight[e].stage = "executing"
  /\ \A k \in 1 .. e - n : flight'[k].ghr = flight[k + n].ghr
  /\ \A k \in 1 .. e - n - 1 : HistoryAfter(flight'[k]) = HistoryAfter(flight[k + n])
  /\ flight'[e - n].stage = "done"
  /\ HistoryAfter(flight'[e - n]) = ghr_recover_value(flight[e], target)

\* A cycle that mispredicts nothing keeps what it does not commit, in order.
LEMMA RunFlight ==
  ASSUME BranchTypeOK, NEW n \in {0, 1}, Committable(n), NEW issue \in Selectable,
         NEW dispatch \in BOOLEAN, NEW fetch \in Maybe(DOMAIN Code),
         Ran(n, issue, dispatch, fetch)
  PROVE  RunKeeps(n, dispatch, fetch)
<1> DEFINE A == Advanced(issue, dispatch)
           new == IF fetch = <<>> THEN <<>> ELSE <<FetchPacket(fetch[1])>>
           kept == SubSeq(A, n + 1, Len(flight))
<1>1. flight \in Seq(Control) /\ Len(flight) \in Nat /\ PredictorTypeOK /\ n \in Nat
  BY DEF BranchTypeOK
<1>2. /\ A \in Seq(Control) /\ Len(A) = Len(flight)
      /\ \A k \in 1 .. Len(flight) :
           /\ A[k].ghr = flight[k].ghr
           /\ HistoryAfter(A[k]) = HistoryAfter(flight[k])
           /\ A[k].stage = "queued" <=> flight[k].stage = "queued" /\ ~dispatch
  BY <1>1, AdvancedKeeps
<1>3. new \in Maybe(Control) /\ (Len(new) = IF fetch = <<>> THEN 0 ELSE 1)
  BY <1>1, PacketType DEF Maybe
<1>4. n <= Len(flight)
  BY <1>1 DEF Committable
<1>5. flight' = kept \o new
  BY DEF Ran
<1>6. fetch # <<>> => new[1] = FetchPacket(fetch[1])
  OBVIOUS
<1> HIDE DEF A, new
<1>7. /\ kept \o new \in Seq(Control) /\ Len(kept \o new) = Len(flight) - n + Len(new)
      /\ new \in Seq(Control) /\ kept \in Seq(Control)
      /\ \A k \in 1 .. Len(flight) - n : (kept \o new)[k] = A[k + n]
  <2>1. PICK m \in Nat : m = Len(flight)
    BY <1>1
  <2>2. n <= m /\ m <= Len(A)
    BY <2>1, <1>2, <1>4
  <2>3. /\ SubSeq(A, n + 1, m) \o new \in Seq(Control) /\ new \in Seq(Control)
        /\ Len(SubSeq(A, n + 1, m) \o new) = m - n + Len(new)
        /\ \A k \in 1 .. m - n : (SubSeq(A, n + 1, m) \o new)[k] = A[k + n]
    <3>1. A \in Seq(Control) /\ n \in Nat /\ new \in Maybe(Control)
      BY <1>1, <1>2, <1>3, Zenon
    <3>2. \A t \in Maybe(Control) :
            /\ SubSeq(A, n + 1, m) \o t \in Seq(Control) /\ t \in Seq(Control)
            /\ Len(SubSeq(A, n + 1, m) \o t) = m - n + Len(t)
            /\ \A k \in 1 .. m - n : (SubSeq(A, n + 1, m) \o t)[k] = A[k + n]
      <4> TAKE t \in Maybe(Control)
      <4>1. SubSeq(A, n + 1, m) \o t \in Seq(Control) /\ t \in Seq(Control)
        BY <2>1, <2>2, <3>1, PieceAndMore
      <4>2. Len(SubSeq(A, n + 1, m) \o t) = m - n + Len(t)
        BY <2>1, <2>2, <3>1, PieceAndMore
      <4>3. \A k \in 1 .. m - n : (SubSeq(A, n + 1, m) \o t)[k] = A[k + n]
        BY <2>1, <2>2, <3>1, PieceAndMore
      <4> QED BY <4>1, <4>2, <4>3
    <3> QED BY <3>1, <3>2, Zenon
  <2>4. SubSeq(A, n + 1, m) \in Seq(Control)
    BY <2>2, <1>1, <1>2, SubSeqProperties
  <2>5. kept = SubSeq(A, n + 1, m)
    BY <2>1
  <2> HIDE DEF kept
  <2> QED BY <2>1, <2>3, <2>4, <2>5, Zenon
<1>8. Len(new) = 1 => (kept \o new)[Len(kept \o new)] = new[1]
  <2> HIDE DEF kept
  <2> QED BY <1>7, LastBehind, Zenon
<1> HIDE DEF kept
<1>9. flight' \in Seq(Control) /\ Len(flight') = Len(flight) - n + Len(new)
  BY <1>5, <1>7
<1>10. ASSUME NEW k \in 1 .. Len(flight) - n
       PROVE  /\ flight'[k].ghr = flight[k + n].ghr
              /\ HistoryAfter(flight'[k]) = HistoryAfter(flight[k + n])
              /\ flight'[k].stage = "queued" <=> flight[k + n].stage = "queued" /\ ~dispatch
  <2>1. flight'[k] = A[k + n]
    BY <1>5, <1>7
  <2>2. k + n \in 1 .. Len(flight)
    BY <1>1
  <2> QED BY <2>1, <2>2, <1>2
<1>11. fetch # <<>> => flight'[Len(flight')] = FetchPacket(fetch[1])
  BY <1>3, <1>5, <1>6, <1>8
<1> QED BY <1>1, <1>3, <1>4, <1>9, <1>10, <1>11 DEF RunKeeps

\* A misprediction keeps the branch and what is older, and corrects the branch.
LEMMA RecoverFlight ==
  ASSUME BranchTypeOK, NEW n \in {0, 1}, Committable(n), NEW e \in Executing,
         NEW issue \in Selectable, NEW target \in Code[flight[e].pc].goes,
         Recovered(n, e, issue, target)
  PROVE  RecoverKeeps(n, e, target)
<1> DEFINE A == Advanced(issue, FALSE)
           B == [A EXCEPT ![e].went = target]
<1>1. flight \in Seq(Control) /\ Len(flight) \in Nat /\ DOMAIN flight = 1 .. Len(flight) /\ n \in Nat
  BY DEF BranchTypeOK
<1>2. e \in 1 .. Len(flight) /\ flight[e] \in Control /\ flight[e].stage = "executing"
  BY <1>1 DEF Executing
<1>3. n < e
  BY <1>1, <1>2 DEF Committable
<1>4. /\ A \in Seq(Control) /\ Len(A) = Len(flight)
      /\ \A k \in 1 .. Len(flight) :
           A[k].ghr = flight[k].ghr /\ HistoryAfter(A[k]) = HistoryAfter(flight[k])
  BY <1>1, AdvancedKeeps
<1>5. A[e] = [flight[e] EXCEPT !.stage = "done", !.went = flight[e].predicted]
  BY <1>1, <1>2 DEF Advanced
<1>6. target \in PC \cup {NoPC}
  BY <1>2, CodeAssumption DEF Control, ControlTransfer
<1> HIDE DEF A
<1> DEFINE last == [flight[e] EXCEPT !.stage = "done", !.went = target]
<1>7. B \in Seq(Control) /\ Len(B) = Len(flight) /\ B[e] = last
  <2>1. last \in Control
    BY <1>2, <1>6 DEF Control
  <2>2. last = [A[e] EXCEPT !.went = target]
    BY <1>2, <1>5 DEF Control
  <2>3. B = [A EXCEPT ![e] = last]
    BY <2>2
  <2> HIDE DEF last, B
  <2> QED BY <2>1, <2>3, <1>1, <1>2, <1>4, ExceptSeq
<1>8. \A k \in 1 .. Len(flight) : k # e => B[k] = A[k]
  BY <1>1, <1>4
<1>9. flight' = SubSeq(B, n + 1, e)
  BY DEF A, Recovered
<1> HIDE DEF B
<1>10. /\ flight' \in Seq(Control) /\ Len(flight') = e - n
       /\ \A k \in 1 .. e - n : flight'[k] = B[k + n]
  <2>1. /\ SubSeq(B, n + 1, e) \in Seq(Control) /\ Len(SubSeq(B, n + 1, e)) = e - n
        /\ \A k \in 1 .. e - n : SubSeq(B, n + 1, e)[k] = B[k + n]
    BY <1>1, <1>2, <1>3, <1>7, SubSeqProperties
  <2> QED BY <2>1, <1>9
<1>11. flight'[e - n] = last
  <2>1. e - n \in 1 .. e - n /\ (e - n) + n = e
    BY <1>1, <1>2, <1>3
  <2> QED BY <2>1, <1>7, <1>10
<1>12. last.ghr = flight[e].ghr /\ last.stage = "done"
       /\ HistoryAfter(last) = ghr_recover_value(flight[e], target)
  BY <1>2 DEF Control, HistoryAfter, KindOf, ghr_recover_value
<1>13. ASSUME NEW k \in 1 .. e - n - 1
       PROVE  flight'[k].ghr = flight[k + n].ghr
              /\ HistoryAfter(flight'[k]) = HistoryAfter(flight[k + n])
  <2>1. PICK m \in Nat : m = Len(flight)
    BY <1>1
  <2>2. k \in 1 .. e - n /\ k + n \in 1 .. m /\ k + n # e
    BY <2>1, <1>1, <1>2, <1>3
  <2>3. flight'[k] = B[k + n]
    BY <2>2, <1>10, Zenon
  <2>4. B[k + n] = A[k + n]
    BY <2>1, <2>2, <1>8, Zenon
  <2>5. A[k + n].ghr = flight[k + n].ghr /\ HistoryAfter(A[k + n]) = HistoryAfter(flight[k + n])
    BY <2>1, <2>2, <1>4, Zenon
  <2> QED BY <2>3, <2>4, <2>5, Zenon
<1>14. ASSUME NEW k \in 1 .. e - n
       PROVE  flight'[k].ghr = flight[k + n].ghr
  <2>0. e \in Nat /\ (e - n) + n = e
    BY <1>1, <1>2
  <2>1. CASE k \in 1 .. e - n - 1
    BY <2>1, <1>13, Zenon
  <2>2. CASE k = e - n
    <3>1. k + n = e /\ flight'[k] = last
      BY <2>0, <2>2, <1>11, Zenon
    <3> HIDE DEF last
    <3> QED BY <3>1, <1>12, Zenon
  <2>3. PICK d \in Int : d = e - n
    BY <2>0, <1>1
  <2>4. k \in 1 .. d
    BY <2>3, Zenon
  <2>5. k \in 1 .. d - 1 \/ k = d
    BY <2>4
  <2> QED BY <2>1, <2>2, <2>3, <2>5, Zenon
<1> QED BY <1>1, <1>2, <1>3, <1>10, <1>11, <1>12, <1>13, <1>14 DEF RecoverKeeps

-----------------------------------------------------------------------------
(* Types.                                                                  *)

LEMMA RunTypeInv == TypeInv /\ RunOn => TypeInv'
<1> SUFFICES ASSUME TypeInv, RunOn PROVE TypeInv'
  OBVIOUS
<1>1. BranchTypeOK /\ Room
  BY DEF TypeInv
<1>2. PICK n \in {0, 1}, issue \in Selectable, dispatch \in BOOLEAN, fetch \in Maybe(DOMAIN Code) :
        /\ Committable(n)
        /\ dispatch => MayDispatch
        /\ fetch # <<>> /\ Queued => dispatch
        /\ flight' = SubSeq(Advanced(issue, dispatch), n + 1, Len(flight))
                       \o (IF fetch = <<>> THEN <<>> ELSE <<FetchPacket(fetch[1])>>)
        /\ Predictor(FetchedOutcome(fetch), <<>>, FALSE, train_branch(n), train_btb(n),
                     Pops(dispatch), Pushes(dispatch))
        /\ Remember(Pops(dispatch), Pushes(dispatch))
  BY Zenon DEF RunOn
<1>3. /\ Len(flight) \in Nat /\ n <= Len(flight) /\ flight' \in Seq(Control)
      /\ Len(flight') = Len(flight) - n + (IF fetch = <<>> THEN 0 ELSE 1)
      /\ \A k \in 1 .. Len(flight) - n :
           flight'[k].stage = "queued" <=> flight[k + n].stage = "queued" /\ ~dispatch
      /\ fetch # <<>> => flight'[Len(flight')] = FetchPacket(fetch[1])
  <2>1. /\ BranchTypeOK /\ Committable(n) /\ Ran(n, issue, dispatch, fetch)
        /\ n \in {0, 1} /\ issue \in Selectable
        /\ dispatch \in BOOLEAN /\ fetch \in Maybe(DOMAIN Code)
    BY <1>1, <1>2 DEF Ran
  <2>2. RunKeeps(n, dispatch, fetch)
    BY ONLY <2>1, RunFlight
  <2> QED BY ONLY <2>2 DEF RunKeeps
<1>4. /\ FetchedOutcome(fetch) \in Maybe(BOOLEAN)
      /\ train_branch(n) \in Maybe([pc : PC, ghr : History, taken : BOOLEAN])
      /\ train_btb(n) \in Maybe([pc : PC, target : PC])
      /\ Pops(dispatch) \in BOOLEAN
      /\ Pushes(dispatch) \in Maybe(PC)
  BY <1>1, <1>2, InputTypes
<1>5. PredictorTypeOK'
  <2>1. <<>> \in Maybe(History)
    BY DEF Maybe
  <2> QED BY <1>1, <1>2, <1>4, <2>1, PredictorStepType DEF BranchTypeOK
<1>6. calls' \in Seq(PC)
  BY <1>1, <1>2, <1>4, CallsType, Zenon DEF BranchTypeOK
<1>7. Len(flight) <= WINDOW + 1 /\ (~Queued => Len(flight) <= WINDOW)
      /\ (dispatch => Len(flight) <= WINDOW) /\ WINDOW \in Nat
  BY <1>1, <1>2, CodeAssumption DEF BranchTypeOK, Room, MayDispatch
<1>8. CASE fetch # <<>>
  <2>1. Len(flight) <= WINDOW
    BY <1>2, <1>7, <1>8
  <2>2. Len(flight') <= WINDOW + 1 /\ Len(flight') > 0
    BY <1>3, <1>7, <1>8, <2>1
  <2>3. flight' # <<>> /\ flight'[Len(flight')].stage = "queued"
    BY <1>3, <1>8, <2>2 DEF FetchPacket
  <2> QED BY <1>3, <1>5, <1>6, <2>2, <2>3 DEF TypeInv, BranchTypeOK, Room, Queued
<1>9. CASE fetch = <<>>
  <2>1. Len(flight') = Len(flight) - n
    BY <1>3, <1>9
  <2>2. Len(flight') <= WINDOW + 1
    BY <1>3, <1>7, <2>1
  <2>3. ASSUME Len(flight') > WINDOW
        PROVE  flight' # <<>> /\ flight'[Len(flight')].stage = "queued"
    <3>1. n = 0 /\ Len(flight) = WINDOW + 1 /\ Len(flight') = Len(flight)
      BY <1>3, <1>7, <2>1, <2>3
    <3>2. Queued /\ ~dispatch
      BY <1>7, <3>1
    <3>3. Len(flight) \in 1 .. Len(flight) - n /\ Len(flight) + n = Len(flight)
      BY <1>3, <1>7, <3>1
    <3>4. flight[Len(flight)].stage = "queued"
      BY <3>2 DEF Queued
    <3>5. flight'[Len(flight)].stage = "queued"
      BY <1>3, <3>2, <3>3, <3>4, Zenon
    <3>6. flight' # <<>>
      BY <1>3, <1>7, <3>1
    <3> QED BY <3>1, <3>5, <3>6
  <2>4. ~(flight' # <<>> /\ flight'[Len(flight')].stage = "queued") => Len(flight') <= WINDOW
    BY <1>3, <1>7, <2>1, <2>3
  <2> QED BY <1>3, <1>5, <1>6, <2>2, <2>4 DEF TypeInv, BranchTypeOK, Room, Queued
<1> QED BY <1>8, <1>9

LEMMA RecoverTypeInv == TypeInv /\ BranchRecover => TypeInv'
<1> SUFFICES ASSUME TypeInv, BranchRecover PROVE TypeInv'
  OBVIOUS
<1>1. BranchTypeOK /\ Room
  BY DEF TypeInv
<1>2. PICK n \in {0, 1}, e \in Executing :
        \E issue \in Selectable, target \in Code[flight[e].pc].goes :
          /\ Committable(n)
          /\ flight' = SubSeq([Advanced(issue, FALSE) EXCEPT ![e].went = target], n + 1, e)
          /\ Predictor(<<>>, <<ghr_recover_value(flight[e], target)>>, FALSE,
                       train_branch(n), train_btb(n), FALSE, <<>>)
          /\ Remember(FALSE, <<>>)
  BY Zenon DEF BranchRecover
<1>3. PICK issue \in Selectable, target \in Code[flight[e].pc].goes :
        /\ Committable(n)
        /\ flight' = SubSeq([Advanced(issue, FALSE) EXCEPT ![e].went = target], n + 1, e)
        /\ Predictor(<<>>, <<ghr_recover_value(flight[e], target)>>, FALSE,
                     train_branch(n), train_btb(n), FALSE, <<>>)
        /\ Remember(FALSE, <<>>)
  BY <1>2, Zenon
<1>4. /\ Len(flight) \in Nat /\ e \in 1 .. Len(flight) /\ n < e
      /\ flight' \in Seq(Control) /\ Len(flight') = e - n
      /\ flight[e] \in Control /\ flight[e].stage = "executing"
  <2>1. /\ BranchTypeOK /\ Committable(n) /\ Recovered(n, e, issue, target)
        /\ n \in {0, 1} /\ e \in Executing /\ issue \in Selectable
        /\ target \in Code[flight[e].pc].goes
    BY <1>1, <1>3 DEF Recovered
  <2>2. RecoverKeeps(n, e, target)
    BY ONLY <2>1, RecoverFlight
  <2> QED BY ONLY <2>2 DEF RecoverKeeps
<1>5. /\ train_branch(n) \in Maybe([pc : PC, ghr : History, taken : BOOLEAN])
      /\ train_btb(n) \in Maybe([pc : PC, target : PC])
  <2>1. <<>> \in Maybe(DOMAIN Code) /\ (FALSE => MayDispatch)
    BY DEF Maybe
  <2> QED BY <1>1, <1>3, <2>1, InputTypes
<1>6. <<ghr_recover_value(flight[e], target)>> \in Maybe(History)
  <2>1. ghr_recover_value(flight[e], target) \in History
    BY <1>4, ShiftIsHistory DEF ghr_recover_value, Control
  <2> QED BY <2>1 DEF Maybe
<1>7. PredictorTypeOK'
  <2>1. <<>> \in Maybe(BOOLEAN) /\ <<>> \in Maybe(PC)
    BY DEF Maybe
  <2> QED BY <1>1, <1>3, <1>5, <1>6, <2>1, PredictorStepType DEF BranchTypeOK
<1>8. calls' \in Seq(PC)
  <2>1. <<>> \in Maybe(PC)
    BY DEF Maybe
  <2> QED BY <1>1, <1>3, <2>1, CallsType DEF BranchTypeOK
<1>9. Len(flight') <= WINDOW
  <2>1. Len(flight) <= WINDOW + 1 /\ (~Queued => Len(flight) <= WINDOW) /\ WINDOW \in Nat
    BY <1>1, CodeAssumption DEF BranchTypeOK, Room
  <2>2. e = Len(flight) => ~Queued
    BY <1>4 DEF Queued
  <2> QED BY <1>4, <2>1, <2>2
<1>10. WINDOW \in Nat /\ Len(flight') \in Nat
  BY <1>4, CodeAssumption
<1>11. Len(flight') <= WINDOW + 1
  BY <1>9, <1>10
<1> QED BY <1>4, <1>7, <1>8, <1>9, <1>11 DEF TypeInv, BranchTypeOK, Room

LEMMA FlushTypeInv == TypeInv /\ Flush => TypeInv'
<1> SUFFICES ASSUME TypeInv, Flush PROVE TypeInv'
  OBVIOUS
<1>1. BranchTypeOK
  BY DEF TypeInv
<1>2. /\ <<>> \in Maybe(BOOLEAN) /\ <<>> \in Maybe(History) /\ <<>> \in Maybe(PC)
      /\ <<>> \in Maybe([pc : PC, ghr : History, taken : BOOLEAN])
      /\ <<>> \in Maybe([pc : PC, target : PC])
  BY DEF Maybe
<1>3. PredictorTypeOK'
  BY <1>1, <1>2, PredictorStepType DEF Flush, BranchTypeOK
<1>4. flight' = <<>> /\ calls' = calls
  BY DEF Flush
<1> QED BY <1>1, <1>3, <1>4, CodeAssumption DEF TypeInv, BranchTypeOK, Room

LEMMA StepTypeInv == TypeInv /\ [BranchNext]_branchVars => TypeInv'
<1> SUFFICES ASSUME TypeInv, [BranchNext]_branchVars PROVE TypeInv'
  OBVIOUS
<1>1. CASE RunOn
  BY <1>1, RunTypeInv
<1>2. CASE BranchRecover
  BY <1>2, RecoverTypeInv
<1>3. CASE Flush
  BY <1>3, FlushTypeInv
<1>4. CASE UNCHANGED branchVars
  BY <1>4 DEF branchVars, predictorVars, TypeInv, BranchTypeOK, PredictorTypeOK, Room, Queued
<1> QED BY <1>1, <1>2, <1>3, <1>4 DEF BranchNext

(* Every register keeps its width, and no more control instructions are in *)
(* flight than the reorder buffer and the fetch queue have room for        *)
(* (BranchPredictor.sv:81-88, otter_mcu_ooo.sv:886-899).                   *)
THEOREM PredictorTypeCorrect == BranchSpec => []BranchTypeOK
<1>1. TypeInv => BranchTypeOK
  BY DEF TypeInv
<1> QED BY InitTypeInv, StepTypeInv, <1>1, PTL DEF BranchSpec

-----------------------------------------------------------------------------
(* The history.                                                            *)

(* What commits was done: the retired history becomes what it leaves, the  *)
(* history of the next one, or of fetch.                                   *)
LEMMA RetiredHistory ==
  ASSUME BranchTypeOK, HistoriesLinked, NEW n \in {0, 1}, Committable(n), NEW outcome,
         outcome = (IF train_branch(n) = <<>> THEN <<>> ELSE <<train_branch(n)[1].taken>>)
  PROVE  /\ Len(flight) > n => flight[n + 1].ghr = ShiftBy(ghr_retired, outcome)
         /\ Len(flight) = n => ghr_spec = ShiftBy(ghr_retired, outcome)
<1>1. flight \in Seq(Control) /\ Len(flight) \in Nat
  BY DEF BranchTypeOK
<1>2. CASE n = 0
  <2>1. outcome = <<>>
    BY <1>2 DEF train_branch
  <2>2. ShiftBy(ghr_retired, outcome) = ghr_retired
    BY <2>1 DEF ShiftBy
  <2> QED BY <1>1, <1>2, <2>2 DEF HistoriesLinked
<1>3. CASE n = 1
  <2>1. flight # <<>> /\ flight[1].stage = "done" /\ flight[1].ghr = ghr_retired
    BY <1>3 DEF Committable, HistoriesLinked
  <2>2. ShiftBy(ghr_retired, outcome) = HistoryAfter(flight[1])
    <3>1. CASE KindOf(flight[1]) = "branch"
      <4>1. PICK taken \in BOOLEAN : taken = (flight[1].went # NoPC)
        OBVIOUS
      <4>2. outcome = <<taken>>
        BY <1>3, <3>1, <4>1 DEF train_branch
      <4>3. ShiftBy(ghr_retired, outcome) = Shift(ghr_retired, taken)
        BY <4>2 DEF ShiftBy
      <4>4. HistoryAfter(flight[1]) = Shift(flight[1].ghr, taken)
        BY <2>1, <3>1, <4>1, Zenon DEF HistoryAfter
      <4> QED BY <2>1, <4>3, <4>4
    <3>2. CASE KindOf(flight[1]) # "branch"
      <4>1. outcome = <<>>
        BY <1>3, <3>2 DEF train_branch
      <4> QED BY <2>1, <3>2, <4>1 DEF ShiftBy, HistoryAfter
    <3> QED BY <3>1, <3>2
  <2>3. Len(flight) > 1 => flight[2].ghr = HistoryAfter(flight[1])
    <3>1. Len(flight) > 1 => 1 \in 1 .. Len(flight) - 1
      BY <1>1
    <3> QED BY <3>1 DEF HistoriesLinked
  <2>4. Len(flight) = 1 => ghr_spec = HistoryAfter(flight[1])
    BY <2>1 DEF HistoriesLinked
  <2> QED BY <1>3, <2>2, <2>3, <2>4
<1> QED BY <1>2, <1>3

(* What is fetched leaves what fetch goes on with.                         *)
LEMMA FetchedHistory ==
  ASSUME NEW fetch \in Maybe(DOMAIN Code), fetch # <<>>
  PROVE  /\ FetchPacket(fetch[1]).ghr = ghr_spec
         /\ HistoryAfter(FetchPacket(fetch[1])) = ShiftBy(ghr_spec, FetchedOutcome(fetch))
BY DEF FetchPacket, HistoryAfter, KindOf, FetchedOutcome, ShiftBy

LEMMA RunHistory == TypeInv /\ HistoriesLinked /\ RunOn => HistoriesLinked'
<1> SUFFICES ASSUME TypeInv, HistoriesLinked, RunOn PROVE HistoriesLinked'
  OBVIOUS
<1>1. BranchTypeOK
  BY DEF TypeInv
<1>2. PICK n \in {0, 1}, issue \in Selectable, dispatch \in BOOLEAN, fetch \in Maybe(DOMAIN Code) :
        /\ Committable(n)
        /\ flight' = SubSeq(Advanced(issue, dispatch), n + 1, Len(flight))
                       \o (IF fetch = <<>> THEN <<>> ELSE <<FetchPacket(fetch[1])>>)
        /\ Predictor(FetchedOutcome(fetch), <<>>, FALSE, train_branch(n), train_btb(n),
                     Pops(dispatch), Pushes(dispatch))
  BY Zenon DEF RunOn
<1>3. /\ Len(flight) \in Nat /\ n <= Len(flight) /\ flight' \in Seq(Control)
      /\ Len(flight') = Len(flight) - n + (IF fetch = <<>> THEN 0 ELSE 1)
      /\ \A k \in 1 .. Len(flight) - n :
           flight'[k].ghr = flight[k + n].ghr
           /\ HistoryAfter(flight'[k]) = HistoryAfter(flight[k + n])
      /\ fetch # <<>> => flight'[Len(flight')] = FetchPacket(fetch[1])
  <2>1. /\ BranchTypeOK /\ Committable(n) /\ Ran(n, issue, dispatch, fetch)
        /\ n \in {0, 1} /\ issue \in Selectable
        /\ dispatch \in BOOLEAN /\ fetch \in Maybe(DOMAIN Code)
    BY <1>1, <1>2 DEF Ran
  <2>2. RunKeeps(n, dispatch, fetch)
    BY ONLY <2>1, RunFlight
  <2> QED BY ONLY <2>2 DEF RunKeeps
<1>4. PICK L \in Nat, kept \in Nat : L = Len(flight) /\ kept = Len(flight) - n
  <2>1. Len(flight) \in Nat /\ n <= Len(flight) /\ n \in {0, 1}
    BY <1>3
  <2> QED BY ONLY <2>1
<1>5. /\ Len(flight') = kept + (IF fetch = <<>> THEN 0 ELSE 1)
      /\ \A k \in 1 .. kept : flight'[k].ghr = flight[k + n].ghr
                              /\ HistoryAfter(flight'[k]) = HistoryAfter(flight[k + n])
  BY <1>3, <1>4
<1> DEFINE outcome == IF train_branch(n) = <<>> THEN <<>> ELSE <<train_branch(n)[1].taken>>
<1>6. ghr_retired' = ShiftBy(ghr_retired, outcome)
      /\ ghr_spec' = ShiftBy(ghr_spec, FetchedOutcome(fetch))
  BY <1>2 DEF Predictor, NextHistory
<1>7. /\ kept > 0 => flight[n + 1].ghr = ghr_retired'
      /\ kept = 0 => ghr_spec = ghr_retired'
  <2>1. /\ Len(flight) > n => flight[n + 1].ghr = ShiftBy(ghr_retired, outcome)
        /\ Len(flight) = n => ghr_spec = ShiftBy(ghr_retired, outcome)
    BY <1>1, <1>2, RetiredHistory
  <2> QED BY <1>3, <1>4, <1>6, <2>1
\* The oldest that stays.
<1>8. kept > 0 => flight'[1].ghr = ghr_retired'
  <2>1. kept > 0 => 1 \in 1 .. kept
    OBVIOUS
  <2>2. 1 + n = n + 1
    OBVIOUS
  <2>3. kept > 0 => flight'[1].ghr = flight[1 + n].ghr
    BY <1>5, <2>1, Zenon
  <2> QED BY <1>7, <2>2, <2>3
\* The youngest that stays.
<1>9. kept > 0 => HistoryAfter(flight'[kept]) = ghr_spec
  <2> SUFFICES ASSUME kept > 0 PROVE HistoryAfter(flight'[kept]) = ghr_spec
    OBVIOUS
  <2>1. kept \in 1 .. kept /\ kept + n = L /\ L > 0
    BY <1>3, <1>4
  <2>2. HistoryAfter(flight'[kept]) = HistoryAfter(flight[L])
    BY <1>5, <2>1
  <2>3. ghr_spec = HistoryAfter(flight[L])
    <3>1. flight # <<>>
      BY <1>4, <2>1
    <3> QED BY <1>4, <3>1 DEF HistoriesLinked
  <2> QED BY <2>2, <2>3
<1>10. \A k \in 1 .. kept - 1 : flight'[k + 1].ghr = HistoryAfter(flight'[k])
  <2> TAKE k \in 1 .. kept - 1
  <2>1. /\ k \in 1 .. kept /\ k + 1 \in 1 .. kept
        /\ k + n \in 1 .. L - 1 /\ (k + 1) + n = (k + n) + 1
    BY <1>3, <1>4
  <2>2. flight'[k + 1].ghr = flight[(k + n) + 1].ghr
    BY <1>5, <2>1
  <2>3. flight[(k + n) + 1].ghr = HistoryAfter(flight[k + n])
    BY <1>4, <2>1 DEF HistoriesLinked
  <2>4. HistoryAfter(flight'[k]) = HistoryAfter(flight[k + n])
    BY <1>5, <2>1
  <2> QED BY <2>2, <2>3, <2>4
<1>11. CASE fetch = <<>>
  <2>1. Len(flight') = kept /\ ghr_spec' = ghr_spec
    BY <1>5, <1>6, <1>11 DEF FetchedOutcome, ShiftBy
  <2>2. flight' = <<>> => ghr_spec' = ghr_retired'
    <3>1. flight' = <<>> => kept = 0
      BY <2>1
    <3> QED BY <1>7, <2>1, <3>1
  <2>3. flight' # <<>> => flight'[1].ghr = ghr_retired' /\ ghr_spec' = HistoryAfter(flight'[Len(flight')])
    <3>1. flight' # <<>> => kept > 0
      BY <1>3, <2>1
    <3> QED BY <1>8, <1>9, <2>1, <3>1
  <2> QED BY <1>10, <2>1, <2>2, <2>3 DEF HistoriesLinked
<1>12. CASE fetch # <<>>
  <2>1. /\ Len(flight') = kept + 1 /\ flight' # <<>>
        /\ flight'[kept + 1].ghr = ghr_spec
        /\ ghr_spec' = HistoryAfter(flight'[kept + 1])
    <3>1. Len(flight') = kept + 1
      BY <1>5, <1>12
    <3>2. flight' # <<>>
      BY <3>1
    <3>3. flight'[kept + 1] = FetchPacket(fetch[1])
      BY <1>3, <1>12, <3>1, Zenon
    <3> QED BY <1>6, <1>12, <3>1, <3>2, <3>3, FetchedHistory
  <2>2. flight'[1].ghr = ghr_retired'
    <3>1. kept = 0 => flight'[1].ghr = ghr_spec
      BY <2>1
    <3> QED BY <1>7, <1>8, <3>1
  <2>3. ASSUME NEW k \in 1 .. Len(flight') - 1
        PROVE  flight'[k + 1].ghr = HistoryAfter(flight'[k])
    <3>1. k \in 1 .. kept - 1 \/ (k = kept /\ kept > 0)
      BY <2>1
    <3> QED BY <1>9, <1>10, <2>1, <3>1
  <2> QED BY <2>1, <2>2, <2>3 DEF HistoriesLinked
<1> QED BY <1>11, <1>12

LEMMA RecoverHistory == TypeInv /\ HistoriesLinked /\ BranchRecover => HistoriesLinked'
<1> SUFFICES ASSUME TypeInv, HistoriesLinked, BranchRecover PROVE HistoriesLinked'
  OBVIOUS
<1>1. BranchTypeOK
  BY DEF TypeInv
<1>2. PICK n \in {0, 1}, e \in Executing :
        \E issue \in Selectable, target \in Code[flight[e].pc].goes :
          /\ Committable(n)
          /\ flight' = SubSeq([Advanced(issue, FALSE) EXCEPT ![e].went = target], n + 1, e)
          /\ Predictor(<<>>, <<ghr_recover_value(flight[e], target)>>, FALSE,
                       train_branch(n), train_btb(n), FALSE, <<>>)
  BY Zenon DEF BranchRecover
<1>3. PICK issue \in Selectable, target \in Code[flight[e].pc].goes :
        /\ Committable(n)
        /\ flight' = SubSeq([Advanced(issue, FALSE) EXCEPT ![e].went = target], n + 1, e)
        /\ Predictor(<<>>, <<ghr_recover_value(flight[e], target)>>, FALSE,
                     train_branch(n), train_btb(n), FALSE, <<>>)
  BY <1>2, Zenon
<1>4. PICK L \in Nat : L = Len(flight)
  BY <1>1 DEF BranchTypeOK
<1>20. RecoverKeeps(n, e, target)
  <2>1. /\ BranchTypeOK /\ Committable(n) /\ Recovered(n, e, issue, target)
        /\ n \in {0, 1} /\ e \in Executing /\ issue \in Selectable
        /\ target \in Code[flight[e].pc].goes
    BY <1>1, <1>3 DEF Recovered
  <2> QED BY ONLY <2>1, RecoverFlight
<1>5. e \in 1 .. L /\ n < e /\ Len(flight') = e - n /\ flight' \in Seq(Control)
  BY ONLY <1>4, <1>20 DEF RecoverKeeps
<1>6. PICK last \in Nat : last = e - n /\ last > 0
  BY <1>5
<1>7. /\ \A k \in 1 .. last : flight'[k].ghr = flight[k + n].ghr
      /\ \A k \in 1 .. last - 1 : HistoryAfter(flight'[k]) = HistoryAfter(flight[k + n])
      /\ HistoryAfter(flight'[last]) = ghr_recover_value(flight[e], target)
  BY ONLY <1>6, <1>20 DEF RecoverKeeps
<1> DEFINE outcome == IF train_branch(n) = <<>> THEN <<>> ELSE <<train_branch(n)[1].taken>>
<1>8. ghr_retired' = ShiftBy(ghr_retired, outcome)
      /\ ghr_spec' = ghr_recover_value(flight[e], target)
  BY <1>3 DEF Predictor, NextHistory
<1>9. flight'[1].ghr = ghr_retired'
  <2>1. Len(flight) > n => flight[n + 1].ghr = ShiftBy(ghr_retired, outcome)
    BY <1>1, <1>3, RetiredHistory
  <2>2. L > n /\ 1 \in 1 .. last /\ 1 + n = n + 1
    BY <1>4, <1>5, <1>6
  <2> QED BY <1>4, <1>7, <1>8, <2>1, <2>2
<1>10. ASSUME NEW k \in 1 .. last - 1
       PROVE  flight'[k + 1].ghr = HistoryAfter(flight'[k])
  <2>1. /\ k + 1 \in 1 .. last /\ k + n \in 1 .. L - 1
        /\ (k + 1) + n = (k + n) + 1
    BY <1>4, <1>5, <1>6
  <2>2. flight'[k + 1].ghr = flight[(k + n) + 1].ghr
    BY <1>7, <2>1
  <2>3. flight[(k + n) + 1].ghr = HistoryAfter(flight[k + n])
    BY <1>4, <2>1 DEF HistoriesLinked
  <2> QED BY <1>7, <2>2, <2>3
<1>11. Len(flight') = last /\ flight' # <<>>
  BY <1>5, <1>6
<1> QED BY <1>7, <1>8, <1>9, <1>10, <1>11 DEF HistoriesLinked

LEMMA FlushHistory == Flush => HistoriesLinked'
<1> SUFFICES ASSUME Flush PROVE HistoriesLinked'
  OBVIOUS
<1>1. flight' = <<>> /\ ghr_spec' = ghr_retired'
  BY DEF Flush, Predictor, NextHistory
<1>2. 1 .. Len(flight') - 1 = {}
  BY <1>1
<1> QED BY <1>1, <1>2 DEF HistoriesLinked

(* However fetches, recoveries, commits and flushes meet, the histories    *)
(* line up: a mispredicted branch gives back its own, with its outcome,    *)
(* and a flush what has committed (BranchPredictor.sv:149-159,             *)
(* otter_mcu_ooo.sv:284-289).                                              *)
THEOREM PredictorHistoryExact == BranchSpec => []HistoryExact
<1>1. BranchInit => HistoriesLinked
  <2> SUFFICES ASSUME BranchInit PROVE HistoriesLinked
    OBVIOUS
  <2>1. flight = <<>> /\ ghr_spec = ghr_retired
    BY DEF BranchInit, PredictorInit
  <2>2. 1 .. Len(flight) - 1 = {}
    BY <2>1
  <2> QED BY <2>1, <2>2 DEF HistoriesLinked
<1>2. TypeInv /\ HistoriesLinked /\ [BranchNext]_branchVars => HistoriesLinked'
  <2>1. CASE UNCHANGED branchVars
    BY <2>1 DEF branchVars, predictorVars, HistoriesLinked
  <2> QED BY <2>1, RunHistory, RecoverHistory, FlushHistory DEF BranchNext
<1>3. TypeInv /\ HistoriesLinked => HistoryExact
  BY DEF TypeInv, HistoryExact
<1> QED BY InitTypeInv, StepTypeInv, <1>1, <1>2, <1>3, PTL DEF BranchSpec

-----------------------------------------------------------------------------
(* The return address stack: slots, counted backwards from the pointer.    *)

LEMMA Wrapped ==
  ASSUME NEW D \in Nat \ {0}, NEW i \in (-D) .. (D - 1)
  PROVE  i % D = IF i < 0 THEN i + D ELSE i
<1>1. CASE i < 0
  <2>1. -D <= i /\ i \in Int
    OBVIOUS
  <2> QED BY <1>1, <2>1
<1>2. CASE ~(i < 0)
  <2>1. i \in 0 .. D - 1
    BY <1>2
  <2> QED BY <1>2, <2>1
<1> QED BY <1>1, <1>2

\* A slot is the same slot seen from the pointer moved up or down.
LEMMA SlotFromAbove ==
  ASSUME NEW D \in Nat \ {0}, NEW p \in 0 .. D - 1, NEW j \in 1 .. D
  PROVE  (((p + 1) % D) - j) % D = (p + 1 - j) % D
<1>1. p + 1 - j \in (-D) .. (D - 1)
  OBVIOUS
<1>2. CASE p + 1 < D
  <2>1. p + 1 \in (-D) .. (D - 1) /\ ~(p + 1 < 0)
    BY <1>2
  <2>2. (p + 1) % D = p + 1
    BY <2>1, Wrapped
  <2> QED BY <2>2
<1>3. CASE p + 1 = D
  <2>1. (p + 1) % D = 0
    <3>1. D % D = 0
      OBVIOUS
    <3> QED BY <1>3, <3>1
  <2>2. 0 - j \in (-D) .. (D - 1) /\ 0 - j < 0 /\ D - j >= 0
    OBVIOUS
  <2>3. (0 - j) % D = D - j
    BY <2>2, Wrapped
  <2>4. p + 1 - j = D - j /\ D - j \in (-D) .. (D - 1)
    BY <1>1, <1>3
  <2>5. (p + 1 - j) % D = D - j
    BY <2>2, <2>4, Wrapped
  <2> QED BY <2>1, <2>3, <2>5
<1> QED BY <1>2, <1>3

LEMMA SlotFromBelow ==
  ASSUME NEW D \in Nat \ {0}, NEW p \in 0 .. D - 1, NEW j \in 0 .. D - 1
  PROVE  (((p - 1) % D) - j) % D = (p - 1 - j) % D
<1>1. p - 1 - j \in (-D) .. (D - 1)
  OBVIOUS
<1>2. CASE p > 0
  <2>1. p - 1 \in 0 .. D - 1
    BY <1>2
  <2>2. (p - 1) % D = p - 1
    BY <2>1, Wrapped
  <2> QED BY <2>2
<1>3. CASE p = 0
  <2>1. (0 - 1) % D = D - 1
    <3>1. 0 - 1 \in (-D) .. (D - 1)
      OBVIOUS
    <3> QED BY <3>1, Wrapped
  <2>2. D - 1 - j \in (-D) .. (D - 1) /\ ~(D - 1 - j < 0)
    OBVIOUS
  <2>3. (D - 1 - j) % D = D - 1 - j
    BY <2>2, Wrapped
  <2>4. p - 1 - j < 0 /\ p - 1 - j + D = D - 1 - j
    BY <1>3
  <2>5. (p - 1 - j) % D = D - 1 - j
    BY <1>1, <2>4, Wrapped
  <2>6. (p - 1) % D = D - 1
    BY <1>3, <2>1
  <2> QED BY <2>3, <2>5, <2>6
<1> QED BY <1>2, <1>3

LEMMA SlotApart ==
  ASSUME NEW D \in Nat \ {0}, NEW p \in 0 .. D - 1, NEW j \in 1 .. D - 1
  PROVE  (p - j) % D # p /\ (p - j) % D \in 0 .. D - 1
<1>1. p - j \in (-D) .. (D - 1)
  OBVIOUS
<1>2. (p - j) % D = IF p - j < 0 THEN p - j + D ELSE p - j
  BY <1>1, Wrapped
<1> QED BY <1>2

(* One cycle of the stack, whatever is popped and pushed: what it holds is *)
(* what a list of the same calls holds.                                    *)
LEMMA StackStep ==
  ASSUME PredictorTypeOK, calls \in Seq(PC), ReturnStackExact,
         NEW pop \in BOOLEAN, NEW push \in Maybe(PC),
         ReturnStack(pop, push), Remember(pop, push)
  PROVE  ReturnStackExact'
<1> DEFINE D == RAS_DEPTH
           p == ras_sp
           c == ras_count
<1>1. /\ D \in Nat \ {0} /\ p \in 0 .. D - 1 /\ c \in 0 .. D
      /\ ras_stack \in [0 .. D - 1 -> PC]
  BY PredictorAssumption DEF PredictorTypeOK
<1>2. Len(calls) = c /\ \A k \in 1 .. c : calls[k] = ras_stack[(p - c + k - 1) % D]
  <2>1. calls = [k \in 1 .. c |-> ras_stack[(p - c + k - 1) % D]]
    BY DEF ReturnStackExact
  <2> HIDE DEF p, c, D
  <2> QED BY <1>1, <2>1
<1> SUFFICES /\ calls' \in Seq(PC) /\ Len(calls') = ras_count'
             /\ \A k \in 1 .. ras_count' :
                  calls'[k] = ras_stack'[(ras_sp' - ras_count' + k - 1) % D]
  BY DEF ReturnStackExact
<1>3. calls' \in Seq(PC)
  BY CallsType
<1>4. CASE push # <<>>
  <2>1. PICK x \in PC : push[1] = x
    BY <1>4 DEF Maybe
  <2>2. /\ ras_stack' = [ras_stack EXCEPT ![p] = x] /\ ras_sp' = (p + 1) % D
        /\ ras_count' = IF c # D THEN c + 1 ELSE c
        /\ calls' = Append(IF Len(calls) = D THEN Tail(calls) ELSE calls, x)
    BY <1>4, <2>1 DEF ReturnStack, Remember
  <2> HIDE DEF p, c, D
  \* Where the calls before this one stay, and where it goes.
  <2>3. \A j \in 1 .. D - 1 : ras_stack'[(p - j) % D] = ras_stack[(p - j) % D]
    <3> TAKE j \in 1 .. D - 1
    <3>1. (p - j) % D # p /\ (p - j) % D \in 0 .. D - 1
      BY <1>1, SlotApart
    <3> QED BY <1>1, <2>2, <3>1
  <2>4. ras_stack'[(ras_sp' - 1) % D] = x
    <3>1. 1 \in 1 .. D /\ p + 1 - 1 = p /\ p \in (-D) .. (D - 1) /\ ~(p < 0)
      BY <1>1
    <3>2. (ras_sp' - 1) % D = (p + 1 - 1) % D
      BY <1>1, <2>2, <3>1, SlotFromAbove
    <3>3. p % D = p
      BY <1>1, <3>1, Wrapped
    <3> QED BY <1>1, <2>2, <3>1, <3>2, <3>3
  <2>5. CASE c = D
    <3>1. /\ ras_count' = D /\ Len(calls) = D /\ Tail(calls) \in Seq(PC)
          /\ Len(Tail(calls)) = D - 1 /\ calls' = Append(Tail(calls), x)
          /\ \A k \in 1 .. D - 1 : Tail(calls)[k] = calls[k + 1]
      BY <1>1, <1>2, <2>2, <2>5
    <3>2. Len(calls') = D /\ calls'[D] = x /\ \A k \in 1 .. D - 1 : calls'[k] = calls[k + 1]
      BY <1>1, <2>1, <3>1
    <3>3. ASSUME NEW k \in 1 .. D
          PROVE  calls'[k] = ras_stack'[(ras_sp' - D + k - 1) % D]
      <4>1. CASE k = D
        <5>1. ras_sp' - D + k - 1 = ras_sp' - 1
          BY <1>1, <2>2, <4>1
        <5> QED BY <2>4, <3>2, <4>1, <5>1
      <4>2. CASE k # D
        <5>1. PICK j \in 1 .. D - 1 : j = D - k
          BY <1>1, <4>2
        <5>2. k \in 1 .. D - 1 /\ k + 1 \in 1 .. D /\ j + 1 \in 1 .. D
              /\ p + 1 - (j + 1) = p - j /\ p - D + (k + 1) - 1 = p - j
          BY <1>1, <5>1
        <5>3. ras_sp' - D + k - 1 = ras_sp' - (j + 1)
          BY <1>1, <2>2, <5>1
        <5>4. (ras_sp' - (j + 1)) % D = (p - j) % D
          BY <1>1, <2>2, <5>2, SlotFromAbove
        <5>5. calls'[k] = ras_stack[(p - j) % D]
          BY <1>2, <2>5, <3>2, <5>2
        <5> QED BY <2>3, <5>3, <5>4, <5>5
      <4> QED BY <4>1, <4>2
    <3> QED BY <1>3, <3>1, <3>2, <3>3
  <2>6. CASE c # D
    <3>1. ras_count' = c + 1 /\ calls' = Append(calls, x)
      BY <1>2, <2>2, <2>6
    <3>2. Len(calls') = c + 1 /\ calls'[c + 1] = x /\ \A k \in 1 .. c : calls'[k] = calls[k]
      BY <1>1, <1>2, <2>1, <3>1
    <3>3. ASSUME NEW k \in 1 .. c + 1
          PROVE  calls'[k] = ras_stack'[(ras_sp' - (c + 1) + k - 1) % D]
      <4>1. CASE k = c + 1
        <5>1. ras_sp' - (c + 1) + k - 1 = ras_sp' - 1
          BY <1>1, <2>2, <4>1
        <5> QED BY <2>4, <3>2, <4>1, <5>1
      <4>2. CASE k # c + 1
        <5>1. k \in 1 .. c
          BY <1>1, <4>2
        <5>2. PICK j \in 1 .. D - 1 : j = c + 1 - k
          BY <1>1, <2>6, <5>1
        <5>3. j + 1 \in 1 .. D /\ p + 1 - (j + 1) = p - j /\ p - c + k - 1 = p - j
          BY <1>1, <5>1, <5>2
        <5>4. ras_sp' - (c + 1) + k - 1 = ras_sp' - (j + 1)
          BY <1>1, <2>2, <5>1, <5>2
        <5>5. (ras_sp' - (j + 1)) % D = (p - j) % D
          BY <1>1, <2>2, <5>3, SlotFromAbove
        <5>6. calls'[k] = ras_stack[(p - j) % D]
          BY <1>2, <3>2, <5>1, <5>3
        <5> QED BY <2>3, <5>4, <5>5, <5>6
      <4> QED BY <4>1, <4>2
    <3> QED BY <1>3, <3>1, <3>2, <3>3
  <2> QED BY <2>5, <2>6 DEF D
<1>5. CASE push = <<>> /\ pop /\ c # 0
  <2>1. ras_stack' = ras_stack /\ ras_sp' = (p - 1) % D /\ ras_count' = c - 1
    BY <1>5 DEF ReturnStack, ras_valid
  <2> HIDE DEF p, c, D
  <2>2. calls # <<>> /\ calls' = SubSeq(calls, 1, Len(calls) - 1)
    <3>1. calls # <<>>
      BY <1>1, <1>2, <1>5
    <3> QED BY <1>5, <3>1 DEF Remember
  <2>3. Len(calls') = c - 1 /\ \A k \in 1 .. c - 1 : calls'[k] = calls[k]
    BY <1>1, <1>2, <1>5, <2>2
  <2>4. ASSUME NEW k \in 1 .. c - 1
        PROVE  calls'[k] = ras_stack'[(ras_sp' - (c - 1) + k - 1) % D]
    <3>1. PICK j \in 0 .. D - 1 : j = c - k
      BY <1>1
    <3>2. k \in 1 .. c /\ p - 1 - j = p - c + k - 1
      BY <1>1, <3>1
    <3>3. ras_sp' - (c - 1) + k - 1 = ras_sp' - j
      BY <1>1, <2>1, <3>1
    <3>4. (ras_sp' - j) % D = (p - 1 - j) % D
      BY <1>1, <2>1, SlotFromBelow
    <3>5. calls'[k] = ras_stack[(p - 1 - j) % D]
      BY <1>2, <2>3, <3>2
    <3> QED BY <2>1, <3>3, <3>4, <3>5
  <2> QED BY <1>3, <2>1, <2>3, <2>4 DEF D
<1>6. CASE push = <<>> /\ ~(pop /\ c # 0)
  <2>1. ras_stack' = ras_stack /\ ras_sp' = p /\ ras_count' = c
    BY <1>6 DEF ReturnStack, ras_valid
  <2>2. calls' = calls
    <3>1. c = 0 => calls = <<>>
      BY <1>2
    <3> QED BY <1>6, <3>1 DEF Remember
  <2> QED BY <1>2, <1>3, <2>1, <2>2
<1> QED BY <1>4, <1>5, <1>6

LEMMA StackInit == BranchInit => ReturnStackExact
<1> SUFFICES ASSUME BranchInit PROVE ReturnStackExact
  OBVIOUS
<1>1. calls = <<>> /\ ras_count = 0
  BY DEF BranchInit, PredictorInit
<1>2. [k \in 1 .. 0 |-> ras_stack[(ras_sp - 0 + k - 1) % RAS_DEPTH]] = <<>>
  OBVIOUS
<1> QED BY <1>1, <1>2 DEF ReturnStackExact

LEMMA StackNext == TypeInv /\ ReturnStackExact /\ [BranchNext]_branchVars => ReturnStackExact'
<1> SUFFICES ASSUME TypeInv, ReturnStackExact, [BranchNext]_branchVars PROVE ReturnStackExact'
  OBVIOUS
<1>1. BranchTypeOK /\ PredictorTypeOK /\ calls \in Seq(PC) /\ <<>> \in Maybe(PC)
  BY DEF TypeInv, BranchTypeOK, Maybe
<1>2. CASE RunOn
  <2>1. PICK n \in {0, 1}, issue \in Selectable, dispatch \in BOOLEAN, fetch \in Maybe(DOMAIN Code) :
          /\ Committable(n)
          /\ dispatch => MayDispatch
          /\ Predictor(FetchedOutcome(fetch), <<>>, FALSE, train_branch(n), train_btb(n),
                       Pops(dispatch), Pushes(dispatch))
          /\ Remember(Pops(dispatch), Pushes(dispatch))
    BY <1>2, Zenon DEF RunOn
  <2>2. Pops(dispatch) \in BOOLEAN /\ Pushes(dispatch) \in Maybe(PC)
    BY <1>1, <2>1, InputTypes
  <2>3. ReturnStack(Pops(dispatch), Pushes(dispatch))
    BY <2>1 DEF Predictor
  <2> QED BY <1>1, <2>1, <2>2, <2>3, StackStep
<1>3. CASE BranchRecover
  <2>1. ReturnStack(FALSE, <<>>) /\ Remember(FALSE, <<>>)
    BY <1>3 DEF BranchRecover, Predictor
  <2> QED BY <1>1, <2>1, StackStep
<1>4. CASE Flush
  <2>1. ReturnStack(FALSE, <<>>) /\ Remember(FALSE, <<>>)
    BY <1>4 DEF Flush, Predictor, Remember
  <2> QED BY <1>1, <2>1, StackStep
<1>5. CASE UNCHANGED branchVars
  BY <1>5 DEF branchVars, predictorVars, ReturnStackExact
<1> QED BY <1>2, <1>3, <1>4, <1>5 DEF BranchNext

(* For every depth of the stack, it holds the latest calls in their order  *)
(* (BranchPredictor.sv:123-124, 178-189).                                  *)
THEOREM PredictorReturnStackExact == BranchSpec => []ReturnStackExact
BY InitTypeInv, StepTypeInv, StackInit, StackNext, PTL DEF BranchSpec

=============================================================================
