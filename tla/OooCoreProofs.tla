---------------------------- MODULE OooCoreProofs ---------------------------
(***************************************************************************)
(* The out-of-order core, for every program, ring, number of stations and  *)
(* depth of pipeline: it loses no instruction and no wake-up, and it       *)
(* implements the in-order machine.                                        *)
(*                                                                         *)
(* Places: the unfinished instructions of a class are those that wait in   *)
(* its station and those in its unit (PlaceInv), and a cycle moves them    *)
(* from one to the other and out over a bus, whatever it squashes.         *)
(*                                                                         *)
(* Values: what an instruction reads is fixed when it is dispatched, as    *)
(* the result of the youngest older writer in flight or the committed      *)
(* register (Source); a cycle keeps that whether the writer finishes,      *)
(* commits or stays, so that an operand is that value or names who         *)
(* computes it (OperandInv), a result is computed from it (ResultInv,      *)
(* DoneInv), and what commits at the head is what the machine in program   *)
(* order writes.                                                           *)
(***************************************************************************)
EXTENDS OooCore, FiniteSetTheorems, WellFoundedInduction, TLAPS

-----------------------------------------------------------------------------
(* The tag ring.                                                           *)

(* Advancing a tag stays on the ring.                                      *)
LEMMA TagPlusType ==
  ASSUME NEW t \in Tag, NEW k \in 0 .. ROB_SIZE
  PROVE  TagPlus(t, k) \in Tag
BY RobSizeAssumption DEF Tag, TagPlus

(* Ages are ring distances.                                                *)
LEMMA TagAgeType ==
  ASSUME NEW t \in Tag, NEW h \in Tag
  PROVE  TagAge(t, h) \in 0 .. ROB_SIZE - 1
BY RobSizeAssumption DEF Tag, TagAge

(* The tag an age away from the head is that tag: tags and ages determine  *)
(* each other.                                                             *)
LEMMA TagOfAge ==
  ASSUME NEW t \in Tag, NEW h \in Tag
  PROVE  TagPlus(h, TagAge(t, h)) = t
BY RobSizeAssumption DEF Tag, TagAge, TagPlus

(* The age of the tag k places after the head is k.                        *)
LEMMA AgeOfTag ==
  ASSUME NEW h \in Tag, NEW k \in 0 .. ROB_SIZE - 1
  PROVE  TagAge(TagPlus(h, k), h) = k
BY RobSizeAssumption DEF Tag, TagAge, TagPlus

(* Advances add up as long as they stay within one turn of the ring.       *)
LEMMA TagPlusPlus ==
  ASSUME NEW t \in Tag, NEW j \in 0 .. ROB_SIZE, NEW k \in 0 .. ROB_SIZE,
         j + k <= ROB_SIZE
  PROVE  TagPlus(TagPlus(t, j), k) = TagPlus(t, j + k)
BY RobSizeAssumption DEF Tag, TagPlus

(* When the head advances by k, every tag it did not pass becomes k        *)
(* younger, and the tags it passed wrap to the young end of the ring.      *)
LEMMA AgeAfterCommit ==
  ASSUME NEW t \in Tag, NEW h \in Tag, NEW k \in 0 .. 2
  PROVE  TagAge(t, TagPlus(h, k)) =
           IF TagAge(t, h) >= k THEN TagAge(t, h) - k
                                ELSE TagAge(t, h) - k + ROB_SIZE
BY RobSizeAssumption DEF Tag, TagAge, TagPlus

-----------------------------------------------------------------------------

(* The inductive invariant.                                                *)

Undone == {t \in Live : ~rob[t].done}
UndoneOf(c) == {t \in Undone : ClassOf(rob[t].pc) = c}
Waiting(c) == {e.tag : e \in rs[c]}
Executing(c) ==
  (CASE c = "alu" -> {alu_e.tag, alu1_e.tag}
     [] c = "br"  -> {br_e.tag}
     [] c = "mul" -> {mul[s].tag : s \in 1 .. MUL_STAGES}
     [] c = "div" -> {div.tag}) \ {NoTag}

\* The reorder buffer is a window of the ring; an unfinished instruction that
\* belongs to no unit is a fast CSR access.
RingInv ==
  /\ prog \in Programs /\ fpc \in Nat /\ epc \in Nat
  /\ irq \in {"off", "pending", "over"} /\ serial_in_flight \in BOOLEAN
  /\ head \in Tag /\ used \in 0 .. ROB_SIZE
  /\ \A t \in Tag : rob[t].live <=> TagAge(t, head) < used
  /\ \A t \in Live : rob[t].pc \in PC /\ rob[t].done \in BOOLEAN
  /\ \A t \in Undone : ClassOf(rob[t].pc) = "none" => Code(rob[t].pc).op = "csr"

UnitInv ==
  /\ \A e \in {alu_e, alu1_e, br_e} : e = None \/ e.tag \in Tag
  /\ alu_e.tag = alu1_e.tag => alu_e.tag = NoTag
  /\ \A s \in 1 .. MUL_STAGES : mul[s] = Bubble \/ mul[s].tag \in Tag
  /\ \A s, u \in 1 .. MUL_STAGES : mul[s].tag = mul[u].tag => s = u \/ mul[s].tag = NoTag
  /\ (div = NoDivision \/ div.tag \in Tag) /\ div.done \in BOOLEAN

StationInv ==
  \A c \in Class :
    /\ IsFiniteSet(rs[c]) /\ Cardinality(rs[c]) <= Slots[c]
    /\ \A e \in rs[c] : e.tag \in Tag /\ e.o1.st \in Operands /\ e.o2.st \in Operands
    /\ \A e, f \in rs[c] : e.tag = f.tag => e = f

\* Every unfinished instruction of a class is in one place of that class.
PlaceInv ==
  \A c \in Class :
    /\ Waiting(c) \cup Executing(c) = UndoneOf(c)
    /\ Waiting(c) \cap Executing(c) = {}

\* NoLostWakeup, and what is awaited from an ALU is in one.
WakeInv ==
  \A e \in WaitingEntries : \A o \in {e.o1, e.o2} :
    /\ o.st = "wait" => o.tag \in Undone /\ Younger(e.tag, o.tag)
    /\ o.st = "spec" => o.tag \in {alu_e.tag, alu1_e.tag} \ {NoTag}

IInv == RingInv /\ UnitInv /\ StationInv /\ PlaceInv /\ WakeInv

-----------------------------------------------------------------------------
(* The reorder buffer over a cycle.                                        *)

\* What dispatch may put behind the tail.
Step(s) == s.pc \in PC /\ s.pred \in Nat
Dispatched(d) ==
  \/ d = <<>>
  \/ \E s : d = <<s>> /\ Step(s) /\ CanDispatch0(s.pc)
  \/ \E s, t : /\ d = <<s, t>> /\ Step(s) /\ Step(t)
               /\ CanDispatch0(s.pc) /\ CanDispatch1(s.pc, t.pc)

NewTags(d) == {TagPlus(tail, i - 1) : i \in DOMAIN d}
Squashed(recover) == {t \in Live : recover /\ Younger(t, br_e.tag)}
Retired == {t \in Live : Retiring(t)}
CdbTags == {c.tag : c \in Cdb}

\* A program holds instructions at natural addresses, and so does the rest.
LEMMA ProgramFacts ==
  ASSUME RingInv
  PROVE  /\ \A p \in PC : p \in Nat /\ p + 1 \in Nat /\ Code(p) \in Instruction
         /\ prog.handler \in Nat
<1>1. prog.code \in Seq(Instruction) /\ prog.handler \in Nat
  BY CoreAssumption DEF RingInv
<1>2. \A p \in PC : p \in Nat /\ Code(p) \in Instruction
  BY <1>1 DEF PC, Code
<1> QED BY <1>1, <1>2

\* Fetch offers instructions of the program, and dispatch takes a prefix that
\* fits.
LEMMA AcceptedIsDispatched ==
  ASSUME RingInv, NEW b \in Bundles \cup {<<>>}
  PROVE  Dispatched(Accepted(b))
<1>1. \A p \in PC : \A s \in SlotsAt(p) : Step(s) /\ s.pc = p
  <2> SUFFICES ASSUME NEW p \in PC, NEW s \in SlotsAt(p) PROVE Step(s) /\ s.pc = p
    OBVIOUS
  <2>1. p + 1 \in Nat /\ Code(p).next \in Nat
    BY ProgramFacts DEF Instruction
  <2> QED BY <2>1 DEF SlotsAt, Predictions, Step
<1>2. CASE b = <<>>
  BY <1>2 DEF Accepted, Dispatched
<1>3. CASE b # <<>>
  <2>1. fpc \in PC /\ b \in Bundles
    BY <1>3 DEF Bundles
  <2>2. CASE \E s \in SlotsAt(fpc) : b = <<s>>
    BY <1>1, <2>1, <2>2 DEF Accepted, Dispatched
  <2>3. CASE \E s \in SlotsAt(fpc), p \in PC : \E t \in SlotsAt(p) : b = <<s, t>>
    BY <1>1, <2>1, <2>3 DEF Accepted, Dispatched
  <2>4. \/ \E s \in SlotsAt(fpc) : b = <<s>>
        \/ \E s \in SlotsAt(fpc), p \in PC : \E t \in SlotsAt(p) : b = <<s, t>>
    BY <2>1 DEF Bundles
  <2> QED BY <2>2, <2>3, <2>4
<1> QED BY <1>2, <1>3

\* Commit takes at most the two oldest, and they are finished.
LEMMA CommitFacts ==
  ASSUME RingInv
  PROVE  /\ commit_count \in 0 .. 2 /\ commit_count <= used
         /\ \A t \in Tag : Retiring(t) => t \in Live /\ rob[t].done
<1>1. /\ ROB_SIZE \in Nat /\ ROB_SIZE >= 2 /\ head \in Tag /\ used \in 0 .. ROB_SIZE
  BY RobSizeAssumption DEF RingInv
<1>2. \A t \in Tag : /\ TagAge(t, head) \in Nat
                     /\ TagAge(t, head) = 0 => t = head
                     /\ TagAge(t, head) = 1 => t = head1
  <2> SUFFICES ASSUME NEW t \in Tag
               PROVE  /\ TagAge(t, head) \in Nat
                      /\ TagAge(t, head) = 0 => t = head
                      /\ TagAge(t, head) = 1 => t = head1
    OBVIOUS
  <2>1. TagAge(t, head) \in Nat
    BY <1>1, TagAgeType
  <2>2. TagPlus(head, TagAge(t, head)) = t
    BY <1>1, TagOfAge
  <2>3. TagPlus(head, 0) = head
    BY <1>1 DEF TagPlus, Tag
  <2> QED BY <2>1, <2>2, <2>3 DEF head1
<1>3. TagAge(head, head) = 0 /\ TagAge(head1, head) = 1 /\ head1 \in Tag
  BY <1>1, AgeOfTag, TagPlusType DEF head1, TagAge, Tag
<1>4. h0.live => used >= 1
  BY <1>1, <1>3 DEF h0, RingInv
<1>5. h1.live => used >= 2
  BY <1>1, <1>3 DEF h1, RingInv
<1>6. commit0 => head \in Live /\ rob[head].done
  BY <1>1 DEF commit0, h0_ready, h0, Live
<1>7. commit1 => commit0 /\ head1 \in Live /\ rob[head1].done
  BY <1>3 DEF commit1, h1, Live
<1>8. commit_count \in 0 .. 2 /\ commit_count <= used
  BY <1>1, <1>4, <1>5 DEF commit_count, commit0, commit1, h0_ready
<1>9. ASSUME NEW t \in Tag, Retiring(t) PROVE t \in Live /\ rob[t].done
  <2>1. TagAge(t, head) \in Nat /\ TagAge(t, head) < commit_count
    BY <1>2, <1>9 DEF Retiring
  <2>2. CASE commit1
    <3>1. TagAge(t, head) \in {0, 1}
      BY <2>1, <2>2 DEF commit_count
    <3> QED BY <1>2, <1>6, <1>7, <2>2, <3>1
  <2>3. CASE ~commit1 /\ commit0
    <3>1. TagAge(t, head) = 0
      BY <2>1, <2>3 DEF commit_count
    <3> QED BY <1>2, <1>6, <2>3, <3>1
  <2>4. CASE ~commit1 /\ ~commit0
    BY <2>1, <2>4 DEF commit_count
  <2> QED BY <2>2, <2>3, <2>4
<1> QED BY <1>8, <1>9

\* What is dispatched fits behind the tail, at consecutive tags.
LEMMA DispatchFacts ==
  ASSUME RingInv, NEW d, Dispatched(d)
  PROVE  /\ Len(d) \in 0 .. 2 /\ DOMAIN d = 1 .. Len(d) /\ used + Len(d) <= ROB_SIZE
         /\ \A i \in DOMAIN d : d[i].pc \in PC /\ d[i].pred \in Nat
         /\ \A i \in DOMAIN d : /\ TagPlus(tail, i - 1) \in Tag
                                /\ TagAge(TagPlus(tail, i - 1), head) = used + i - 1
         /\ \A t \in Tag : t \in NewTags(d) <=> /\ used <= TagAge(t, head)
                                                /\ TagAge(t, head) < used + Len(d)
<1>1. /\ ROB_SIZE \in Nat /\ ROB_SIZE >= 2 /\ head \in Tag /\ used \in 0 .. ROB_SIZE
  BY RobSizeAssumption DEF RingInv
<1>2. /\ Len(d) \in 0 .. 2 /\ DOMAIN d = 1 .. Len(d) /\ used + Len(d) <= ROB_SIZE
      /\ \A i \in DOMAIN d : d[i].pc \in PC /\ d[i].pred \in Nat
  <2>1. CASE d = <<>>
    BY <1>1, <2>1
  <2>2. CASE \E s : d = <<s>> /\ Step(s) /\ CanDispatch0(s.pc)
    BY <1>1, <2>2 DEF Step, CanDispatch0, rob_free
  <2>3. CASE \E s, t : /\ d = <<s, t>> /\ Step(s) /\ Step(t)
                       /\ CanDispatch0(s.pc) /\ CanDispatch1(s.pc, t.pc)
    BY <1>1, <2>3 DEF Step, CanDispatch1, rob_free
  <2> QED BY <2>1, <2>2, <2>3 DEF Dispatched
<1>3. \A i \in DOMAIN d : /\ TagPlus(tail, i - 1) \in Tag
                          /\ TagPlus(tail, i - 1) = TagPlus(head, used + (i - 1))
                          /\ TagAge(TagPlus(tail, i - 1), head) = used + i - 1
  <2> SUFFICES ASSUME NEW i \in DOMAIN d
               PROVE  /\ TagPlus(tail, i - 1) \in Tag
                      /\ TagPlus(tail, i - 1) = TagPlus(head, used + (i - 1))
                      /\ TagAge(TagPlus(tail, i - 1), head) = used + i - 1
    OBVIOUS
  <2>1. i - 1 \in 0 .. ROB_SIZE /\ used + (i - 1) \in 0 .. ROB_SIZE - 1
        /\ used + (i - 1) <= ROB_SIZE
    BY <1>1, <1>2
  <2>2. TagPlus(tail, i - 1) = TagPlus(head, used + (i - 1))
    BY <1>1, <2>1, TagPlusPlus DEF tail
  <2>3. used + (i - 1) \in 0 .. ROB_SIZE
    BY <1>1, <2>1
  <2> QED BY <1>1, <2>1, <2>2, <2>3, TagPlusType, AgeOfTag
<1>4. \A t \in Tag : t \in NewTags(d) <=> /\ used <= TagAge(t, head)
                                          /\ TagAge(t, head) < used + Len(d)
  <2> SUFFICES ASSUME NEW t \in Tag
               PROVE  t \in NewTags(d) <=> /\ used <= TagAge(t, head)
                                           /\ TagAge(t, head) < used + Len(d)
    OBVIOUS
  <2>1. ASSUME t \in NewTags(d)
        PROVE  used <= TagAge(t, head) /\ TagAge(t, head) < used + Len(d)
    BY <1>1, <1>2, <1>3, <2>1 DEF NewTags
  <2>2. ASSUME used <= TagAge(t, head), TagAge(t, head) < used + Len(d)
        PROVE  t \in NewTags(d)
    <3> DEFINE i == TagAge(t, head) - used + 1
    <3>1. TagAge(t, head) \in Int
      BY <1>1, TagAgeType
    <3>2. i \in DOMAIN d /\ used + (i - 1) = TagAge(t, head)
      BY <1>1, <1>2, <2>2, <3>1
    <3> HIDE DEF i
    <3>3. TagPlus(tail, i - 1) = TagPlus(head, TagAge(t, head))
      BY <1>3, <3>2
    <3>4. TagPlus(head, TagAge(t, head)) = t
      BY <1>1, TagOfAge
    <3> QED BY <3>2, <3>3, <3>4 DEF NewTags
  <2> QED BY <2>1, <2>2
<1> QED BY <1>2, <1>3, <1>4

\* A cycle retires the oldest, squashes the youngest and adds behind the
\* tail; what stays is kept, completed if its result is on a bus.
LEMMA RingStep ==
  ASSUME RingInv, NEW d, Dispatched(d), NEW recover \in BOOLEAN, NEW finish,
         recover => d = <<>> /\ br_e.tag \in Undone,
         Advance(d, recover, finish)
  PROVE  /\ head' \in Tag /\ used' \in 0 .. ROB_SIZE
         /\ \A t \in Tag : rob'[t].live <=> TagAge(t, head') < used'
         /\ NewTags(d) \cap Live = {}
         /\ Live' = ((Live \ Retired) \ Squashed(recover)) \cup NewTags(d)
         /\ \A i \in DOMAIN d : rob'[TagPlus(tail, i - 1)] = RobEntry(d[i].pc)
         /\ \A t \in Live' \ NewTags(d) : rob'[t] = Completed(t)
<1> DEFINE k == commit_count
           n == Len(d)
           A == TagAge(br_e.tag, head)
<1>1. /\ ROB_SIZE \in Nat /\ ROB_SIZE >= 2 /\ head \in Tag /\ used \in 0 .. ROB_SIZE
      /\ \A t \in Tag : rob[t].live <=> TagAge(t, head) < used
  BY RobSizeAssumption DEF RingInv
<1>2. k \in 0 .. 2 /\ k <= used /\ n \in 0 .. 2 /\ used + n <= ROB_SIZE
  BY CommitFacts, DispatchFacts
<1>3. head' = TagPlus(head, k) /\ head' \in Tag
      /\ used' = IF recover THEN A + 1 - k ELSE used + n - k
  <2>1. k \in 0 .. ROB_SIZE
    BY <1>1, <1>2
  <2>2. head' = TagPlus(head, k) /\ used' = IF recover THEN A + 1 - k ELSE used + n - k
    BY DEF Advance
  <2> HIDE DEF k
  <2> QED BY <1>1, <2>1, <2>2, TagPlusType
<1>4. \A t \in Tag :
        /\ TagAge(t, head) \in 0 .. ROB_SIZE - 1
        /\ TagAge(t, head') = IF TagAge(t, head) >= k THEN TagAge(t, head) - k
                              ELSE TagAge(t, head) - k + ROB_SIZE
  <2> HIDE DEF k
  <2>1. \A t \in Tag : TagAge(t, TagPlus(head, k)) =
                         IF TagAge(t, head) >= k THEN TagAge(t, head) - k
                         ELSE TagAge(t, head) - k + ROB_SIZE
    BY <1>1, <1>2, AgeAfterCommit
  <2> QED BY <1>1, <1>3, <2>1, TagAgeType
<1>5. recover => br_e.tag \in Tag /\ A < used /\ A >= k /\ n = 0
  <2> SUFFICES ASSUME recover PROVE br_e.tag \in Tag /\ A < used /\ A >= k /\ n = 0
    OBVIOUS
  <2>1. br_e.tag \in Tag /\ rob[br_e.tag].live /\ ~rob[br_e.tag].done /\ d = <<>>
    BY DEF Undone, Live
  <2>2. ~Retiring(br_e.tag) /\ A < used
    BY <1>1, <2>1, CommitFacts
  <2> QED BY <1>2, <1>4, <2>1, <2>2 DEF Retiring
<1>6. used' \in 0 .. ROB_SIZE
  <2>1. recover => A \in 0 .. ROB_SIZE - 1
    BY <1>4, <1>5
  <2> QED BY <1>1, <1>2, <1>3, <1>5, <2>1
<1>7. \A t \in Tag : t \in NewTags(d) <=> used <= TagAge(t, head) /\ TagAge(t, head) < used + n
  BY DispatchFacts
<1>8. NewTags(d) \cap Live = {}
  BY <1>1, <1>4, <1>7 DEF Live
<1>9. ASSUME NEW i \in DOMAIN d
      PROVE  TagPlus(tail, i - 1) \in Tag /\ rob'[TagPlus(tail, i - 1)] = RobEntry(d[i].pc)
  <2> DEFINE t == TagPlus(tail, i - 1)
  <2>1. \A j \in DOMAIN d : j \in Int /\ TagAge(TagPlus(tail, j - 1), head) = used + j - 1
    BY DispatchFacts
  <2>2. \A j \in DOMAIN d : t = TagPlus(tail, j - 1) => i = j
    BY <1>1, <2>1
  <2>3. (CHOOSE j \in DOMAIN d : t = TagPlus(tail, j - 1)) = i
    <3> HIDE DEF t
    <3>1. t = TagPlus(tail, i - 1)
      BY DEF t
    <3> QED BY <2>2, <3>1
  <2>4. t \in Tag
    BY DispatchFacts
  <2>5. rob'[t] = RobEntry(d[CHOOSE j \in DOMAIN d : t = TagPlus(tail, j - 1)].pc)
    BY <2>4 DEF Advance
  <2> QED BY <2>3, <2>4, <2>5
<1>10. ASSUME NEW t \in Tag, t \notin NewTags(d)
       PROVE  rob'[t] = IF Retiring(t) \/ (recover /\ Younger(t, br_e.tag)) THEN Idle
                        ELSE Completed(t)
  <2>1. ~ \E i \in DOMAIN d : t = TagPlus(tail, i - 1)
    BY <1>10 DEF NewTags
  <2> QED BY <2>1 DEF Advance
<1>11. \A t \in NewTags(d) : t \in Tag /\ rob'[t].live
  <2>1. \A p : RobEntry(p).live
    BY DEF RobEntry
  <2> QED BY <1>9, <2>1 DEF NewTags
<1>12. \A t \in Tag : Completed(t).live = rob[t].live
  BY DEF Completed
<1>13. \A t \in Tag : Retiring(t) <=> TagAge(t, head) < k
  BY DEF Retiring
<1>14. \A t \in Tag : recover => (Younger(t, br_e.tag) <=> TagAge(t, head) > A)
  BY DEF Younger, TagYounger
<1> HIDE DEF k, n, A
<1>15. ASSUME NEW t \in Tag PROVE rob'[t].live <=> TagAge(t, head') < used'
  <2>1. CASE t \in NewTags(d)
    BY <1>1, <1>2, <1>3, <1>4, <1>5, <1>7, <1>11, <2>1
  <2>2. CASE t \notin NewTags(d) /\ (Retiring(t) \/ (recover /\ Younger(t, br_e.tag)))
    <3>1. ~rob'[t].live
      BY <1>10, <2>2 DEF Idle
    <3>2. recover => A \in 0 .. ROB_SIZE - 1
      BY <1>4, <1>5 DEF A
    <3> QED BY <1>1, <1>2, <1>3, <1>4, <1>5, <1>13, <1>14, <2>2, <3>1, <3>2
  <2>3. CASE t \notin NewTags(d) /\ ~(Retiring(t) \/ (recover /\ Younger(t, br_e.tag)))
    <3>1. rob'[t].live <=> TagAge(t, head) < used
      BY <1>1, <1>10, <1>12, <2>3
    <3>2. recover => A \in 0 .. ROB_SIZE - 1
      BY <1>4, <1>5 DEF A
    <3> QED BY <1>1, <1>2, <1>3, <1>4, <1>5, <1>7, <1>13, <1>14, <2>3, <3>1, <3>2
  <2> QED BY <2>1, <2>2, <2>3
<1>16. ASSUME NEW t \in Tag
       PROVE  t \in Live' <=> \/ t \in (Live \ Retired) \ Squashed(recover)
                              \/ t \in NewTags(d)
  <2>1. t \in Live' <=> rob'[t].live
    BY DEF Live
  <2>2. CASE t \in NewTags(d)
    BY <1>11, <2>1, <2>2
  <2>3. CASE t \notin NewTags(d)
    BY <1>10, <1>12, <2>1, <2>3 DEF Live, Retired, Squashed, Idle
  <2> QED BY <2>2, <2>3
<1>17. Live' = ((Live \ Retired) \ Squashed(recover)) \cup NewTags(d)
  <2>1. Live' \subseteq Tag /\ Live \subseteq Tag /\ NewTags(d) \subseteq Tag
    BY <1>11 DEF Live
  <2> QED BY <1>16, <2>1
<1>18. ASSUME NEW t \in Live' \ NewTags(d) PROVE rob'[t] = Completed(t)
  <2>1. t \in Tag /\ ~Retiring(t) /\ ~(recover /\ Younger(t, br_e.tag))
    BY <1>17 DEF Live, Retired, Squashed
  <2> QED BY <1>10, <2>1
<1> QED BY <1>3, <1>6, <1>8, <1>9, <1>15, <1>17, <1>18

-----------------------------------------------------------------------------
(* The buses.                                                              *)

\* What of a class leaves its unit over a bus.
Leaving(c) ==
  CASE c = "alu" -> {alu_e.tag, alu1_e.tag} \ {NoTag}
    [] c = "br"  -> {br_e.tag} \ {NoTag}
    [] c = "mul" -> IF GrantedTo(MUL_REQ) THEN {mul_out.tag} ELSE {}
    [] c = "div" -> IF GrantedTo(DIV_REQ) THEN {div.tag} ELSE {}

\* Instructions of a class have operations of it, and CSR accesses none.
LEMMA ClassFacts ==
  \A p : /\ ClassOf(p) = "br" <=> Code(p).op = "br"
         /\ Code(p).op \in {"csr", "ser"} => ClassOf(p) = "none"
         /\ ClassOf(p) \in Class \cup {"none"}
BY DEF ClassOf, Class

\* A granted request is one that was made.
LEMMA GrantFacts ==
  /\ Grants \subseteq 0 .. 2
  /\ Request[0] = mul_out.tag
  /\ Request[1] = IF div.done THEN div.tag ELSE NoTag
  /\ Request[2] = IF h0_csr /\ ~rob[head].done THEN head ELSE NoTag
  /\ \A i \in Grants : Request[i] # NoTag
<1>1. /\ Request[0] = mul_out.tag
      /\ Request[1] = IF div.done THEN div.tag ELSE NoTag
      /\ Request[2] = IF h0_csr /\ ~rob[head].done THEN head ELSE NoTag
  BY DEF Request, MUL_REQ, DIV_REQ, CSR_REQ
<1>2. \A i \in Grants : i \in 0 .. 2 /\ Request[i] # NoTag
  BY DEF Grants, Arbiter!Granted, Arbiter!OnBus, Arbiter!Requesting, Arbiter!Requester
<1> QED BY <1>1, <1>2

\* The tags on the buses are those that leave their units, and that of a fast
\* CSR access at the head.
LEMMA BusTags ==
  \A t : t \in CdbTags <=> \/ \E c \in Class : t \in Leaving(c)
                           \/ GrantedTo(CSR_REQ) /\ t = head
<1>1. \A t : t \in CdbTags <=> \/ t # NoTag /\ t \in {alu_e.tag, alu1_e.tag, br_e.tag}
                               \/ \E i \in Grants : t = Request[i]
  <2> SUFFICES ASSUME NEW t
               PROVE  t \in CdbTags <=> \/ t # NoTag /\ t \in {alu_e.tag, alu1_e.tag, br_e.tag}
                                        \/ \E i \in Grants : t = Request[i]
    OBVIOUS
  <2>1. t \in CdbTags <=> \E c \in Cdb : t = c.tag
    BY DEF CdbTags
  <2>2. (\E c \in Cdb : t = c.tag) <=>
          \/ \E e \in {alu_e, alu1_e, br_e} : OwnerDriving(e) /\ t = e.tag
          \/ \E i \in Grants : t = Request[i]
    <3> DEFINE driven == {[tag |-> e.tag, val |-> Result(e.tag, e.v1, e.v2)] :
                            e \in {x \in {alu_e, alu1_e, br_e} : OwnerDriving(x)}}
               granted == {[tag |-> Request[i], val |-> RequestValue[i + 1]] : i \in Grants}
    <3>1. (\E c \in driven : t = c.tag) <=>
            \E e \in {alu_e, alu1_e, br_e} : OwnerDriving(e) /\ t = e.tag
      <4>1. \A c : c \in driven <=>
              \E e \in {alu_e, alu1_e, br_e} :
                OwnerDriving(e) /\ c = [tag |-> e.tag, val |-> Result(e.tag, e.v1, e.v2)]
        OBVIOUS
      <4> HIDE DEF driven
      <4>2. ASSUME NEW c \in driven, t = c.tag
            PROVE  \E e \in {alu_e, alu1_e, br_e} : OwnerDriving(e) /\ t = e.tag
        <5>1. PICK e \in {alu_e, alu1_e, br_e} :
                OwnerDriving(e) /\ c = [tag |-> e.tag, val |-> Result(e.tag, e.v1, e.v2)]
          BY <4>1
        <5> QED BY <4>2, <5>1
      <4>3. ASSUME NEW e \in {alu_e, alu1_e, br_e}, OwnerDriving(e), t = e.tag
            PROVE  \E c \in driven : t = c.tag
        <5>1. PICK c : c = [tag |-> e.tag, val |-> Result(e.tag, e.v1, e.v2)]
          OBVIOUS
        <5>2. c \in driven
          BY <4>1, <4>3, <5>1
        <5> QED BY <4>3, <5>1, <5>2
      <4> QED BY <4>2, <4>3
    <3>2. (\E c \in granted : t = c.tag) <=> \E i \in Grants : t = Request[i]
      <4>1. \A c : c \in granted <=>
              \E i \in Grants : c = [tag |-> Request[i], val |-> RequestValue[i + 1]]
        OBVIOUS
      <4> HIDE DEF granted
      <4>2. ASSUME NEW c \in granted, t = c.tag PROVE \E i \in Grants : t = Request[i]
        <5>1. PICK i \in Grants : c = [tag |-> Request[i], val |-> RequestValue[i + 1]]
          BY <4>1
        <5> QED BY <4>2, <5>1
      <4>3. ASSUME NEW i \in Grants, t = Request[i] PROVE \E c \in granted : t = c.tag
        <5>1. PICK c : c = [tag |-> Request[i], val |-> RequestValue[i + 1]]
          OBVIOUS
        <5>2. c \in granted
          BY <4>1, <5>1
        <5> QED BY <4>3, <5>1, <5>2
      <4> QED BY <4>2, <4>3
    <3>3. Cdb = driven \cup granted
      BY DEF Cdb
    <3> HIDE DEF driven, granted
    <3> QED BY <3>1, <3>2, <3>3
  <2> QED BY <2>1, <2>2 DEF OwnerDriving
<1>2. \A t : (\E c \in Class : t \in Leaving(c)) <=>
               \/ t # NoTag /\ t \in {alu_e.tag, alu1_e.tag, br_e.tag}
               \/ 0 \in Grants /\ t = mul_out.tag
               \/ 1 \in Grants /\ t = div.tag
  <2>1. /\ Leaving("alu") = {alu_e.tag, alu1_e.tag} \ {NoTag}
        /\ Leaving("br") = {br_e.tag} \ {NoTag}
        /\ Leaving("mul") = IF 0 \in Grants THEN {mul_out.tag} ELSE {}
        /\ Leaving("div") = IF 1 \in Grants THEN {div.tag} ELSE {}
    BY DEF Leaving, GrantedTo, MUL_REQ, DIV_REQ
  <2> QED BY <2>1 DEF Class
<1>3. \A i \in Grants : i \in {0, 1, 2}
  BY GrantFacts
<1>4. /\ 1 \in Grants => Request[1] = div.tag
      /\ 2 \in Grants => Request[2] = head
      /\ Request[0] = mul_out.tag
  BY GrantFacts
<1>5. \A t : (\E i \in Grants : t = Request[i]) <=>
               \/ 0 \in Grants /\ t = mul_out.tag
               \/ 1 \in Grants /\ t = div.tag
               \/ 2 \in Grants /\ t = head
  BY <1>3, <1>4
<1>6. GrantedTo(CSR_REQ) <=> 2 \in Grants
  BY DEF GrantedTo, CSR_REQ
<1> SUFFICES ASSUME NEW t
             PROVE  t \in CdbTags <=> \/ \E c \in Class : t \in Leaving(c)
                                      \/ GrantedTo(CSR_REQ) /\ t = head
  OBVIOUS
<1>7. \/ t # NoTag /\ t \in {alu_e.tag, alu1_e.tag, br_e.tag}
      \/ 0 \in Grants /\ t = mul_out.tag
      \/ 1 \in Grants /\ t = div.tag
      <=> \E c \in Class : t \in Leaving(c)
  BY <1>2
<1>8. t \in CdbTags <=> \/ t # NoTag /\ t \in {alu_e.tag, alu1_e.tag, br_e.tag}
                        \/ 0 \in Grants /\ t = mul_out.tag
                        \/ 1 \in Grants /\ t = div.tag
                        \/ 2 \in Grants /\ t = head
  BY <1>1, <1>5
<1> QED BY <1>6, <1>7, <1>8

\* What is on a bus is unfinished, and what leaves a class is of the class.
LEMMA BusFacts ==
  ASSUME RingInv, UnitInv, PlaceInv
  PROVE  /\ CdbTags \subseteq Undone
         /\ \A c \in Class : /\ Leaving(c) \subseteq Executing(c)
                             /\ Leaving(c) = CdbTags \cap UndoneOf(c)
<1>1. ASSUME NEW c \in Class PROVE Leaving(c) \subseteq Executing(c)
  <2>1. CASE c = "alu"
    BY <2>1 DEF Leaving, Executing
  <2>2. CASE c = "br"
    BY <2>2 DEF Leaving, Executing
  <2>3. CASE c = "mul"
    <3>1. MUL_STAGES \in 1 .. MUL_STAGES
      BY CoreAssumption
    <3>2. GrantedTo(MUL_REQ) => mul_out.tag # NoTag
      BY GrantFacts DEF GrantedTo, MUL_REQ
    <3> QED BY <2>3, <3>1, <3>2 DEF Leaving, Executing, mul_out
  <2>4. CASE c = "div"
    <3>1. GrantedTo(DIV_REQ) => div.tag # NoTag
      BY GrantFacts DEF GrantedTo, DIV_REQ
    <3> QED BY <2>4, <3>1 DEF Leaving, Executing
  <2> QED BY <2>1, <2>2, <2>3, <2>4 DEF Class
<1>2. \A c \in Class : Executing(c) \subseteq UndoneOf(c)
  BY DEF PlaceInv
<1>3. GrantedTo(CSR_REQ) => head \in Undone /\ ClassOf(rob[head].pc) = "none"
  <2> SUFFICES ASSUME GrantedTo(CSR_REQ) PROVE head \in Undone /\ ClassOf(rob[head].pc) = "none"
    OBVIOUS
  <2>1. h0_csr /\ ~rob[head].done /\ head \in Tag
    BY GrantFacts DEF GrantedTo, CSR_REQ, RingInv
  <2> QED BY <2>1, ClassFacts DEF h0_csr, Undone, Live
<1>4. \A c \in Class : UndoneOf(c) \subseteq Undone /\ c # "none"
  BY DEF UndoneOf, Class
<1>5. \A t \in CdbTags : \/ \E c \in Class : t \in Leaving(c)
                         \/ t = head /\ GrantedTo(CSR_REQ)
  BY BusTags
<1>6. CdbTags \subseteq Undone
  BY <1>1, <1>2, <1>3, <1>4, <1>5
<1>7. ASSUME NEW c \in Class PROVE Leaving(c) = CdbTags \cap UndoneOf(c)
  <2>1. ASSUME NEW t \in Leaving(c) PROVE t \in CdbTags
    BY BusTags
  <2>2. ASSUME NEW t \in CdbTags \cap UndoneOf(c) PROVE t \in Leaving(c)
    <3>1. ClassOf(rob[t].pc) = c
      BY DEF UndoneOf
    <3>2. \A b \in Class : t \in Leaving(b) => b = c
      BY <1>1, <1>2, <3>1 DEF UndoneOf
    <3>3. ~ (t = head /\ GrantedTo(CSR_REQ))
      BY <1>3, <1>4, <3>1
    <3> QED BY <1>5, <3>2, <3>3
  <2> QED BY <1>1, <1>2, <2>1, <2>2
<1> QED BY <1>1, <1>6, <1>7

\* What is unfinished after a cycle: what was and neither left over a bus nor
\* was squashed, and what came in.
NewOf(c, d) == {TagPlus(tail, i - 1) : i \in {j \in DOMAIN d : ClassOf(d[j].pc) = c}}

LEMMA UndoneStep ==
  ASSUME RingInv, UnitInv, PlaceInv, NEW d, Dispatched(d), NEW recover \in BOOLEAN, NEW finish,
         recover => d = <<>> /\ br_e.tag \in Undone,
         Advance(d, recover, finish)
  PROVE  /\ \A c \in Class :
              UndoneOf(c)' = ((UndoneOf(c) \ Leaving(c)) \ Squashed(recover)) \cup NewOf(c, d)
         /\ \A t \in Undone : t \notin CdbTags /\ t \notin Squashed(recover) => t \in Undone'
         /\ \A t \in Undone' : ClassOf(rob'[t].pc) = "none" => Code(rob'[t].pc).op = "csr"
         /\ \A t \in Live' : rob'[t].pc \in PC /\ rob'[t].done \in BOOLEAN
<1>1. prog' = prog
  BY DEF Advance
<1>2. \A t : t \in Undone' <=> t \in Live' /\ ~rob'[t].done
  BY DEF Undone
<1>3. \A c \in Class : \A t : t \in UndoneOf(c)' <=> t \in Undone' /\ ClassOf(rob'[t].pc) = c
  BY <1>1 DEF UndoneOf, ClassOf, Code
<1>4. /\ Live' = ((Live \ Retired) \ Squashed(recover)) \cup NewTags(d)
      /\ NewTags(d) \cap Live = {}
      /\ \A t \in Live' \ NewTags(d) : rob'[t] = Completed(t)
      /\ \A i \in DOMAIN d : rob'[TagPlus(tail, i - 1)] = RobEntry(d[i].pc)
  BY RingStep
<1>5. \A t \in Retired : rob[t].done
  BY CommitFacts DEF Retired, Live
<1>6. \A t : /\ Completed(t).pc = rob[t].pc
             /\ t \in CdbTags => Completed(t).done = TRUE
             /\ t \notin CdbTags => Completed(t) = rob[t]
  BY DEF Completed, CdbTags
<1>7. \A i \in DOMAIN d : TagPlus(tail, i - 1) \in NewTags(d) /\ d[i].pc \in PC
  BY DispatchFacts DEF NewTags
<1>8. \A p : /\ RobEntry(p).pc = p
             /\ RobEntry(p).done \in BOOLEAN
             /\ ClassOf(p) \in Class => ~RobEntry(p).done
             /\ ~RobEntry(p).done /\ ClassOf(p) = "none" => Code(p).op = "csr"
  BY DEF RobEntry, Class, csr_fast
<1>9. ASSUME NEW t \in Live' \ NewTags(d)
      PROVE  /\ t \in Live /\ t \notin Squashed(recover) /\ rob'[t].pc = rob[t].pc
             /\ rob'[t].done \in BOOLEAN
             /\ ~rob'[t].done <=> ~rob[t].done /\ t \notin CdbTags
  BY <1>4, <1>6, <1>9 DEF RingInv
<1>10. ASSUME NEW t \in NewTags(d)
       PROVE  \E i \in DOMAIN d : t = TagPlus(tail, i - 1) /\ rob'[t] = RobEntry(d[i].pc)
  BY <1>4, <1>10 DEF NewTags
<1>11. ASSUME NEW t \in Undone, t \notin CdbTags, t \notin Squashed(recover)
       PROVE  t \in Live' \ NewTags(d) /\ ~rob'[t].done /\ rob'[t] = rob[t]
  <2>1. t \in Live /\ t \notin Retired
    BY <1>5 DEF Undone
  <2> QED BY <1>4, <1>6, <1>11, <2>1 DEF Undone
<1>12. ASSUME NEW c \in Class
       PROVE  UndoneOf(c)' = ((UndoneOf(c) \ Leaving(c)) \ Squashed(recover)) \cup NewOf(c, d)
  <2>1. ASSUME NEW t \in UndoneOf(c)', t \notin NewTags(d)
        PROVE  t \in (UndoneOf(c) \ Leaving(c)) \ Squashed(recover)
    <3>1. t \in Live' \ NewTags(d) /\ ~rob'[t].done /\ ClassOf(rob'[t].pc) = c
      BY <1>2, <1>3, <2>1
    <3>2. t \in UndoneOf(c) /\ t \notin CdbTags /\ t \notin Squashed(recover)
      BY <1>9, <3>1 DEF UndoneOf, Undone
    <3> QED BY <3>2, BusFacts
  <2>2. ASSUME NEW t \in UndoneOf(c)', t \in NewTags(d) PROVE t \in NewOf(c, d)
    <3>1. PICK i \in DOMAIN d : t = TagPlus(tail, i - 1) /\ rob'[t] = RobEntry(d[i].pc)
      BY <1>10, <2>2
    <3>2. ClassOf(d[i].pc) = c
      BY <1>3, <1>8, <3>1
    <3> QED BY <3>1, <3>2 DEF NewOf
  <2>3. ASSUME NEW t \in (UndoneOf(c) \ Leaving(c)) \ Squashed(recover)
        PROVE  t \in UndoneOf(c)'
    <3>1. t \in Undone /\ t \notin CdbTags /\ t \notin Squashed(recover)
      BY BusFacts DEF UndoneOf
    <3>2. t \in Undone' /\ rob'[t].pc = rob[t].pc
      BY <1>2, <1>11, <3>1
    <3> QED BY <1>3, <3>2 DEF UndoneOf
  <2>4. ASSUME NEW t \in NewOf(c, d) PROVE t \in UndoneOf(c)'
    <3>1. PICK i \in DOMAIN d : t = TagPlus(tail, i - 1) /\ ClassOf(d[i].pc) = c
      BY DEF NewOf
    <3>2. t \in Live' /\ rob'[t] = RobEntry(d[i].pc)
      BY <1>4, <1>7, <3>1
    <3> QED BY <1>2, <1>3, <1>8, <3>1, <3>2
  <2> QED BY <2>1, <2>2, <2>3, <2>4
<1>13. ASSUME NEW t \in Undone'
       PROVE  ClassOf(rob'[t].pc) = "none" => Code(rob'[t].pc).op = "csr"
  <2>1. CASE t \in NewTags(d)
    BY <1>2, <1>8, <1>10, <2>1
  <2>2. CASE t \notin NewTags(d)
    BY <1>2, <1>9, <2>2 DEF RingInv, Undone
  <2> QED BY <2>1, <2>2
<1>14. ASSUME NEW t \in Live' PROVE rob'[t].pc \in PC /\ rob'[t].done \in BOOLEAN
  <2>1. CASE t \in NewTags(d)
    BY <1>7, <1>8, <1>10, <2>1
  <2>2. CASE t \notin NewTags(d)
    BY <1>9, <2>2 DEF RingInv
  <2> QED BY <2>1, <2>2
<1> QED BY <1>2, <1>11, <1>12, <1>13, <1>14

-----------------------------------------------------------------------------
(* Issue.                                                                  *)

\* What is issued waits in the station.
LEMMA IssuedFrom ==
  ASSUME StationInv, NEW c \in Class, NEW n
  PROVE  \/ Issued(c, n) = None
         \/ /\ Issued(c, n).tag \in Waiting(c) /\ Issued(c, n).tag \in Tag
            /\ \E e \in Station!Offered(rs[c], head, n) : Issued(c, n).tag = e.tag
<1> DEFINE offer == Station!Offered(rs[c], head, n)
           e == CHOOSE x \in offer : TRUE
<1>1. CASE offer = {}
  BY <1>1 DEF Issued
<1>2. CASE offer # {}
  <2>1. e \in offer
    BY <1>2
  <2>2. offer \subseteq rs[c]
    BY DEF Station!Offered
  <2>3. e \in rs[c] /\ e.tag \in Tag
    BY <2>1, <2>2 DEF StationInv
  <2>4. Issued(c, n).tag = e.tag
    BY <1>2 DEF Issued
  <2> HIDE DEF offer, e
  <2> QED BY <2>1, <2>3, <2>4 DEF Waiting, offer
<1> QED BY <1>1, <1>2

\* The two ALUs are offered different entries.
LEMMA AluSelections ==
  ASSUME StationInv
  PROVE  alu_sel.tag = alu1_sel.tag => alu_sel.tag = NoTag
<1> SUFFICES ASSUME alu_sel.tag = alu1_sel.tag, alu_sel.tag # NoTag PROVE FALSE
  OBVIOUS
<1>1. "alu" \in Class
  BY DEF Class
<1>2. alu_sel # None /\ alu1_sel # None
  BY DEF None
<1>3. PICK e \in Station!Offered(rs["alu"], head, 0) : alu_sel.tag = e.tag
  BY <1>1, <1>2, IssuedFrom DEF alu_sel
<1>4. PICK f \in Station!Offered(rs["alu"], head, 1) : alu1_sel.tag = f.tag
  BY <1>1, <1>2, IssuedFrom DEF alu1_sel
<1>5. e \in rs["alu"] /\ f \in rs["alu"] /\ e # f
  BY DEF Station!Offered
<1>6. e = f
  BY <1>1, <1>3, <1>4, <1>5 DEF StationInv
<1> QED BY <1>5, <1>6

\* What of a class moves from the station to the unit.
Taken(c, recover) ==
  CASE c = "alu" -> wk
    [] c = "br"  -> {br_sel.tag}
    [] c = "mul" -> IF mul_advance THEN {mul_sel.tag} ELSE {}
    [] c = "div" -> IF div_start(recover) THEN {div_sel.tag} ELSE {}

LEMMA TakenWaits ==
  ASSUME StationInv, NEW c \in Class, NEW recover
  PROVE  Taken(c, recover) \ {NoTag} \subseteq Waiting(c)
<1>1. None.tag = NoTag
  BY DEF None
<1>2. \A b \in Class : \A n : Issued(b, n).tag = NoTag \/ Issued(b, n).tag \in Waiting(b)
  BY <1>1, IssuedFrom
<1>3. CASE c = "alu"
  BY <1>2, <1>3 DEF Taken, wk, alu_sel, alu1_sel
<1>4. CASE c = "br"
  BY <1>2, <1>4 DEF Taken, br_sel
<1>5. CASE c = "mul"
  BY <1>2, <1>5 DEF Taken, mul_sel
<1>6. CASE c = "div"
  BY <1>2, <1>6 DEF Taken, div_sel
<1> QED BY <1>3, <1>4, <1>5, <1>6 DEF Class

-----------------------------------------------------------------------------
(* The stations over a cycle.                                              *)

\* The number of slots of a station is a number.
LEMMA SlotsType == \A c \in Class : Slots[c] \in Nat
BY CoreAssumption DEF Slots, Class

\* What is inserted fits into the free slots, since dispatch asked for room.
LEMMA InsertedFits ==
  ASSUME StationInv, NEW d, Dispatched(d), NEW c \in Class
  PROVE  /\ IsFiniteSet(Inserted(c, d)) /\ Cardinality(Inserted(c, d)) \in Nat
         /\ Cardinality(rs[c]) + Cardinality(Inserted(c, d)) <= Slots[c]
<1> DEFINE ins == Inserted(c, d)
           free == Slots[c] - Cardinality(rs[c])
<1>1. Cardinality(rs[c]) \in Nat /\ Slots[c] \in Nat /\ free >= 0 /\ free \in Nat
  BY SlotsType, FS_CardinalityType DEF StationInv
<1>2. \A p : ClassOf(p) = c => (Room(p, 1) => free >= 1) /\ (Room(p, 2) => free >= 2)
  BY DEF Room, Class
<1>3. SUFFICES IsFiniteSet(ins) /\ Cardinality(ins) \in Nat /\ Cardinality(ins) <= free
  BY <1>1
<1>4. \A e : e \in ins <=> \E i \in DOMAIN d : ClassOf(d[i].pc) = c /\ e = RsEntry(d, i)
  BY DEF Inserted
<1> HIDE DEF ins, free
<1>5. CASE d = <<>>
  <2>1. ins = {}
    BY <1>4, <1>5
  <2> QED BY <1>1, <2>1, FS_EmptySet
<1>6. ASSUME NEW x, ins \subseteq {x}, ins # {} => free >= 1
      PROVE  IsFiniteSet(ins) /\ Cardinality(ins) \in Nat /\ Cardinality(ins) <= free
  <2>1. CASE ins = {}
    BY <1>1, <2>1, FS_EmptySet
  <2>2. CASE ins = {x}
    <3>1. IsFiniteSet(ins) /\ Cardinality(ins) = 1
      BY <2>2, FS_Singleton
    <3>2. free >= 1
      BY <1>6, <2>2
    <3> QED BY <1>1, <3>1, <3>2
  <2>3. ins = {} \/ ins = {x}
    BY <1>6
  <2> QED BY <2>1, <2>2, <2>3
<1>7. CASE \E s : d = <<s>> /\ Step(s) /\ CanDispatch0(s.pc)
  <2>1. PICK s : d = <<s>> /\ CanDispatch0(s.pc)
    BY <1>7
  <2>2. DOMAIN d = {1} /\ d[1] = s
    BY <2>1
  <2>3. ins \subseteq {RsEntry(d, 1)} /\ (ins # {} => ClassOf(s.pc) = c)
    BY <1>4, <2>2
  <2>4. ins # {} => free >= 1
    BY <1>2, <2>1, <2>3 DEF CanDispatch0
  <2> QED BY <1>6, <2>3, <2>4
<1>8. CASE \E s, t : /\ d = <<s, t>> /\ Step(s) /\ Step(t)
                     /\ CanDispatch0(s.pc) /\ CanDispatch1(s.pc, t.pc)
  <2>1. PICK s, t : d = <<s, t>> /\ CanDispatch0(s.pc) /\ CanDispatch1(s.pc, t.pc)
    BY <1>8
  <2>2. DOMAIN d = {1, 2} /\ d[1] = s /\ d[2] = t
    BY <2>1
  <2>3. Room(s.pc, 1) /\ Room(t.pc, IF ClassOf(t.pc) = ClassOf(s.pc) THEN 2 ELSE 1)
    BY <2>1 DEF CanDispatch0, CanDispatch1
  <2>4. CASE ClassOf(s.pc) = c /\ ClassOf(t.pc) = c
    <3>1. ins = {RsEntry(d, 1)} \cup {RsEntry(d, 2)}
      BY <1>4, <2>2, <2>4
    <3>2. free >= 2
      BY <1>2, <2>3, <2>4
    <3>3. IsFiniteSet({RsEntry(d, 1)}) /\ Cardinality({RsEntry(d, 1)}) = 1
      BY FS_Singleton
    <3>4. IsFiniteSet(ins) /\ (Cardinality(ins) = 1 \/ Cardinality(ins) = 2)
      BY <3>1, <3>3, FS_AddElement
    <3> QED BY <1>1, <3>2, <3>4
  <2>5. CASE ClassOf(s.pc) = c /\ ClassOf(t.pc) # c
    <3>1. ins \subseteq {RsEntry(d, 1)}
      BY <1>4, <2>2, <2>5
    <3>2. free >= 1
      BY <1>2, <2>3, <2>5
    <3> QED BY <1>6, <3>1, <3>2
  <2>6. CASE ClassOf(s.pc) # c /\ ClassOf(t.pc) = c
    <3>1. ins \subseteq {RsEntry(d, 2)}
      BY <1>4, <2>2, <2>6
    <3>2. Room(t.pc, 1)
      BY <2>3, <2>6
    <3>3. free >= 1
      BY <1>2, <2>6, <3>2
    <3> QED BY <1>6, <3>1, <3>3
  <2>7. CASE ClassOf(s.pc) # c /\ ClassOf(t.pc) # c
    <3>1. ins = {}
      BY <1>4, <2>2, <2>7
    <3> QED BY <1>1, <3>1, FS_EmptySet
  <2> QED BY <2>4, <2>5, <2>6, <2>7
<1> QED BY <1>5, <1>7, <1>8 DEF Dispatched

\* A new entry has the tag of its instruction and operands that are there or
\* waited for; waking changes neither the tag nor that.
LEMMA EntryShapes ==
  /\ \A d, i : /\ RsEntry(d, i).tag = TagPlus(tail, i - 1)
               /\ RsEntry(d, i).o1.st \in {"val", "wait"}
               /\ RsEntry(d, i).o2.st \in {"val", "wait"}
  /\ \A e, w : /\ Station!WokenEntry(e, Cdb, w).tag = e.tag
               /\ Station!WokenEntry(e, Cdb, w).o1 = Station!Woken(e.o1, Cdb, w)
               /\ Station!WokenEntry(e, Cdb, w).o2 = Station!Woken(e.o2, Cdb, w)
  /\ \A o, w : o.st \in Operands => Station!Woken(o, Cdb, w).st \in Operands
<1>1. \A r : Operand(r).st \in {"val", "wait"}
  BY DEF Operand, Station!Value, Station!Wait
<1>2. \A r, p : Operand1(r, p).st \in {"val", "wait"}
  BY <1>1 DEF Operand1, Station!Wait
<1>3. \A d, i : /\ RsEntry(d, i).tag = TagPlus(tail, i - 1)
                /\ RsEntry(d, i).o1.st \in {"val", "wait"}
                /\ RsEntry(d, i).o2.st \in {"val", "wait"}
  BY <1>1, <1>2 DEF RsEntry
<1>4. \A e, w : /\ Station!WokenEntry(e, Cdb, w).tag = e.tag
                /\ Station!WokenEntry(e, Cdb, w).o1 = Station!Woken(e.o1, Cdb, w)
                /\ Station!WokenEntry(e, Cdb, w).o2 = Station!Woken(e.o2, Cdb, w)
  BY DEF Station!WokenEntry
<1>5. \A o, w : o.st \in Operands => Station!Woken(o, Cdb, w).st \in Operands
  BY DEF Station!Woken, Station!Value, Operands
<1> QED BY <1>3, <1>4, <1>5

\* The entries that are kept in a cycle.
Kept(c, taken, recover) ==
  {e \in rs[c] : e.tag \notin taken /\ ~(recover /\ Younger(e.tag, br_e.tag))}

\* A station keeps what is neither taken nor squashed and adds what comes in,
\* all of it woken; it never overflows.
LEMMA StationStep ==
  ASSUME RingInv, StationInv, PlaceInv, NEW d, Dispatched(d), NEW c \in Class,
         NEW taken, NEW recover \in BOOLEAN,
         NEW new, new = NextStation(c, d, taken, recover)
  PROVE  /\ IsFiniteSet(new) /\ Cardinality(new) <= Slots[c]
         /\ \A e \in new : e.tag \in Tag /\ e.o1.st \in Operands /\ e.o2.st \in Operands
         /\ \A e, f \in new : e.tag = f.tag => e = f
         /\ {e.tag : e \in new} =
              ((Waiting(c) \ taken) \ Squashed(recover)) \cup NewOf(c, d)
<1> DEFINE w == IF c = "div" THEN {} ELSE wk
           kept == Kept(c, taken, recover)
           ins == Inserted(c, d)
           all == kept \cup ins
           W(e) == Station!WokenEntry(e, Cdb, w)
<1>1. new = {W(e) : e \in all}
  BY DEF NextStation, Kept
<1>2. /\ IsFiniteSet(rs[c]) /\ Cardinality(rs[c]) \in Nat
      /\ \A e \in rs[c] : e.tag \in Tag /\ e.o1.st \in Operands /\ e.o2.st \in Operands
      /\ \A e, f \in rs[c] : e.tag = f.tag => e = f
  BY FS_CardinalityType DEF StationInv
<1>3. kept \subseteq rs[c] /\ IsFiniteSet(kept) /\ Cardinality(kept) <= Cardinality(rs[c])
      /\ Cardinality(kept) \in Nat
  <2>1. kept \in SUBSET rs[c]
    BY DEF Kept
  <2> HIDE DEF kept
  <2> QED BY <1>2, <2>1, FS_Subset, FS_CardinalityType
<1>4. IsFiniteSet(ins) /\ Cardinality(ins) \in Nat
      /\ Cardinality(rs[c]) + Cardinality(ins) <= Slots[c]
  BY InsertedFits
<1>5. IsFiniteSet(all) /\ Cardinality(all) <= Slots[c] /\ Cardinality(all) \in Nat
  <2> HIDE DEF kept, ins
  <2>1. IsFiniteSet(all)
        /\ Cardinality(all) = Cardinality(kept) + Cardinality(ins) - Cardinality(kept \cap ins)
    BY <1>3, <1>4, FS_Union
  <2>2. Cardinality(kept \cap ins) \in Nat
    BY <1>3, FS_Intersection, FS_CardinalityType
  <2> QED BY <1>2, <1>3, <1>4, <2>1, <2>2, SlotsType, FS_CardinalityType
<1>6. IsFiniteSet(new) /\ Cardinality(new) <= Slots[c]
  <2> DEFINE f == [e \in all |-> W(e)]
  <2>1. f \in Surjection(all, new)
    <3> HIDE DEF all, W
    <3>1. f \in [all -> new]
      BY <1>1
    <3>2. \A y \in new : \E e \in all : f[e] = y
      BY <1>1
    <3> HIDE DEF f
    <3> QED BY <3>1, <3>2 DEF Surjection
  <2> HIDE DEF f, all
  <2>2. IsFiniteSet(new) /\ Cardinality(new) <= Cardinality(all)
    BY <1>5, <2>1, FS_Surjection
  <2>3. Cardinality(new) \in Nat
    BY <2>2, FS_CardinalityType
  <2> QED BY <1>5, <2>2, <2>3, SlotsType
<1>7. \A e \in ins : \E i \in DOMAIN d : ClassOf(d[i].pc) = c /\ e = RsEntry(d, i)
  BY DEF Inserted
<1>8. \A i \in DOMAIN d : ClassOf(d[i].pc) = c => RsEntry(d, i) \in ins
  BY DEF Inserted
<1>9. \A e : e \in kept <=> e \in rs[c] /\ e.tag \notin taken /\ e.tag \notin Squashed(recover)
  <2>1. \A e \in rs[c] : e.tag \in Live
    BY DEF PlaceInv, Waiting, UndoneOf, Undone
  <2> QED BY <2>1 DEF Kept, Squashed
<1>10. \A e : W(e).tag = e.tag
  BY EntryShapes
<1>11. \A e \in all : /\ e.tag \in Tag
                      /\ W(e).o1.st \in Operands /\ W(e).o2.st \in Operands
  <2>1. \A e \in ins : e.tag \in Tag /\ e.o1.st \in Operands /\ e.o2.st \in Operands
    BY <1>7, EntryShapes, DispatchFacts DEF Operands
  <2>2. \A e \in all : e.tag \in Tag /\ e.o1.st \in Operands /\ e.o2.st \in Operands
    BY <1>2, <1>3, <2>1
  <2> HIDE DEF all
  <2> QED BY <2>2, EntryShapes
<1>12. \A e, f \in all : e.tag = f.tag => e = f
  <2>1. \A e \in kept : e.tag \in Live
    BY <1>3 DEF PlaceInv, Waiting, UndoneOf, Undone
  <2>2. \A e \in ins : e.tag \in NewTags(d)
    BY <1>7, EntryShapes DEF NewTags
  <2>3. NewTags(d) \cap Live = {}
    <3>1. \A t \in Live : t \in Tag /\ ~(used <= TagAge(t, head))
      <4>1. \A t \in Live : t \in Tag /\ TagAge(t, head) < used
        BY DEF Live, RingInv
      <4>2. used \in Int /\ \A t \in Tag : TagAge(t, head) \in Int
        BY TagAgeType DEF RingInv
      <4> QED BY <4>1, <4>2
    <3> QED BY <3>1, DispatchFacts
  <2>4. \A e, f \in ins : e.tag = f.tag => e = f
    <3> SUFFICES ASSUME NEW e \in ins, NEW f \in ins, e.tag = f.tag PROVE e = f
      OBVIOUS
    <3>1. PICK i \in DOMAIN d : e = RsEntry(d, i)
      BY <1>7
    <3>2. PICK j \in DOMAIN d : f = RsEntry(d, j)
      BY <1>7
    <3>3. TagPlus(tail, i - 1) = TagPlus(tail, j - 1)
      BY <3>1, <3>2, EntryShapes
    <3>4. i \in Int /\ j \in Int /\ used + i - 1 = used + j - 1 /\ used \in Int
      BY <3>3, DispatchFacts DEF RingInv
    <3> QED BY <3>1, <3>2, <3>4
  <2> HIDE DEF kept, ins
  <2> QED BY <1>2, <1>3, <2>1, <2>2, <2>3, <2>4
<1>13. {e.tag : e \in new} = ((Waiting(c) \ taken) \ Squashed(recover)) \cup NewOf(c, d)
  <2>1. \A t : t \in {e.tag : e \in new} <=> \E e \in all : t = e.tag
    <3> HIDE DEF all, W
    <3> QED BY <1>1, <1>10
  <2>2. \A t : (\E e \in kept : t = e.tag) <=> t \in (Waiting(c) \ taken) \ Squashed(recover)
    <3> HIDE DEF kept
    <3> QED BY <1>9 DEF Waiting
  <2>3. \A t : (\E e \in ins : t = e.tag) <=> t \in NewOf(c, d)
    <3>1. ASSUME NEW e \in ins PROVE e.tag \in NewOf(c, d)
      BY <1>7, EntryShapes DEF NewOf
    <3>2. ASSUME NEW t \in NewOf(c, d) PROVE \E e \in ins : t = e.tag
      BY <1>8, EntryShapes DEF NewOf
    <3> QED BY <3>1, <3>2
  <2> HIDE DEF kept, ins
  <2>4. \A t : t \in {e.tag : e \in new} <=>
                 t \in ((Waiting(c) \ taken) \ Squashed(recover)) \cup NewOf(c, d)
    BY <2>1, <2>2, <2>3
  <2> QED BY <2>4
<1>14. /\ \A e \in new : e.tag \in Tag /\ e.o1.st \in Operands /\ e.o2.st \in Operands
       /\ \A e, f \in new : e.tag = f.tag => e = f
  <2> HIDE DEF all, W
  <2> QED BY <1>1, <1>10, <1>11, <1>12
<1> QED BY <1>6, <1>13, <1>14

-----------------------------------------------------------------------------
(* The units over a cycle.                                                 *)

\* What survives a recovery.
LEMMA SurvivingTag ==
  ASSUME NEW x, NEW recover \in BOOLEAN, NEW gone, gone.tag = NoTag,
         x.tag # NoTag => x.tag \in Live
  PROVE  /\ Surviving(x, recover, gone) = IF x.tag \in Squashed(recover) THEN gone ELSE x
         /\ {Surviving(x, recover, gone).tag} \ {NoTag} =
              ({x.tag} \ {NoTag}) \ Squashed(recover)
<1>1. NoTag \notin Live
  BY CoreAssumption DEF Live
<1>2. Surviving(x, recover, gone) = IF x.tag \in Squashed(recover) THEN gone ELSE x
  BY <1>1 DEF Surviving, Squashed
<1> QED BY <1>1, <1>2

\* What executes in a class after a cycle is what did, less what left, and
\* what was taken, less what was squashed.
LEMMA UnitStep ==
  ASSUME RingInv, UnitInv, StationInv, PlaceInv, NEW d, NEW recover \in BOOLEAN,
         NEW finish \in BOOLEAN, Advance(d, recover, finish)
  PROVE  /\ UnitInv'
         /\ \A c \in Class :
              Executing(c)' = ((Executing(c) \ Leaving(c)) \cup (Taken(c, recover) \ {NoTag}))
                                \ Squashed(recover)
<1>1. /\ None.tag = NoTag /\ Bubble.tag = NoTag /\ NoDivision.tag = NoTag
      /\ NoDivision.done = FALSE /\ NoTag \notin Tag
  BY CoreAssumption DEF None, Bubble, NoDivision
<1>2. /\ \A c \in Class : Waiting(c) \subseteq Live /\ Executing(c) \subseteq Live
      /\ Live \subseteq Tag
  BY DEF PlaceInv, UndoneOf, Undone, Live
<1>3. \A c \in Class : \A n : \/ Issued(c, n) = None
                              \/ Issued(c, n).tag \in Live /\ Issued(c, n).tag \in Tag
  BY <1>2, IssuedFrom
<1>4. /\ alu_sel = None \/ (alu_sel.tag \in Live /\ alu_sel.tag \in Tag)
      /\ alu1_sel = None \/ (alu1_sel.tag \in Live /\ alu1_sel.tag \in Tag)
      /\ br_sel = None \/ (br_sel.tag \in Live /\ br_sel.tag \in Tag)
      /\ mul_sel = None \/ (mul_sel.tag \in Live /\ mul_sel.tag \in Tag)
      /\ div_sel = None \/ (div_sel.tag \in Live /\ div_sel.tag \in Tag)
  BY <1>3 DEF alu_sel, alu1_sel, br_sel, mul_sel, div_sel, Class
<1>5. \A x \in {alu_sel, alu1_sel, br_sel, div_sel} :
        LET y == Surviving(x, recover, None)
        IN  /\ y = IF x.tag \in Squashed(recover) THEN None ELSE x
            /\ {y.tag} \ {NoTag} = ({x.tag} \ {NoTag}) \ Squashed(recover)
  BY <1>1, <1>4, SurvivingTag
<1>6. /\ alu_e' = Surviving(alu_sel, recover, None)
      /\ alu1_e' = Surviving(alu1_sel, recover, None)
      /\ br_e' = Surviving(br_sel, recover, None)
      /\ mul' = NextMul(recover) /\ div' = NextDiv(recover, finish)
  BY DEF Advance
<1>7. /\ alu_e' = None \/ alu_e'.tag \in Tag
      /\ alu1_e' = None \/ alu1_e'.tag \in Tag
      /\ br_e' = None \/ br_e'.tag \in Tag
      /\ alu_e'.tag = alu1_e'.tag => alu_e'.tag = NoTag
  BY <1>1, <1>4, <1>5, <1>6, AluSelections
<1>8. /\ {alu_e'.tag} \ {NoTag} = ({alu_sel.tag} \ {NoTag}) \ Squashed(recover)
      /\ {alu1_e'.tag} \ {NoTag} = ({alu1_sel.tag} \ {NoTag}) \ Squashed(recover)
      /\ {br_e'.tag} \ {NoTag} = ({br_sel.tag} \ {NoTag}) \ Squashed(recover)
  BY <1>5, <1>6
<1>9. Executing("alu")' =
        ((Executing("alu") \ Leaving("alu")) \cup (Taken("alu", recover) \ {NoTag}))
          \ Squashed(recover)
  <2>1. /\ Executing("alu")' = {alu_e'.tag, alu1_e'.tag} \ {NoTag}
        /\ Executing("alu") = Leaving("alu") /\ Taken("alu", recover) = wk
    BY DEF Executing, Leaving, Taken
  <2>2. wk \ {NoTag} = {alu_sel.tag, alu1_sel.tag} \ {NoTag}
    BY DEF wk
  <2> QED BY <1>8, <2>1, <2>2
<1>10. Executing("br")' =
         ((Executing("br") \ Leaving("br")) \cup (Taken("br", recover) \ {NoTag}))
           \ Squashed(recover)
  <2>1. /\ Executing("br")' = {br_e'.tag} \ {NoTag}
        /\ Executing("br") = Leaving("br") /\ Taken("br", recover) = {br_sel.tag}
    BY DEF Executing, Leaving, Taken
  <2> QED BY <1>8, <2>1
<1> DEFINE Stage == 1 .. MUL_STAGES
           incoming == [s \in Stage |->
             IF ~mul_advance THEN mul[s]
             ELSE IF s > 1 THEN mul[s - 1]
             ELSE IF mul_sel = None THEN Bubble
             ELSE [tag |-> mul_sel.tag, val |-> Result(mul_sel.tag, mul_sel.v1, mul_sel.v2)]]
<1>11. MUL_STAGES \in Nat /\ MUL_STAGES >= 1
  BY CoreAssumption
<1>12. \A s \in Stage : mul[s] = Bubble \/ (mul[s].tag \in Tag /\ mul[s].tag \in Live
                                            /\ mul[s].tag \in Executing("mul"))
  <2>1. \A s \in Stage : mul[s].tag \in Tag => mul[s].tag \in Executing("mul")
    BY <1>1 DEF Executing
  <2>2. "mul" \in Class
    BY DEF Class
  <2> QED BY <1>2, <2>1, <2>2 DEF UnitInv
<1>13. \A s \in Stage : incoming[s] = Bubble \/ (incoming[s].tag \in Tag /\ incoming[s].tag \in Live)
  <2>1. \A s \in Stage : s > 1 => s - 1 \in Stage
    BY <1>11
  <2> QED BY <1>4, <1>12, <2>1
<1>14. \A s \in Stage :
         /\ mul'[s] = IF incoming[s].tag \in Squashed(recover) THEN Bubble ELSE incoming[s]
         /\ {mul'[s].tag} \ {NoTag} = ({incoming[s].tag} \ {NoTag}) \ Squashed(recover)
  <2>1. \A s \in Stage : mul'[s] = Surviving(incoming[s], recover, Bubble)
    BY <1>6 DEF NextMul
  <2> HIDE DEF incoming
  <2> QED BY <1>1, <1>13, <2>1, SurvivingTag
<1>15. {incoming[s].tag : s \in Stage} \ {NoTag} =
         (Executing("mul") \ Leaving("mul")) \cup (Taken("mul", recover) \ {NoTag})
  <2>1. /\ Executing("mul") = {mul[s].tag : s \in Stage} \ {NoTag}
        /\ Leaving("mul") = IF GrantedTo(MUL_REQ) THEN {mul_out.tag} ELSE {}
        /\ Taken("mul", recover) = IF mul_advance THEN {mul_sel.tag} ELSE {}
    BY DEF Executing, Leaving, Taken
  <2>2. CASE ~mul_advance
    <3>1. ~GrantedTo(MUL_REQ)
      BY <2>2 DEF mul_advance
    <3>2. \A s \in Stage : incoming[s] = mul[s]
      BY <2>2
    <3> HIDE DEF incoming
    <3> QED BY <2>1, <2>2, <3>1, <3>2
  <2>3. CASE mul_advance
    <3>1. mul_out.tag = NoTag \/ GrantedTo(MUL_REQ)
      BY <2>3 DEF mul_advance
    <3>2. MUL_STAGES \in Stage /\ mul_out = mul[MUL_STAGES] /\ 1 \in Stage
      BY <1>11 DEF mul_out
    <3>3. incoming[1].tag = mul_sel.tag
      BY <1>1, <2>3, <3>2
    <3>4. \A s \in Stage : s > 1 => s - 1 \in Stage /\ incoming[s] = mul[s - 1]
      BY <1>11, <2>3
    <3>5. \A s \in Stage : s # MUL_STAGES => s + 1 \in Stage /\ s + 1 > 1 /\ incoming[s + 1] = mul[s]
      <4>1. \A s \in Stage : s # MUL_STAGES => s + 1 \in Stage /\ s + 1 > 1 /\ (s + 1) - 1 = s
        BY <1>11
      <4> HIDE DEF incoming
      <4> QED BY <3>4, <4>1
    <3>6. \A s \in Stage : mul[s].tag = mul_out.tag => s = MUL_STAGES \/ mul_out.tag = NoTag
      BY <3>2 DEF UnitInv
    <3>7. \A s \in Stage : s = 1 \/ s > 1
      BY <1>11
    <3>8. \A s \in Stage : s - 1 = MUL_STAGES => FALSE
      BY <1>11
    <3> DEFINE tags == {incoming[s].tag : s \in Stage} \ {NoTag}
               stay == {mul[s].tag : s \in Stage \ {MUL_STAGES}} \ {NoTag}
    <3>9. tags = stay \cup ({mul_sel.tag} \ {NoTag})
      <4> HIDE DEF incoming
      <4>1. ASSUME NEW t \in tags PROVE t \in stay \cup ({mul_sel.tag} \ {NoTag})
        <5>1. PICK s \in Stage : t = incoming[s].tag /\ t # NoTag
          BY <4>1
        <5>2. CASE s = 1
          BY <3>3, <5>1, <5>2
        <5>3. CASE s > 1
          <6>1. s - 1 \in Stage \ {MUL_STAGES} /\ t = mul[s - 1].tag
            BY <3>4, <3>8, <5>1, <5>3
          <6> QED BY <5>1, <6>1
        <5> QED BY <3>7, <5>2, <5>3
      <4>2. ASSUME NEW t \in stay PROVE t \in tags
        <5>1. PICK s \in Stage : s # MUL_STAGES /\ t = mul[s].tag /\ t # NoTag
          BY <4>2
        <5>2. s + 1 \in Stage /\ incoming[s + 1] = mul[s]
          BY <3>5, <5>1
        <5> QED BY <5>1, <5>2
      <4>3. ASSUME mul_sel.tag # NoTag PROVE mul_sel.tag \in tags
        BY <3>2, <3>3, <4>3
      <4> HIDE DEF tags, stay
      <4> QED BY <4>1, <4>2, <4>3
    <3>10. stay = Executing("mul") \ Leaving("mul")
      <4>1. Leaving("mul") \ {NoTag} = {mul_out.tag} \ {NoTag}
        BY <2>1, <3>1
      <4>2. \A t : t \in stay <=> t # NoTag /\ \E s \in Stage : s # MUL_STAGES /\ t = mul[s].tag
        OBVIOUS
      <4>3. \A t : t \in Executing("mul") <=> t # NoTag /\ \E s \in Stage : t = mul[s].tag
        BY <2>1
      <4> HIDE DEF stay
      <4> QED BY <3>2, <3>6, <4>1, <4>2, <4>3
    <3> HIDE DEF tags, stay
    <3> QED BY <2>1, <2>3, <3>9, <3>10 DEF tags
  <2> QED BY <2>2, <2>3
<1>16. Executing("mul")' =
         ((Executing("mul") \ Leaving("mul")) \cup (Taken("mul", recover) \ {NoTag}))
           \ Squashed(recover)
  <2>1. Executing("mul")' = {mul'[s].tag : s \in Stage} \ {NoTag}
    BY DEF Executing
  <2> HIDE DEF incoming
  <2>2. {mul'[s].tag : s \in Stage} \ {NoTag} =
          ({incoming[s].tag : s \in Stage} \ {NoTag}) \ Squashed(recover)
    <3>1. \A s \in Stage : \A t : /\ mul'[s].tag = t /\ t # NoTag
                                  <=> incoming[s].tag = t /\ t # NoTag /\ t \notin Squashed(recover)
      BY <1>14
    <3> QED BY <3>1
  <2> QED BY <1>15, <2>1, <2>2
<1>17. /\ \A s \in Stage : mul'[s] = Bubble \/ mul'[s].tag \in Tag
       /\ \A s, u \in Stage : mul'[s].tag = mul'[u].tag => s = u \/ mul'[s].tag = NoTag
  <2>1. \A s, u \in Stage :
          incoming[s].tag = incoming[u].tag => s = u \/ incoming[s].tag = NoTag
    <3>1. CASE ~mul_advance
      BY <3>1 DEF UnitInv
    <3>2. CASE mul_advance
      <4>1. \A s \in Stage : s = 1 \/ (s > 1 /\ s - 1 \in Stage)
        BY <1>11
      <4>2. /\ 1 \in Stage /\ incoming[1].tag = mul_sel.tag
            /\ \A s \in Stage : s > 1 => incoming[s] = mul[s - 1]
        BY <1>1, <1>11, <3>2
      <4>3. \A s \in Stage : mul[s].tag = mul_sel.tag => mul_sel.tag = NoTag
        <5>1. mul_sel = None \/ mul_sel.tag \in Waiting("mul")
          BY IssuedFrom DEF mul_sel, Class
        <5>2. Waiting("mul") \cap Executing("mul") = {}
          BY DEF PlaceInv, Class
        <5> QED BY <1>1, <1>12, <5>1, <5>2
      <4>4. \A s, u \in Stage : s - 1 = u - 1 => s = u
        BY <1>11
      <4> HIDE DEF incoming
      <4>5. ASSUME NEW s \in Stage, NEW u \in Stage, incoming[s].tag = incoming[u].tag
            PROVE  s = u \/ incoming[s].tag = NoTag
        <5>1. CASE s = 1 /\ u > 1
          BY <4>1, <4>2, <4>3, <4>5, <5>1
        <5>2. CASE u = 1 /\ s > 1
          BY <4>1, <4>2, <4>3, <4>5, <5>2
        <5>3. CASE s > 1 /\ u > 1
          BY <4>1, <4>2, <4>4, <4>5, <5>3 DEF UnitInv
        <5> QED BY <4>1, <5>1, <5>2, <5>3
      <4> QED BY <4>5
    <3> QED BY <3>1, <3>2
  <2> HIDE DEF incoming
  <2> QED BY <1>1, <1>13, <1>14, <2>1
<1>18. /\ div' = NoDivision \/ div'.tag \in Tag
       /\ div'.done \in BOOLEAN
       /\ Executing("div")' =
            ((Executing("div") \ Leaving("div")) \cup (Taken("div", recover) \ {NoTag}))
              \ Squashed(recover)
  <2>1. /\ Executing("div")' = {div'.tag} \ {NoTag}
        /\ Executing("div") = {div.tag} \ {NoTag}
        /\ Leaving("div") = IF GrantedTo(DIV_REQ) THEN {div.tag} ELSE {}
        /\ Taken("div", recover) = IF div_start(recover) THEN {div_sel.tag} ELSE {}
    BY DEF Executing, Leaving, Taken
  <2>2. GrantedTo(DIV_REQ) => div.done /\ div.tag # NoTag
    BY GrantFacts DEF GrantedTo, DIV_REQ
  <2>3. CASE div = NoDivision
    <3>1. div_start(recover) <=> Surviving(div_sel, recover, None) # None
      BY <2>3 DEF div_start
    <3>2. CASE div_start(recover)
      <4>1. div_sel.tag \in Tag /\ div_sel.tag \notin Squashed(recover)
        BY <1>4, <1>5, <3>1, <3>2
      <4>2. div'.tag = div_sel.tag /\ div'.done = FALSE
        BY <1>6, <2>3, <3>2 DEF NextDiv
      <4> QED BY <1>1, <2>1, <2>2, <2>3, <3>2, <4>1, <4>2
    <3>3. CASE ~div_start(recover)
      <4>1. div' = NoDivision
        BY <1>6, <2>3, <3>3 DEF NextDiv
      <4> QED BY <1>1, <2>1, <2>2, <2>3, <3>3, <4>1
    <3> QED BY <3>2, <3>3
  <2>4. CASE div # NoDivision
    <3>1. div.tag \in Tag /\ div.tag \in Live
      BY <1>1, <1>2, <2>1, <2>4 DEF UnitInv, Class
    <3>2. Surviving(div, recover, NoDivision) =
            IF div.tag \in Squashed(recover) THEN NoDivision ELSE div
      BY <1>1, <3>1, SurvivingTag
    <3>3. ~div_start(recover)
      BY <2>4 DEF div_start
    <3>4. CASE div.tag \in Squashed(recover)
      <4>1. div' = NoDivision
        BY <1>6, <2>4, <3>2, <3>4 DEF NextDiv
      <4> QED BY <1>1, <2>1, <3>3, <3>4, <4>1
    <3>5. CASE div.tag \notin Squashed(recover) /\ div.done
      <4>1. div' = IF GrantedTo(DIV_REQ) THEN NoDivision ELSE div
        BY <1>6, <2>4, <3>2, <3>5 DEF NextDiv
      <4> QED BY <1>1, <2>1, <3>1, <3>3, <3>5, <4>1 DEF UnitInv
    <3>6. CASE div.tag \notin Squashed(recover) /\ ~div.done
      <4>1. div'.tag = div.tag /\ div'.done = finish
        BY <1>6, <2>4, <3>2, <3>6 DEF NextDiv
      <4> QED BY <1>1, <2>1, <2>2, <3>1, <3>3, <3>6, <4>1
    <3> QED BY <3>4, <3>5, <3>6
  <2> QED BY <2>3, <2>4
<1>19. UnitInv'
  BY <1>7, <1>17, <1>18 DEF UnitInv, None, Bubble, NoDivision
<1>20. \A c \in Class : c \in {"alu", "br", "mul", "div"}
  BY DEF Class
<1> QED BY <1>9, <1>10, <1>16, <1>18, <1>19, <1>20

-----------------------------------------------------------------------------
(* Everything but the wake-ups over a cycle.                               *)

\* Whatever advances, nothing is lost and nothing is in two places.
LEMMA AdvanceKeepsPlaces ==
  ASSUME RingInv, UnitInv, StationInv, PlaceInv, NEW d, Dispatched(d),
         NEW recover \in BOOLEAN, NEW finish \in BOOLEAN,
         recover => d = <<>> /\ mispredict, Advance(d, recover, finish),
         fpc' \in Nat, irq' \in {"off", "pending", "over"}, serial_in_flight' \in BOOLEAN
  PROVE  RingInv' /\ UnitInv' /\ StationInv' /\ PlaceInv'
<1>1. recover => d = <<>> /\ br_e.tag \in Undone
  <2> SUFFICES ASSUME recover PROVE br_e.tag \in Undone
    OBVIOUS
  <2>1. br_e.tag \in Executing("br") /\ "br" \in Class
    BY DEF mispredict, OwnerDriving, Executing, Class
  <2> QED BY <2>1 DEF PlaceInv, UndoneOf
<1>2. prog' = prog /\ epc' = epc
  BY DEF Advance
<1>3. RingInv'
  <2>1. /\ head' \in Tag /\ used' \in 0 .. ROB_SIZE
        /\ \A t \in Tag : rob'[t].live <=> TagAge(t, head') < used'
    BY <1>1, RingStep
  <2>2. /\ \A t \in Live' : rob'[t].pc \in PC /\ rob'[t].done \in BOOLEAN
        /\ \A t \in Undone' : ClassOf(rob'[t].pc) = "none" => Code(rob'[t].pc).op = "csr"
    BY <1>1, UndoneStep
  <2>3. \A t \in Live' : rob'[t].pc \in PC'
    BY <1>2, <2>2 DEF PC
  <2>4. \A t \in Undone' : (ClassOf(rob[t].pc) = "none" => Code(rob[t].pc).op = "csr")'
    BY <1>2, <2>2 DEF ClassOf, Code
  <2>5. prog' \in Programs /\ epc' \in Nat
    BY <1>2 DEF RingInv
  <2> QED BY <2>1, <2>2, <2>3, <2>4, <2>5 DEF RingInv, TagAge
<1>4. /\ UnitInv'
      /\ \A c \in Class :
           Executing(c)' = ((Executing(c) \ Leaving(c)) \cup (Taken(c, recover) \ {NoTag}))
                             \ Squashed(recover)
  BY ONLY RingInv, UnitInv, StationInv, PlaceInv, recover \in BOOLEAN, finish \in BOOLEAN,
          Advance(d, recover, finish), UnitStep
<1>5. \A c \in Class : rs'[c] = NextStation(c, d, Taken(c, recover), recover)
  <2>1. rs' = [alu |-> NextStation("alu", d, wk, recover),
               br  |-> NextStation("br", d, {br_sel.tag}, recover),
               mul |-> NextStation("mul", d, IF mul_advance THEN {mul_sel.tag} ELSE {}, recover),
               div |-> NextStation("div", d, IF div_start(recover) THEN {div_sel.tag} ELSE {},
                                   recover)]
    BY DEF Advance
  <2>2. /\ rs'["alu"] = NextStation("alu", d, Taken("alu", recover), recover)
        /\ rs'["br"] = NextStation("br", d, Taken("br", recover), recover)
        /\ rs'["mul"] = NextStation("mul", d, Taken("mul", recover), recover)
        /\ rs'["div"] = NextStation("div", d, Taken("div", recover), recover)
    BY <2>1 DEF Taken
  <2> QED BY <2>2 DEF Class
<1>6. ASSUME NEW c \in Class
      PROVE  /\ IsFiniteSet(rs'[c]) /\ Cardinality(rs'[c]) <= Slots[c]
             /\ \A e \in rs'[c] : e.tag \in Tag /\ e.o1.st \in Operands /\ e.o2.st \in Operands
             /\ \A e, f \in rs'[c] : e.tag = f.tag => e = f
             /\ Waiting(c)' =
                  ((Waiting(c) \ Taken(c, recover)) \ Squashed(recover)) \cup NewOf(c, d)
  <2>1. PICK new : new = rs'[c]
    OBVIOUS
  <2>2. new = NextStation(c, d, Taken(c, recover), recover)
    BY <1>5, <2>1
  <2>3. /\ IsFiniteSet(new) /\ Cardinality(new) <= Slots[c]
        /\ \A e \in new : e.tag \in Tag /\ e.o1.st \in Operands /\ e.o2.st \in Operands
        /\ \A e, f \in new : e.tag = f.tag => e = f
        /\ {e.tag : e \in new} =
             ((Waiting(c) \ Taken(c, recover)) \ Squashed(recover)) \cup NewOf(c, d)
    BY ONLY RingInv, StationInv, PlaceInv, Dispatched(d), <2>2, recover \in BOOLEAN,
       c \in Class, StationStep
  <2>4. Waiting(c)' = {e.tag : e \in new}
    BY <2>1 DEF Waiting
  <2> QED BY <2>1, <2>3, <2>4
<1>7. StationInv'
  BY <1>6 DEF StationInv
<1>8. ASSUME NEW c \in Class
      PROVE  /\ Waiting(c)' \cup Executing(c)' = UndoneOf(c)'
             /\ Waiting(c)' \cap Executing(c)' = {}
  <2>1. Waiting(c) \cup Executing(c) = UndoneOf(c) /\ Waiting(c) \cap Executing(c) = {}
    BY DEF PlaceInv
  <2>2. Leaving(c) \subseteq Executing(c)
    BY BusFacts
  <2>3. NewOf(c, d) \cap UndoneOf(c) = {}
    <3>1. NewTags(d) \cap Live = {}
      BY <1>1, RingStep
    <3>2. NewOf(c, d) \subseteq NewTags(d) /\ UndoneOf(c) \subseteq Live
      BY DEF NewOf, NewTags, UndoneOf, Undone
    <3> QED BY <3>1, <3>2
  <2>4. Taken(c, recover) \ {NoTag} \subseteq Waiting(c)
    BY TakenWaits
  <2>5. NoTag \notin UndoneOf(c)
    BY CoreAssumption DEF UndoneOf, Undone, Live
  <2>6. UndoneOf(c)' = ((UndoneOf(c) \ Leaving(c)) \ Squashed(recover)) \cup NewOf(c, d)
    BY <1>1, UndoneStep
  <2>7. /\ Executing(c)' = ((Executing(c) \ Leaving(c)) \cup (Taken(c, recover) \ {NoTag}))
                             \ Squashed(recover)
        /\ Waiting(c)' = ((Waiting(c) \ Taken(c, recover)) \ Squashed(recover)) \cup NewOf(c, d)
    BY <1>4, <1>6
  <2>8. PICK W, E, N, L, T, Q, D : /\ W = Waiting(c) /\ E = Executing(c) /\ N = UndoneOf(c)
                                   /\ L = Leaving(c) /\ T = Taken(c, recover)
                                   /\ Q = Squashed(recover) /\ D = NewOf(c, d)
    OBVIOUS
  <2>9. /\ W \cup E = N /\ W \cap E = {} /\ L \subseteq E /\ D \cap N = {}
        /\ T \ {NoTag} \subseteq W /\ NoTag \notin N
    BY ONLY <2>1, <2>2, <2>3, <2>4, <2>5, <2>8
  <2>10. /\ (((W \ T) \ Q) \cup D) \cup (((E \ L) \cup (T \ {NoTag})) \ Q) = ((N \ L) \ Q) \cup D
         /\ (((W \ T) \ Q) \cup D) \cap (((E \ L) \cup (T \ {NoTag})) \ Q) = {}
    BY ONLY <2>9
  <2>11. /\ Waiting(c)' = ((W \ T) \ Q) \cup D
         /\ Executing(c)' = ((E \ L) \cup (T \ {NoTag})) \ Q
         /\ UndoneOf(c)' = ((N \ L) \ Q) \cup D
    BY ONLY <2>6, <2>7, <2>8
  <2> QED BY ONLY <2>10, <2>11
<1>9. PlaceInv'
  BY <1>8 DEF PlaceInv
<1> QED BY <1>3, <1>4, <1>7, <1>9

-----------------------------------------------------------------------------
(* Wake-ups over a cycle.                                                  *)

\* Every set of numbers has a least one.
LEMMA SetHasMin ==
  ASSUME NEW T \in SUBSET Nat, T # {}
  PROVE  \E x \in T : \A y \in T : x <= y
<1> DEFINE R == OpToRel(<, Nat)
<1>1. IsWellFoundedOn(R, Nat)
  BY NatLessThanWellFounded
<1>2. PICK x \in T : \A y \in T : ~ (<<y, x>> \in R)
  <2> HIDE DEF R
  <2> QED BY <1>1, WFMin
<1>3. \A y \in T : <<y, x>> \in R <=> y < x
  BY DEF OpToRel
<1>4. \A y \in T : ~ (y < x)
  <2> HIDE DEF R
  <2> QED BY <1>2, <1>3, Zenon
<1> HIDE DEF R
<1> QED BY <1>4

\* Of the instructions in flight that write a register one is the youngest.
LEMMA NewestWriterExists ==
  ASSUME RingInv, NEW r, Writers(r) # {}
  PROVE  NewestWriter(r) \in Writers(r)
<1>1. /\ ROB_SIZE \in Nat /\ Writers(r) \subseteq Tag
      /\ \A t \in Tag : TagAge(t, head) \in 0 .. ROB_SIZE - 1
  BY RobSizeAssumption, TagAgeType DEF Writers, Live, RingInv
<1> DEFINE T == {ROB_SIZE - TagAge(t, head) : t \in Writers(r)}
<1>2. T \in SUBSET Nat /\ T # {}
  BY <1>1
<1>3. PICK x \in T : \A y \in T : x <= y
  <2> HIDE DEF T
  <2> QED BY <1>2, SetHasMin
<1>4. PICK t \in Writers(r) : x = ROB_SIZE - TagAge(t, head)
  BY <1>3
<1>5. \A u \in Writers(r) : ROB_SIZE - TagAge(t, head) <= ROB_SIZE - TagAge(u, head)
  BY <1>3, <1>4
<1>6. \A u \in Writers(r) : ~Younger(u, t)
  BY <1>1, <1>5 DEF Younger, TagYounger
<1> QED BY <1>6 DEF NewestWriter

\* An operand that is not there at dispatch waits for an unfinished
\* instruction in flight.
LEMMA OperandWaits ==
  ASSUME RingInv, NEW r
  PROVE  Operand(r).st = "wait" => Operand(r).tag \in Undone
<1>1. CASE r = NoReg \/ Writers(r) = {}
  BY <1>1 DEF Operand, Station!Value
<1>2. CASE r # NoReg /\ Writers(r) # {}
  <2>1. NewestWriter(r) \in Live
    BY <1>2, NewestWriterExists DEF Writers
  <2>2. Operand(r) = IF rob[NewestWriter(r)].done
                     THEN Station!Value(rob[NewestWriter(r)].val)
                     ELSE Station!Wait(NewestWriter(r))
    BY <1>2 DEF Operand
  <2> QED BY <2>1, <2>2 DEF Undone, Station!Value, Station!Wait
<1> QED BY <1>1, <1>2

\* Waking by value is by the tags on the buses.
LEMMA WokenFacts ==
  \A o, w :
    LET new == Station!Woken(o, Cdb, w)
    IN  /\ new.st = "wait" => o.st = "wait" /\ new = o /\ o.tag \notin CdbTags /\ o.tag \notin w
        /\ new.st = "spec" => /\ o.tag \notin CdbTags /\ new.tag = o.tag
                              /\ (o.st = "wait" /\ o.tag \in w) \/ o.st = "spec"
<1>1. \A t : Station!Carried(Cdb, t) <=> t \in CdbTags
  BY DEF Station!Carried, CdbTags
<1> QED BY <1>1 DEF Station!Woken, Station!Value

\* What is woken in an entry that stays or comes in waits for an instruction
\* that is still to broadcast, or was selected by an ALU.
LEMMA OperandStep ==
  ASSUME RingInv, UnitInv, StationInv, PlaceInv, NEW d, Dispatched(d),
         NEW recover \in BOOLEAN, NEW finish \in BOOLEAN,
         recover => d = <<>> /\ br_e.tag \in Undone, Advance(d, recover, finish),
         NEW t, t \in Undone \/ t \in NewTags(d), t \notin Squashed(recover),
         NEW o, o.st = "wait" => /\ o.tag \in Undone \/ o.tag \in NewTags(d) \cap Undone'
                                 /\ Younger(t, o.tag),
         o.st = "spec" => o.tag \in {alu_e.tag, alu1_e.tag} \ {NoTag},
         NEW w, w \subseteq wk,
         NEW new, new = Station!Woken(o, Cdb, w)
  PROVE  /\ new.st = "wait" => new.tag \in Undone' /\ TagAge(t, head') > TagAge(new.tag, head')
         /\ new.st = "spec" => new.tag \in {alu_e'.tag, alu1_e'.tag} \ {NoTag}
<1>1. /\ ROB_SIZE \in Nat /\ head \in Tag /\ used \in 0 .. ROB_SIZE
      /\ commit_count \in 0 .. 2 /\ commit_count <= used /\ head' = TagPlus(head, commit_count)
  BY RobSizeAssumption, CommitFacts DEF RingInv, Advance
<1>2. \A u \in Tag : TagAge(u, head) \in 0 .. ROB_SIZE - 1
  BY <1>1, TagAgeType
<1>3. \A u \in Tag : TagAge(u, head') =
        IF TagAge(u, head) >= commit_count THEN TagAge(u, head) - commit_count
        ELSE TagAge(u, head) - commit_count + ROB_SIZE
  BY <1>1, AgeAfterCommit
<1>4. \A u : u \in Undone \/ u \in NewTags(d) =>
               u \in Tag /\ TagAge(u, head) >= commit_count
  <2>1. ASSUME NEW u \in Undone PROVE u \in Tag /\ TagAge(u, head) >= commit_count
    <3>1. u \in Tag /\ ~Retiring(u)
      BY CommitFacts DEF Undone, Live
    <3> QED BY <1>1, <1>2, <3>1 DEF Retiring
  <2>2. ASSUME NEW u \in NewTags(d) PROVE u \in Tag /\ TagAge(u, head) >= commit_count
    <3>1. u \in Tag
      BY DispatchFacts DEF NewTags
    <3>2. used <= TagAge(u, head)
      BY <3>1, DispatchFacts
    <3> QED BY <1>1, <1>2, <3>1, <3>2
  <2> QED BY <2>1, <2>2
<1>5. ASSUME o.st = "wait"
      PROVE  /\ o.tag \notin Squashed(recover)
             /\ TagAge(t, head') > TagAge(o.tag, head')
  <2>1. TagAge(t, head) > TagAge(o.tag, head)
    BY <1>5 DEF Younger, TagYounger
  <2>2. /\ t \in Tag /\ TagAge(t, head) >= commit_count
        /\ o.tag \in Tag /\ TagAge(o.tag, head) >= commit_count
    BY <1>4, <1>5
  <2>3. ASSUME o.tag \in Squashed(recover) PROVE FALSE
    <3>1. recover /\ d = <<>> /\ br_e.tag \in Tag /\ TagAge(o.tag, head) > TagAge(br_e.tag, head)
      BY <2>3 DEF Squashed, Undone, Live, Younger, TagYounger
    <3>2. TagAge(t, head) > TagAge(br_e.tag, head)
      BY <1>1, <1>2, <2>1, <2>2, <3>1
    <3>3. t \in Live
      BY <3>1 DEF NewTags, Undone
    <3> QED BY <3>1, <3>2, <3>3 DEF Squashed, Younger, TagYounger
  <2> QED BY <1>1, <1>2, <1>3, <2>1, <2>2, <2>3
<1>6. /\ new.st = "wait" => o.st = "wait" /\ new = o /\ o.tag \notin CdbTags
      /\ new.st = "spec" => /\ o.tag \notin CdbTags /\ new.tag = o.tag
                            /\ (o.st = "wait" /\ o.tag \in w) \/ o.st = "spec"
  BY WokenFacts
<1>7. "alu" \in Class
  BY DEF Class
<1>8. ASSUME new.st = "wait"
      PROVE  new.tag \in Undone' /\ TagAge(t, head') > TagAge(new.tag, head')
  <2>1. o.tag \in Undone => o.tag \in Undone'
    BY <1>5, <1>6, <1>8, UndoneStep
  <2> QED BY <1>5, <1>6, <1>8, <2>1
<1>9. ASSUME new.st = "spec" PROVE new.tag \in {alu_e'.tag, alu1_e'.tag} \ {NoTag}
  <2>1. CASE o.st = "spec"
    <3>1. o.tag \in Leaving("alu")
      BY <2>1 DEF Leaving
    <3>2. o.tag \in CdbTags
      BY <1>7, <3>1, BusFacts
    <3> QED BY <1>6, <1>9, <3>2
  <2>2. CASE o.st = "wait" /\ o.tag \in w
    <3>1. o.tag \in Taken("alu", recover) \ {NoTag}
      BY <2>2 DEF Taken, wk
    <3>2. o.tag \in Executing("alu")'
      BY <1>5, <1>7, <2>2, <3>1, UnitStep
    <3>3. Executing("alu")' = {alu_e'.tag, alu1_e'.tag} \ {NoTag}
      BY DEF Executing
    <3> QED BY <1>6, <1>9, <3>2, <3>3
  <2> QED BY <1>6, <1>9, <2>1, <2>2
<1> QED BY <1>8, <1>9

\* The first of two new instructions is unfinished.
LEMMA FirstSlotUndone ==
  ASSUME RingInv, UnitInv, StationInv, PlaceInv, NEW d, Dispatched(d), NEW finish \in BOOLEAN,
         Advance(d, FALSE, finish), 2 \in DOMAIN d
  PROVE  /\ TagPlus(tail, 0) = tail /\ tail \in NewTags(d) /\ tail \in Undone'
         /\ TagAge(tail, head) = used
<1>1. Len(d) \in 0 .. 2 /\ DOMAIN d = 1 .. Len(d) /\ used \in Nat
  BY DispatchFacts, RobSizeAssumption DEF RingInv
<1>2. PICK s, t : d = <<s, t>> /\ s.pc \in PC /\ CanDispatch1(s.pc, t.pc)
  BY <1>1 DEF Dispatched, Step
<1>3. d[1] = s /\ 1 \in DOMAIN d
  BY <1>1, <1>2
<1>4. Code(s.pc) \in Instruction /\ ~IsSystem(s.pc) /\ Code(s.pc).op # "exc"
  BY <1>2, ProgramFacts DEF CanDispatch1
<1>5. ClassOf(s.pc) \in Class
  BY <1>4 DEF Instruction, Operation, IsSystem, ClassOf, Class
<1>6. TagPlus(tail, 0) = tail
  BY RobSizeAssumption, TagPlusType DEF tail, RingInv, TagPlus, Tag
<1>7. tail \in NewOf(ClassOf(s.pc), d) /\ tail \in NewTags(d) /\ TagAge(tail, head) = used
  <2>1. 1 - 1 = 0 /\ used + 1 - 1 = used
    BY <1>1
  <2> QED BY <1>3, <1>6, <2>1, DispatchFacts DEF NewOf, NewTags
<1>8. tail \in Undone'
  <2>1. PICK c \in Class : c = ClassOf(s.pc)
    BY <1>5
  <2>2. UndoneOf(c)' = ((UndoneOf(c) \ Leaving(c)) \ Squashed(FALSE)) \cup NewOf(c, d)
    <3>1. FALSE => d = <<>> /\ br_e.tag \in Undone
      OBVIOUS
    <3> QED BY <3>1, UndoneStep
  <2>3. tail \in NewOf(c, d)
    BY <1>7, <2>1
  <2>4. tail \in UndoneOf(c)'
    BY ONLY <2>2, <2>3
  <2> QED BY <2>4 DEF UndoneOf
<1> QED BY <1>6, <1>7, <1>8

\* The operands of what comes in: there, or waited for as above.
LEMMA NewOperands ==
  ASSUME RingInv, UnitInv, StationInv, PlaceInv, NEW d, Dispatched(d), NEW finish \in BOOLEAN,
         Advance(d, FALSE, finish),
         NEW i \in DOMAIN d, NEW o \in {RsEntry(d, i).o1, RsEntry(d, i).o2}, o.st = "wait"
  PROVE  /\ o.tag \in Undone \/ o.tag \in NewTags(d) \cap Undone'
         /\ Younger(TagPlus(tail, i - 1), o.tag)
<1>1. i \in {1, 2} /\ TagAge(TagPlus(tail, i - 1), head) = used + i - 1 /\ used \in Nat
      /\ TagPlus(tail, i - 1) \in Tag
  <2>1. Len(d) \in 0 .. 2 /\ DOMAIN d = 1 .. Len(d)
    BY DispatchFacts
  <2>2. i \in {1, 2}
    BY <2>1
  <2>3. /\ TagPlus(tail, i - 1) \in Tag
        /\ TagAge(TagPlus(tail, i - 1), head) = used + i - 1
    BY DispatchFacts
  <2>4. used \in Nat
    BY RobSizeAssumption DEF RingInv
  <2> QED BY <2>2, <2>3, <2>4
<1>2. \A u \in Undone : Younger(TagPlus(tail, i - 1), u)
  <2> SUFFICES ASSUME NEW u \in Undone PROVE Younger(TagPlus(tail, i - 1), u)
    OBVIOUS
  <2>1. u \in Tag /\ TagAge(u, head) < used
    BY DEF Undone, Live, RingInv
  <2>2. TagAge(u, head) \in Int
    BY <2>1, TagAgeType DEF RingInv
  <2> QED BY <1>1, <2>1, <2>2 DEF Younger, TagYounger
<1>3. CASE \E r : o = Operand(r)
  BY <1>2, <1>3, OperandWaits
<1>4. CASE i # 1 /\ \E r : o = Operand1(r, d[1].pc)
  <2>1. PICK r : o = Operand1(r, d[1].pc)
    BY <1>4
  <2>2. CASE r # NoReg /\ DestOf(d[1].pc) = r
    <3>1. i = 2
      BY <1>1, <1>4
    <3>2. o.tag = tail
      BY <2>1, <2>2 DEF Operand1, Station!Wait
    <3>3. tail \in NewTags(d) /\ tail \in Undone' /\ TagAge(tail, head) = used
      BY <3>1, FirstSlotUndone
    <3>4. Younger(TagPlus(tail, i - 1), tail)
      BY <1>1, <3>1, <3>3 DEF Younger, TagYounger
    <3> QED BY <3>2, <3>3, <3>4
  <2>3. CASE ~(r # NoReg /\ DestOf(d[1].pc) = r)
    <3>1. o = Operand(r)
      BY <2>1, <2>3 DEF Operand1
    <3> QED BY <1>3, <3>1
  <2> QED BY <2>2, <2>3
<1>5. \/ \E r : o = Operand(r)
      \/ i # 1 /\ \E r : o = Operand1(r, d[1].pc)
  BY DEF RsEntry
<1> QED BY <1>3, <1>4, <1>5

\* No cycle loses a wake-up or wakes too early.
LEMMA AdvanceKeepsWakeups ==
  ASSUME IInv, NEW d, Dispatched(d), NEW recover \in BOOLEAN, NEW finish \in BOOLEAN,
         recover => d = <<>> /\ mispredict, Advance(d, recover, finish)
  PROVE  WakeInv'
<1> USE DEF IInv
<1>1. recover => d = <<>> /\ br_e.tag \in Undone
  <2> SUFFICES ASSUME recover PROVE br_e.tag \in Undone
    OBVIOUS
  <2>1. br_e.tag \in Executing("br") /\ "br" \in Class
    BY DEF mispredict, OwnerDriving, Executing, Class
  <2> QED BY <2>1 DEF PlaceInv, UndoneOf
<1>2. ASSUME NEW c \in Class, NEW x \in rs'[c], NEW p \in {x.o1, x.o2}
      PROVE  /\ p.st = "wait" => p.tag \in Undone' /\ TagAge(x.tag, head') > TagAge(p.tag, head')
             /\ p.st = "spec" => p.tag \in {alu_e'.tag, alu1_e'.tag} \ {NoTag}
  <2> DEFINE w == IF c = "div" THEN {} ELSE wk
  <2>1. PICK taken : rs'[c] = NextStation(c, d, taken, recover)
    <3>1. rs' = [alu |-> NextStation("alu", d, wk, recover),
                 br  |-> NextStation("br", d, {br_sel.tag}, recover),
                 mul |-> NextStation("mul", d, IF mul_advance THEN {mul_sel.tag} ELSE {}, recover),
                 div |-> NextStation("div", d, IF div_start(recover) THEN {div_sel.tag} ELSE {},
                                     recover)]
      BY DEF Advance
    <3>2. c \in {"alu", "br", "mul", "div"}
      BY DEF Class
    <3> QED BY <3>1, <3>2
  <2>2. PICK e \in Kept(c, taken, recover) \cup Inserted(c, d) :
          x = Station!WokenEntry(e, Cdb, w)
    BY <1>2, <2>1 DEF NextStation, Kept
  <2>3. PICK o \in {e.o1, e.o2} : p = Station!Woken(o, Cdb, w)
    BY <1>2, <2>2, EntryShapes
  <2>4. x.tag = e.tag
    BY <2>2, EntryShapes
  <2>5. w \subseteq wk
    OBVIOUS
  <2> HIDE DEF w
  <2>6. CASE e \in Kept(c, taken, recover)
    <3>1. e \in rs[c] /\ e.tag \in Undone /\ e.tag \notin Squashed(recover)
      <4>1. e \in rs[c] /\ ~(recover /\ Younger(e.tag, br_e.tag))
        BY <2>6 DEF Kept
      <4>2. e.tag \in Waiting(c)
        BY <4>1 DEF Waiting
      <4> QED BY <4>1, <4>2 DEF PlaceInv, UndoneOf, Squashed
    <3>2. e \in WaitingEntries
      BY <3>1 DEF WaitingEntries
    <3>3. /\ o.st = "wait" => o.tag \in Undone /\ Younger(e.tag, o.tag)
          /\ o.st = "spec" => o.tag \in {alu_e.tag, alu1_e.tag} \ {NoTag}
      BY <2>3, <3>2 DEF WakeInv
    <3> QED BY <1>1, <2>3, <2>4, <2>5, <3>1, <3>3, OperandStep
  <2>7. CASE e \in Inserted(c, d)
    <3>1. PICK i \in DOMAIN d : e = RsEntry(d, i)
      BY <2>7 DEF Inserted
    <3>2. recover = FALSE
      BY <1>1, <3>1
    <3>3. e.tag = TagPlus(tail, i - 1) /\ o.st \in {"val", "wait"}
      BY <2>3, <3>1, EntryShapes
    <3>4. e.tag \in NewTags(d) /\ e.tag \notin Squashed(recover)
      BY <3>2, <3>3 DEF NewTags, Squashed
    <3>5. o.st = "wait" => /\ o.tag \in Undone \/ o.tag \in NewTags(d) \cap Undone'
                           /\ Younger(e.tag, o.tag)
      BY <2>3, <3>1, <3>2, <3>3, NewOperands
    <3> QED BY <1>1, <2>3, <2>4, <2>5, <3>3, <3>4, <3>5, OperandStep
  <2> QED BY <2>2, <2>6, <2>7
<1>3. \A e \in WaitingEntries' : \E c \in Class : e \in rs'[c]
  BY DEF WaitingEntries
<1> QED BY <1>2, <1>3 DEF WakeInv, Younger, TagYounger, TagAge

-----------------------------------------------------------------------------
(* The invariant is inductive.                                             *)

\* The pipeline holds nothing.
Empty ==
  /\ prog \in Programs /\ fpc \in Nat /\ epc \in Nat
  /\ irq \in {"off", "pending", "over"} /\ serial_in_flight = FALSE
  /\ rob = [t \in Tag |-> Idle] /\ head = 0 /\ used = 0 /\ rs = [c \in Class |-> {}]
  /\ alu_e = None /\ alu1_e = None /\ br_e = None
  /\ mul = [s \in 1 .. MUL_STAGES |-> Bubble] /\ div = NoDivision

LEMMA EmptySatisfies == Empty => IInv
<1> SUFFICES ASSUME Empty PROVE IInv
  OBVIOUS
<1> USE DEF Empty
<1>1. Live = {} /\ Undone = {}
  BY DEF Live, Undone, Idle
<1>2. WaitingEntries = {}
  BY DEF WaitingEntries
<1>3. RingInv
  <2>1. head \in Tag /\ used \in 0 .. ROB_SIZE
    BY RobSizeAssumption DEF Tag
  <2>2. \A t \in Tag : rob[t].live <=> TagAge(t, head) < used
    <3>1. \A t \in Tag : TagAge(t, head) \in 0 .. ROB_SIZE - 1
      BY <2>1, TagAgeType
    <3>2. \A t \in Tag : rob[t].live = FALSE
      BY DEF Idle
    <3> QED BY <3>1, <3>2, RobSizeAssumption
  <2> QED BY <1>1, <2>1, <2>2 DEF RingInv
<1>4. UnitInv
  BY DEF UnitInv, None, Bubble, NoDivision
<1>5. StationInv
  BY SlotsType, FS_EmptySet DEF StationInv
<1>6. PlaceInv
  <2>1. \A c \in Class : UndoneOf(c) = {} /\ Waiting(c) = {}
    BY <1>1 DEF UndoneOf, Waiting
  <2>2. \A c \in Class : Executing(c) = {}
    BY DEF Executing, Class, None, Bubble, NoDivision
  <2> QED BY <2>1, <2>2 DEF PlaceInv
<1>7. WakeInv
  BY <1>2 DEF WakeInv
<1> QED BY <1>3, <1>4, <1>5, <1>6, <1>7 DEF IInv

\* So does what a flush leaves.
LEMMA EmptyNext == Empty' => IInv'
BY EmptySatisfies, PTL

LEMMA FlushSatisfies ==
  ASSUME RingInv, NEW target \in Nat, EmptyPipeline(target), epc' \in Nat,
         irq' \in {"off", "pending", "over"}
  PROVE  IInv'
<1>1. Empty'
  BY DEF Empty, EmptyPipeline, RingInv
<1> QED BY <1>1, EmptyNext

LEMMA InitSatisfies == Init => IInv
<1>1. Init => Empty
  BY DEF Init, Empty
<1> QED BY <1>1, EmptySatisfies

LEMMA CycleKeeps ==
  ASSUME IInv, NEW b \in Bundles \cup {<<>>}, NEW finish \in BOOLEAN, Cycle(b, finish)
  PROVE  IInv'
<1>1. PICK d : d = Accepted(b)
  OBVIOUS
<1>2. /\ Advance(d, FALSE, finish) /\ UNCHANGED irq
      /\ fpc' = IF d = <<>> THEN fpc ELSE d[Len(d)].pred
      /\ serial_in_flight' \in BOOLEAN
  <2>1. /\ Advance(d, FALSE, finish) /\ UNCHANGED irq
        /\ fpc' = IF d = <<>> THEN fpc ELSE d[Len(d)].pred
    BY <1>1 DEF Cycle
  <2>2. serial_in_flight' =
           IF d # <<>> /\ IsSystem(d[1].pc) /\ ~csr_fast(d[1].pc) THEN TRUE
           ELSE serial_in_flight /\ ~(commit0 /\ IsSystem(h0.pc))
    BY <1>1 DEF Cycle
  <2>3. serial_in_flight \in BOOLEAN
    BY DEF IInv, RingInv
  <2> QED BY <2>1, <2>2, <2>3
<1>3. Dispatched(d)
  BY <1>1, AcceptedIsDispatched DEF IInv
<1>4. fpc' \in Nat
  <2>1. /\ Len(d) \in 0 .. 2 /\ DOMAIN d = 1 .. Len(d)
        /\ \A i \in DOMAIN d : d[i].pred \in Nat
    BY <1>3, DispatchFacts DEF IInv
  <2>2. d # <<>> => Len(d) >= 1
    BY <1>3 DEF Dispatched
  <2> QED BY <1>2, <2>1, <2>2 DEF IInv, RingInv
<1>5. irq' \in {"off", "pending", "over"}
  BY <1>2 DEF IInv, RingInv
<1>6. FALSE => d = <<>> /\ mispredict
  OBVIOUS
<1>7. RingInv' /\ UnitInv' /\ StationInv' /\ PlaceInv'
  BY <1>2, <1>3, <1>4, <1>5, <1>6, AdvanceKeepsPlaces DEF IInv
<1>8. WakeInv'
  BY <1>2, <1>3, <1>6, AdvanceKeepsWakeups
<1> QED BY <1>7, <1>8 DEF IInv

LEMMA RecoverKeeps ==
  ASSUME IInv, NEW finish \in BOOLEAN, Recover(finish)
  PROVE  IInv'
<1>1. PICK d : d = <<>>
  OBVIOUS
<1>2. /\ Advance(d, TRUE, finish) /\ UNCHANGED irq /\ mispredict
      /\ fpc' = ISA!NextPc(rob[br_e.tag].pc)
      /\ serial_in_flight' = (serial_in_flight /\ ~(commit0 /\ IsSystem(h0.pc)))
  BY <1>1 DEF Recover
<1>3. Dispatched(d)
  BY <1>1 DEF Dispatched
<1>4. fpc' \in Nat
  <2>1. br_e.tag \in Executing("br") /\ "br" \in Class
    BY <1>2 DEF mispredict, OwnerDriving, Executing, Class
  <2>2. rob[br_e.tag].pc \in PC
    BY <2>1 DEF IInv, PlaceInv, UndoneOf, Undone, RingInv
  <2>3. PICK p : p = rob[br_e.tag].pc
    OBVIOUS
  <2>4. p + 1 \in Nat /\ Code(p).next \in Nat
    BY <2>2, <2>3, ProgramFacts DEF IInv, Instruction
  <2>5. ISA!NextPc(p) = IF Code(p).op = "br" THEN Code(p).next ELSE p + 1
    BY DEF ISA!NextPc, ISA!Code, Code
  <2> QED BY <1>2, <2>3, <2>4, <2>5
<1>5. irq' \in {"off", "pending", "over"} /\ serial_in_flight' \in BOOLEAN
  BY <1>2 DEF IInv, RingInv
<1>6. TRUE => d = <<>> /\ mispredict
  BY <1>1, <1>2
<1>7. RingInv' /\ UnitInv' /\ StationInv' /\ PlaceInv'
  BY <1>2, <1>3, <1>4, <1>5, <1>6, AdvanceKeepsPlaces DEF IInv
<1>8. WakeInv'
  BY <1>2, <1>3, <1>6, AdvanceKeepsWakeups
<1> QED BY <1>7, <1>8 DEF IInv

LEMMA FlushAtCommitKeeps ==
  ASSUME IInv, FlushAtCommit
  PROVE  IInv'
<1>1. h0.pc \in Nat /\ h0.pc + 1 \in Nat /\ prog.handler \in Nat /\ epc \in Nat
  <2>1. head \in Live
    BY DEF FlushAtCommit, flushing, trap_take, mret_commit, fencei_commit, commit0, h0_ready,
           h0, Live, IInv, RingInv
  <2>2. h0.pc \in PC
    BY <2>1 DEF IInv, RingInv, h0
  <2> QED BY <2>2, ProgramFacts DEF IInv, RingInv
<1>2. PICK target \in Nat : EmptyPipeline(target)
  BY <1>1 DEF FlushAtCommit
<1>3. epc' \in Nat /\ irq' \in {"off", "pending", "over"}
  BY <1>1 DEF FlushAtCommit, IInv, RingInv
<1> QED BY <1>2, <1>3, FlushSatisfies DEF IInv

LEMMA TakeInterruptKeeps ==
  ASSUME IInv, TakeInterrupt
  PROVE  IInv'
<1>1. prog.handler \in Nat
  BY ProgramFacts DEF IInv
<1>2. epc' \in Nat /\ irq' \in {"off", "pending", "over"} /\ EmptyPipeline(prog.handler)
  BY DEF TakeInterrupt, IInv, RingInv
<1> QED BY <1>1, <1>2, FlushSatisfies DEF IInv

\* What a step leaves alone stays as it is; the interrupt line is not
\* mentioned but by its type.
LEMMA UnchangedKeeps ==
  ASSUME IInv, irq' \in {"off", "pending", "over"},
         UNCHANGED <<prog, fpc, rob, head, used, rs, alu_e, alu1_e, br_e, mul, div,
                     serial_in_flight, regs, csr, epc>>
  PROVE  IInv'
<1>1. Live' = Live /\ PC' = PC
  BY DEF Live, PC
<1>2. Undone' = Undone
  BY <1>1 DEF Undone
<1>3. RingInv'
  BY <1>1, <1>2 DEF IInv, RingInv, ClassOf, Code, TagAge
<1>4. UnitInv'
  BY DEF IInv, UnitInv
<1>5. StationInv'
  BY DEF IInv, StationInv
<1>6. PlaceInv'
  <2>1. \A c : UndoneOf(c)' = UndoneOf(c)
    BY <1>2 DEF UndoneOf, ClassOf, Code
  <2>2. \A c : Waiting(c)' = Waiting(c) /\ Executing(c)' = Executing(c)
    BY DEF Waiting, Executing
  <2> QED BY <2>1, <2>2 DEF IInv, PlaceInv
<1>7. WakeInv'
  BY <1>2 DEF IInv, WakeInv, WaitingEntries, Younger, TagYounger, TagAge
<1> QED BY <1>3, <1>4, <1>5, <1>6, <1>7 DEF IInv

(* The inductive invariant holds in every state of every behaviour: no     *)
(* cycle, recovery, flush or interrupt breaks it.                          *)
THEOREM OooCoreInductive == Spec => []IInv
<1>1. IInv /\ [Next]_vars => IInv'
  <2> SUFFICES ASSUME IInv, [Next]_vars PROVE IInv'
    OBVIOUS
  <2>1. CASE \E b \in Bundles \cup {<<>>}, finish \in BOOLEAN : Cycle(b, finish)
    BY <2>1, CycleKeeps
  <2>2. CASE \E finish \in BOOLEAN : Recover(finish)
    BY <2>2, RecoverKeeps
  <2>3. CASE FlushAtCommit
    BY <2>3, FlushAtCommitKeeps
  <2>4. CASE InterruptLine
    BY <2>4, UnchangedKeeps DEF InterruptLine
  <2>5. CASE TakeInterrupt
    BY <2>5, TakeInterruptKeeps
  <2>6. CASE UNCHANGED vars
    BY <2>6, UnchangedKeeps DEF vars, IInv, RingInv
  <2> QED BY <2>1, <2>2, <2>3, <2>4, <2>5, <2>6 DEF Next
<1> QED BY <1>1, InitSatisfies, PTL DEF Spec

-----------------------------------------------------------------------------
(* What the invariant implies.                                             *)

\* Where an instruction is tells its class, and that it is unfinished.
LEMMA PlacesByClass ==
  ASSUME IInv
  PROVE  /\ \A c \in Class : \A t \in Waiting(c) \cup Executing(c) :
              t \in Undone /\ ClassOf(rob[t].pc) = c
         /\ \A t \in Undone : \/ ClassOf(rob[t].pc) = "none"
                              \/ \E c \in Class : t \in Waiting(c) \cup Executing(c)
<1>1. \A c \in Class : Waiting(c) \cup Executing(c) = UndoneOf(c)
  BY DEF IInv, PlaceInv
<1>2. \A t \in Undone : ClassOf(rob[t].pc) \in Class \cup {"none"}
  BY ClassFacts
<1> QED BY <1>1, <1>2 DEF UndoneOf

\* The places of InFlightOnce by class.
LEMMA PlacesAre ==
  ASSUME IInv
  PROVE  /\ \A t : t \in InStations <=> \E c \in Class : t \in Waiting(c)
         /\ InExecution = Executing("alu") \cup Executing("br")
         /\ InUnits = Executing("mul") \cup Executing("div")
         /\ AtHeadOnly = {t \in Undone : ClassOf(rob[t].pc) = "none"}
<1>1. ASSUME NEW t PROVE t \in InStations <=> \E c \in Class : t \in Waiting(c)
  <2>1. \A e : e \in WaitingEntries <=> \E c \in Class : e \in rs[c]
    BY DEF WaitingEntries
  <2> QED BY <2>1 DEF InStations, Waiting
<1>2. /\ Executing("alu") = {alu_e.tag, alu1_e.tag} \ {NoTag}
      /\ Executing("br") = {br_e.tag} \ {NoTag}
      /\ Executing("mul") = {mul[s].tag : s \in 1 .. MUL_STAGES} \ {NoTag}
      /\ Executing("div") = {div.tag} \ {NoTag}
  BY DEF Executing
<1>3. InExecution = Executing("alu") \cup Executing("br")
  BY <1>2 DEF InExecution
<1>4. InUnits = Executing("mul") \cup Executing("div")
  BY <1>2 DEF InUnits
<1>5. AtHeadOnly = {t \in Undone : ClassOf(rob[t].pc) = "none"}
  <2>1. \A t \in Undone : ClassOf(rob[t].pc) = "none" <=> Code(rob[t].pc).op = "csr"
    BY ClassFacts DEF IInv, RingInv
  <2> QED BY <2>1 DEF AtHeadOnly, Undone
<1> QED BY <1>1, <1>3, <1>4, <1>5

\* Each entry of a station is a different instruction.
LEMMA EntriesAreInstructions ==
  ASSUME IInv
  PROVE  Cardinality(InStations) = Cardinality(WaitingEntries)
<1>1. \A c \in Class : IsFiniteSet(rs[c]) /\ \A e, f \in rs[c] : e.tag = f.tag => e = f
  BY DEF IInv, StationInv
<1>2. \A e : e \in WaitingEntries <=> \E c \in Class : e \in rs[c]
  BY DEF WaitingEntries
<1>3. IsFiniteSet(WaitingEntries)
  <2>1. WaitingEntries = ((rs["alu"] \cup rs["br"]) \cup rs["mul"]) \cup rs["div"]
    BY DEF WaitingEntries, Class
  <2>2. IsFiniteSet(rs["alu"]) /\ IsFiniteSet(rs["br"]) /\ IsFiniteSet(rs["mul"])
        /\ IsFiniteSet(rs["div"])
    BY <1>1 DEF Class
  <2>3. IsFiniteSet(rs["alu"] \cup rs["br"])
    BY <2>2, FS_Union
  <2>4. IsFiniteSet((rs["alu"] \cup rs["br"]) \cup rs["mul"])
    BY <2>2, <2>3, FS_Union
  <2> QED BY <2>1, <2>2, <2>4, FS_Union
<1>4. \A e, f \in WaitingEntries : e.tag = f.tag => e = f
  <2> SUFFICES ASSUME NEW e \in WaitingEntries, NEW f \in WaitingEntries, e.tag = f.tag
               PROVE  e = f
    OBVIOUS
  <2>1. PICK c \in Class, b \in Class : e \in rs[c] /\ f \in rs[b]
    BY <1>2
  <2>2. e.tag \in Waiting(c) /\ f.tag \in Waiting(b)
    BY <2>1 DEF Waiting
  <2>3. b = c
    BY <2>2, PlacesByClass
  <2> QED BY <1>1, <2>1, <2>3
<1> DEFINE g == [e \in WaitingEntries |-> e.tag]
<1>5. g \in Bijection(WaitingEntries, InStations)
  BY <1>4 DEF InStations, Bijection, Injection, Surjection, IsInjective
<1> QED BY <1>3, <1>5, FS_Bijection DEF ExistsBijection

\* What executes is in different units.
LEMMA UnitsDistinct ==
  ASSUME IInv
  PROVE  /\ \A a, b \in {alu_e, alu1_e, br_e} : a # b => a.tag # b.tag
         /\ \A i, j \in 1 .. MUL_STAGES : i # j /\ mul[i].tag # NoTag => mul[i].tag # mul[j].tag
         /\ div.tag # NoTag => \A i \in 1 .. MUL_STAGES : mul[i].tag # div.tag
<1>1. \A b, c \in Class : b # c => Executing(b) \cap Executing(c) = {}
  BY PlacesByClass
<1>2. /\ Executing("alu") = {alu_e.tag, alu1_e.tag} \ {NoTag}
      /\ Executing("br") = {br_e.tag} \ {NoTag}
      /\ Executing("mul") = {mul[s].tag : s \in 1 .. MUL_STAGES} \ {NoTag}
      /\ Executing("div") = {div.tag} \ {NoTag}
  BY DEF Executing
<1>3. Executing("alu") \cap Executing("br") = {} /\ Executing("mul") \cap Executing("div") = {}
  BY <1>1 DEF Class
<1>4. \A a, b \in {alu_e, alu1_e, br_e} : a # b => a.tag # b.tag
  <2>1. \A a \in {alu_e, alu1_e, br_e} : a.tag = NoTag => a = None
    BY CoreAssumption DEF IInv, UnitInv
  <2>2. alu_e.tag = alu1_e.tag => alu_e.tag = NoTag
    BY DEF IInv, UnitInv
  <2> QED BY <1>2, <1>3, <2>1, <2>2
<1>5. \A i, j \in 1 .. MUL_STAGES : i # j /\ mul[i].tag # NoTag => mul[i].tag # mul[j].tag
  BY DEF IInv, UnitInv
<1>6. div.tag # NoTag => \A i \in 1 .. MUL_STAGES : mul[i].tag # div.tag
  BY <1>2, <1>3
<1> QED BY <1>4, <1>5, <1>6

LEMMA BusesSound ==
  ASSUME IInv
  PROVE  CdbSound
<1>1. \A c \in Cdb : c.tag \in Live /\ ~rob[c.tag].done
  BY BusFacts DEF IInv, CdbTags, Undone
<1>2. ASSUME NEW a \in Cdb, NEW b \in Cdb, a.tag = b.tag PROVE a = b
  <2> DEFINE Drives(x, e) == /\ e \in {alu_e, alu1_e, br_e} /\ e.tag # NoTag
                             /\ x = [tag |-> e.tag, val |-> Result(e.tag, e.v1, e.v2)]
             Answers(x, i) == /\ i \in Grants
                              /\ x = [tag |-> Request[i], val |-> RequestValue[i + 1]]
  <2>1. \A x \in Cdb : (\E e : Drives(x, e)) \/ (\E i : Answers(x, i))
    BY DEF Cdb, OwnerDriving
  <2>2. \A x, e : Drives(x, e) => /\ x.tag = e.tag
                                  /\ x.tag \in Executing("alu") \cup Executing("br")
    BY DEF Executing
  <2>3. \A x, i : Answers(x, i) => x.tag = Request[i]
    OBVIOUS
  <2>4. ASSUME NEW i \in Grants
        PROVE  /\ i = 0 => Request[i] \in Executing("mul")
               /\ i = 1 => Request[i] \in Executing("div")
               /\ i = 2 => Request[i] \in Undone /\ ClassOf(rob[Request[i]].pc) = "none"
    <3>1. Request[i] # NoTag
      BY GrantFacts
    <3>2. MUL_STAGES \in 1 .. MUL_STAGES
      BY CoreAssumption
    <3>3. i = 0 => Request[i] \in Executing("mul")
      BY <3>1, <3>2, GrantFacts DEF Executing, mul_out
    <3>4. i = 1 => Request[i] = div.tag
      BY <3>1, GrantFacts
    <3>5. i = 1 => Request[i] \in Executing("div")
      BY <3>1, <3>4 DEF Executing
    <3>6. i = 2 => h0_csr /\ ~rob[head].done /\ Request[i] = head
      BY <3>1, GrantFacts
    <3>7. i = 2 => Request[i] \in Undone /\ ClassOf(rob[Request[i]].pc) = "none"
      BY <3>6, ClassFacts DEF h0_csr, Undone, Live, IInv, RingInv
    <3> QED BY <3>3, <3>5, <3>7
  <2>5. /\ \A t \in Executing("alu") : ClassOf(rob[t].pc) = "alu"
        /\ \A t \in Executing("br") : ClassOf(rob[t].pc) = "br"
        /\ \A t \in Executing("mul") : ClassOf(rob[t].pc) = "mul"
        /\ \A t \in Executing("div") : ClassOf(rob[t].pc) = "div"
    BY PlacesByClass DEF Class
  <2>6. \A i \in Grants : i \in {0, 1, 2}
    BY GrantFacts
  <2> HIDE DEF Drives, Answers
  <2>7. ASSUME NEW e, NEW f, Drives(a, e), Drives(b, f) PROVE a = b
    <3>1. e.tag = f.tag
      BY <1>2, <2>2, <2>7
    <3>2. e = f
      BY <2>7, <3>1, UnitsDistinct DEF Drives
    <3> QED BY <2>7, <3>2 DEF Drives
  <2>8. ASSUME NEW i, NEW j, Answers(a, i), Answers(b, j) PROVE a = b
    <3>1. i \in Grants /\ j \in Grants /\ Request[i] = Request[j]
      BY <1>2, <2>3, <2>8 DEF Answers
    <3>2. i = j
      BY <2>4, <2>5, <2>6, <3>1
    <3> QED BY <2>8, <3>2 DEF Answers
  <2>9. \A x, y : \A e, i : Drives(x, e) /\ Answers(y, i) => x.tag # y.tag
    <3> SUFFICES ASSUME NEW x, NEW y, NEW e, NEW i, Drives(x, e), Answers(y, i)
                 PROVE  x.tag # y.tag
      OBVIOUS
    <3>1. ClassOf(rob[x.tag].pc) \in {"alu", "br"}
      BY <2>2, <2>5
    <3>2. i \in Grants /\ y.tag = Request[i]
      BY <2>3 DEF Answers
    <3>3. ClassOf(rob[y.tag].pc) \in {"mul", "div", "none"}
      BY <2>4, <2>5, <2>6, <3>2
    <3> QED BY <3>1, <3>3
  <2>10. (\E e : Drives(a, e)) \/ (\E i : Answers(a, i))
    BY <2>1
  <2>11. (\E e : Drives(b, e)) \/ (\E i : Answers(b, i))
    BY <2>1
  <2> QED BY <1>2, <2>7, <2>8, <2>9, <2>10, <2>11
<1> QED BY <1>1, <1>2 DEF CdbSound

LEMMA TypeFollows ==
  ASSUME IInv
  PROVE  TypeOK
<1>1. \A e \in WaitingEntries : e.tag \in Tag /\ e.o1.st \in Operands /\ e.o2.st \in Operands
  BY DEF WaitingEntries, IInv, StationInv
<1>2. \A c \in Class : Cardinality(rs[c]) <= Slots[c]
  BY DEF IInv, StationInv
<1> QED BY <1>1, <1>2 DEF TypeOK, IInv, RingInv

LEMMA PlacesPartition ==
  ASSUME IInv, NEW places, places = <<InStations, InExecution, InUnits, AtHeadOnly>>
  PROVE  /\ UNION {places[i] : i \in 1 .. 4} = Undone
         /\ \A i, j \in 1 .. 4 : i # j => places[i] \cap places[j] = {}
<1>1. /\ \A t \in Undone : \/ ClassOf(rob[t].pc) = "none"
                           \/ \E c \in Class : t \in Waiting(c) \cup Executing(c)
      /\ \A c \in Class : \A t \in Waiting(c) \cup Executing(c) :
           t \in Undone /\ ClassOf(rob[t].pc) = c
  BY PlacesByClass
<1>2. /\ \A t : t \in InStations <=> \E c \in Class : t \in Waiting(c)
      /\ InExecution = Executing("alu") \cup Executing("br")
      /\ InUnits = Executing("mul") \cup Executing("div")
      /\ AtHeadOnly = {t \in Undone : ClassOf(rob[t].pc) = "none"}
  BY PlacesAre
<1>3. \A c \in Class : Waiting(c) \cap Executing(c) = {}
  BY DEF IInv, PlaceInv
<1>4. \A c : c \in Class <=> c \in {"alu", "br", "mul", "div"}
  BY DEF Class
<1>5. ASSUME NEW t
      PROVE  /\ t \in InStations => /\ t \in Undone /\ t \notin InExecution /\ t \notin InUnits
                                    /\ t \notin AtHeadOnly
             /\ t \in InExecution => t \in Undone /\ t \notin InUnits /\ t \notin AtHeadOnly
             /\ t \in InUnits => t \in Undone /\ t \notin AtHeadOnly
             /\ t \in AtHeadOnly => t \in Undone
             /\ t \in Undone => t \in InStations \cup InExecution \cup InUnits \cup AtHeadOnly
  <2>1. ASSUME NEW c \in Class, t \in Executing(c)
        PROVE  /\ t \in Undone /\ ClassOf(rob[t].pc) = c /\ c # "none"
               /\ \A b \in Class : b # c => t \notin Executing(b)
    BY <1>1, <1>4, <2>1
  <2>2. t \in InStations => /\ t \in Undone /\ t \notin InExecution /\ t \notin InUnits
                            /\ t \notin AtHeadOnly
    <3> SUFFICES ASSUME NEW c \in Class, t \in Waiting(c)
                 PROVE  /\ t \in Undone /\ t \notin InExecution /\ t \notin InUnits
                        /\ t \notin AtHeadOnly
      BY <1>2
    <3>1. t \in Undone /\ ClassOf(rob[t].pc) = c
      BY <1>1
    <3>2. \A b \in Class : t \notin Executing(b)
      BY <1>1, <1>3, <3>1
    <3> QED BY <1>2, <1>4, <3>1, <3>2
  <2>3. t \in InExecution => t \in Undone /\ t \notin InUnits /\ t \notin AtHeadOnly
    BY <1>2, <1>4, <2>1
  <2>4. t \in InUnits => t \in Undone /\ t \notin AtHeadOnly
    BY <1>2, <1>4, <2>1
  <2>5. t \in Undone => t \in InStations \cup InExecution \cup InUnits \cup AtHeadOnly
    BY <1>1, <1>2, <1>4
  <2> QED BY <1>2, <2>2, <2>3, <2>4, <2>5
<1>6. /\ places[1] = InStations /\ places[2] = InExecution /\ places[3] = InUnits
      /\ places[4] = AtHeadOnly
  OBVIOUS
<1>7. \A i : i \in 1 .. 4 <=> i \in {1, 2, 3, 4}
  OBVIOUS
<1>8. UNION {places[i] : i \in 1 .. 4} = Undone
  <2>1. ASSUME NEW t PROVE t \in UNION {places[i] : i \in 1 .. 4} <=> t \in Undone
    BY <1>5, <1>6, <1>7
  <2> QED BY <2>1
<1>9. \A i, j \in 1 .. 4 : i # j => places[i] \cap places[j] = {}
  <2>1. \A t : /\ t \in places[1] => t \notin places[2] /\ t \notin places[3] /\ t \notin places[4]
               /\ t \in places[2] => t \notin places[3] /\ t \notin places[4]
               /\ t \in places[3] => t \notin places[4]
    BY <1>5, <1>6
  <2>2. \A i, j \in {1, 2, 3, 4} : i # j => \A t : ~ (t \in places[i] /\ t \in places[j])
    BY <2>1
  <2> QED BY <1>7, <2>2
<1> QED BY <1>8, <1>9

(* Every unfinished instruction in flight is in exactly one place, nothing *)
(* else is anywhere, and the buses carry each of them once, whatever was   *)
(* squashed, selected in the cycle of its wake-up, or refused a bus.       *)
THEOREM OooCoreInFlightOnce == Spec => []InFlightOnce
<1>1. IInv => InFlightOnce
  <2> SUFFICES ASSUME IInv PROVE InFlightOnce
    OBVIOUS
  <2>1. PICK places : places = <<InStations, InExecution, InUnits, AtHeadOnly>>
    OBVIOUS
  <2>2. /\ UNION {places[i] : i \in 1 .. 4} = {t \in Live : ~rob[t].done}
        /\ \A i, j \in 1 .. 4 : i # j => places[i] \cap places[j] = {}
    BY <2>1, PlacesPartition DEF Undone
  <2>3. {e.tag : e \in {x \in {alu_e, alu1_e, br_e} : x.tag # NoTag}} \subseteq Live
    <3>1. \A e \in {alu_e, alu1_e, br_e} : e.tag # NoTag => e.tag \in InExecution
      BY DEF InExecution
    <3>2. InExecution \subseteq Live
      BY PlacesAre, PlacesByClass DEF Undone, Class
    <3> QED BY <3>1, <3>2
  <2> QED BY <2>1, <2>2, <2>3, TypeFollows, EntriesAreInstructions, UnitsDistinct, BusesSound
          DEF InFlightOnce
<1> QED BY <1>1, OooCoreInductive, PTL

(* An operand that waits has a producer that will still broadcast, and one *)
(* woken by tag has its producer in an ALU: no wake-up is lost or early,   *)
(* across squashes, same-cycle insertion and the reuse of tags.            *)
THEOREM OooCoreNoLostWakeup == Spec => []NoLostWakeup
<1>1. IInv => NoLostWakeup
  BY DEF IInv, WakeInv, NoLostWakeup, Undone
<1> QED BY <1>1, OooCoreInductive, PTL

-----------------------------------------------------------------------------
(* The values in flight.                                                   *)

(* What an instruction at tag t reads, as the machine in program order     *)
(* would find it: the result of the youngest older instruction in flight   *)
(* that writes the register, or the committed register.                    *)
OlderWriters(t, r) == {w \in Writers(r) : Younger(t, w)}
Producer(t, r) ==
  CHOOSE w \in OlderWriters(t, r) : \A u \in OlderWriters(t, r) : ~Younger(u, w)
Settled(t, r) == r = NoReg \/ OlderWriters(t, r) = {} \/ rob[Producer(t, r)].done
Source(t, r) ==
  IF r = NoReg THEN <<>>
  ELSE IF OlderWriters(t, r) = {} THEN regs[r]
  ELSE rob[Producer(t, r)].val

\* v1 and v2 are what t reads, and v is what it computes from that.
Fed(t, v1, v2) ==
  /\ Settled(t, Code(rob[t].pc).rs1) /\ v1 = Source(t, Code(rob[t].pc).rs1)
  /\ Settled(t, Code(rob[t].pc).rs2) /\ v2 = Source(t, Code(rob[t].pc).rs2)
Computed(t, v) == \E v1, v2 : Fed(t, v1, v2) /\ v = Result(t, v1, v2)

\* o is what t reads of r, or names who computes it.
Delivers(o, t, r) ==
  /\ o.st = "val" => Settled(t, r) /\ o.val = Source(t, r)
  /\ o.st # "val" => /\ r # NoReg /\ OlderWriters(t, r) # {}
                     /\ o.tag = Producer(t, r) /\ o.tag \in Undone

\* The program counters in flight, and the one behind an instruction.
PcAt(n) == IF n < used THEN rob[TagPlus(head, n)].pc ELSE fpc
After(t) == PcAt(TagAge(t, head) + 1)

\* What is in flight is in program order, up to predictions still open.
PathInv ==
  /\ \A t \in Live : rob[t].done \/ ~IsControl(rob[t].pc) => After(t) = ISA!NextPc(rob[t].pc)
  /\ \A e \in rs["br"] \cup {br_e} : e.tag # NoTag => After(e.tag) = e.pred

\* A serializing instruction is alone; a CSR access is done at the head, with
\* the CSR as it is, and has what it writes.
SystemInv ==
  \A t \in Live :
    /\ Code(rob[t].pc).op \in {"ser", "mret", "fencei"} =>
         used = 1 /\ serial_in_flight /\ rob[t].done
    /\ Code(rob[t].pc).op = "csr" /\ rob[t].done => t = head /\ rob[t].val = csr
    /\ Code(rob[t].pc).op \in {"csr", "ser"} =>
         /\ Settled(t, Code(rob[t].pc).rs1)
         /\ rob[t].src = Source(t, Code(rob[t].pc).rs1)

DoneInv ==
  \A t \in Live : rob[t].done /\ ClassOf(rob[t].pc) # "none" => Computed(t, rob[t].val)

OperandInv ==
  \A c \in Class : \A e \in rs[c] : /\ Delivers(e.o1, e.tag, Code(rob[e.tag].pc).rs1)
                                    /\ Delivers(e.o2, e.tag, Code(rob[e.tag].pc).rs2)

ResultInv ==
  /\ \A e \in {alu_e, alu1_e, br_e} : e.tag # NoTag => Fed(e.tag, e.v1, e.v2)
  /\ \A s \in 1 .. MUL_STAGES : mul[s].tag # NoTag => Computed(mul[s].tag, mul[s].val)
  /\ div.tag # NoTag => Computed(div.tag, div.val)

ValueInv ==
  /\ regs = [r \in Reg |-> regs[r]]
  /\ PathInv /\ SystemInv /\ DoneInv /\ OperandInv /\ ResultInv

\* Tags are in the order of their ages.
LEMMA AgesDiffer ==
  ASSUME RingInv, NEW t \in Tag, NEW u \in Tag
  PROVE  /\ TagAge(t, head) \in Nat
         /\ TagAge(t, head) = TagAge(u, head) => t = u
<1>1. head \in Tag
  BY DEF RingInv
<1>2. TagAge(t, head) \in Nat
  BY <1>1, TagAgeType, RobSizeAssumption
<1>3. TagPlus(head, TagAge(t, head)) = t /\ TagPlus(head, TagAge(u, head)) = u
  BY <1>1, TagOfAge
<1> QED BY <1>2, <1>3

\* The producer is the youngest older writer, and the only one that is.
LEMMA ProducerFacts ==
  ASSUME RingInv, NEW t, NEW r, OlderWriters(t, r) # {}
  PROVE  /\ Producer(t, r) \in OlderWriters(t, r)
         /\ \A u \in OlderWriters(t, r) : ~Younger(u, Producer(t, r))
         /\ \A w \in OlderWriters(t, r) :
              (\A u \in OlderWriters(t, r) : ~Younger(u, w)) => w = Producer(t, r)
<1>1. ROB_SIZE \in Nat /\ OlderWriters(t, r) \subseteq Tag
      /\ \A u \in Tag : TagAge(u, head) \in 0 .. ROB_SIZE - 1
  BY RobSizeAssumption, TagAgeType DEF OlderWriters, Writers, Live, RingInv
<1>2. PICK w \in OlderWriters(t, r) : \A u \in OlderWriters(t, r) : ~Younger(u, w)
  <2> DEFINE T == {ROB_SIZE - TagAge(u, head) : u \in OlderWriters(t, r)}
  <2>1. T \in SUBSET Nat /\ T # {}
    BY <1>1
  <2>2. PICK m \in T : \A y \in T : m <= y
    <3> HIDE DEF T
    <3> QED BY <2>1, SetHasMin
  <2>3. PICK w \in OlderWriters(t, r) : m = ROB_SIZE - TagAge(w, head)
    BY <2>2
  <2>4. \A u \in OlderWriters(t, r) : ROB_SIZE - TagAge(w, head) <= ROB_SIZE - TagAge(u, head)
    BY <2>2, <2>3
  <2>5. \A u \in OlderWriters(t, r) : ~Younger(u, w)
    BY <1>1, <2>4 DEF Younger, TagYounger
  <2> QED BY <2>5
<1>3. /\ Producer(t, r) \in OlderWriters(t, r)
      /\ \A u \in OlderWriters(t, r) : ~Younger(u, Producer(t, r))
  BY <1>2 DEF Producer
<1>4. ASSUME NEW v \in OlderWriters(t, r), \A u \in OlderWriters(t, r) : ~Younger(u, v)
      PROVE  v = Producer(t, r)
  <2>1. ~Younger(v, Producer(t, r)) /\ ~Younger(Producer(t, r), v)
    BY <1>3, <1>4
  <2>2. v \in Tag /\ Producer(t, r) \in Tag
    BY <1>1, <1>3
  <2>3. TagAge(v, head) = TagAge(Producer(t, r), head)
    BY <1>1, <2>1, <2>2 DEF Younger, TagYounger
  <2> QED BY <2>2, <2>3, AgesDiffer
<1> QED BY <1>3, <1>4

-----------------------------------------------------------------------------
(* What is read over a cycle.                                              *)

\* A cycle without flush.
Moves(d, recover, finish) ==
  /\ Dispatched(d) /\ recover \in BOOLEAN /\ finish \in BOOLEAN
  /\ recover => d = <<>> /\ mispredict
  /\ Advance(d, recover, finish)

LEMMA MovesUndone ==
  ASSUME IInv, NEW d, NEW recover, NEW finish, Moves(d, recover, finish)
  PROVE  recover => d = <<>> /\ br_e.tag \in Undone
<1> SUFFICES ASSUME recover PROVE d = <<>> /\ br_e.tag \in Undone
  OBVIOUS
<1>1. br_e.tag \in Executing("br") /\ "br" \in Class
  BY DEF Moves, mispredict, OwnerDriving, Executing, Class
<1> QED BY <1>1 DEF Moves, IInv, PlaceInv, UndoneOf

\* What stays in flight keeps its order.
LEMMA OrderStep ==
  ASSUME IInv, NEW d, NEW recover, NEW finish, Moves(d, recover, finish)
  PROVE  /\ commit_count \in 0 .. 2 /\ commit_count <= used
         /\ head' = TagPlus(head, commit_count)
         /\ Live' = ((Live \ Retired) \ Squashed(recover)) \cup NewTags(d)
         /\ NewTags(d) \cap Live = {}
         /\ \A t \in Live' : /\ t \in Tag /\ TagAge(t, head) \in Nat
                             /\ TagAge(t, head) >= commit_count
                             /\ TagAge(t, head') = TagAge(t, head) - commit_count
         /\ \A t, u \in Live' : TagAge(t, head') > TagAge(u, head') <=> Younger(t, u)
<1>1. /\ ROB_SIZE \in Nat /\ head \in Tag /\ used \in 0 .. ROB_SIZE
      /\ commit_count \in 0 .. 2 /\ commit_count <= used /\ head' = TagPlus(head, commit_count)
  BY RobSizeAssumption, CommitFacts DEF IInv, RingInv, Moves, Advance
<1>2. /\ Live' = ((Live \ Retired) \ Squashed(recover)) \cup NewTags(d)
      /\ NewTags(d) \cap Live = {}
  BY MovesUndone, RingStep DEF IInv, Moves
<1>3. ASSUME NEW t \in Live'
      PROVE  /\ t \in Tag /\ TagAge(t, head) \in 0 .. ROB_SIZE - 1
             /\ TagAge(t, head) >= commit_count
  <2>1. CASE t \in NewTags(d)
    <3>1. t \in Tag
      BY <2>1, DispatchFacts DEF NewTags, IInv, Moves
    <3>2. TagAge(t, head) >= used
      BY <2>1, <3>1, DispatchFacts DEF IInv, Moves
    <3> QED BY <1>1, <3>1, <3>2, TagAgeType
  <2>2. CASE t \notin NewTags(d)
    <3>1. t \in Live /\ t \notin Retired /\ t \in Tag
      BY <1>2, <2>2 DEF Live
    <3>2. TagAge(t, head) \in 0 .. ROB_SIZE - 1
      BY <1>1, <3>1, TagAgeType
    <3> QED BY <1>1, <3>1, <3>2 DEF Retired, Retiring
  <2> QED BY <2>1, <2>2
<1>4. \A t \in Live' : TagAge(t, head') = TagAge(t, head) - commit_count
  BY <1>1, <1>3, AgeAfterCommit
<1>5. \A t, u \in Live' : TagAge(t, head') > TagAge(u, head') <=> Younger(t, u)
  BY <1>1, <1>3, <1>4 DEF Younger, TagYounger
<1> QED BY <1>1, <1>2, <1>3, <1>4, <1>5

\* What stays in flight is the instruction it was.
LEMMA KeptEntry ==
  ASSUME IInv, NEW d, NEW recover, NEW finish, Moves(d, recover, finish)
  PROVE  /\ prog' = prog
         /\ \A t \in Live' \ NewTags(d) :
              /\ t \in Live /\ t \notin Retired /\ t \notin Squashed(recover)
              /\ rob'[t] = Completed(t) /\ rob'[t].pc = rob[t].pc /\ rob'[t].src = rob[t].src
              /\ t \notin CdbTags => rob'[t] = rob[t]
              /\ t \in CdbTags => rob'[t].done /\ rob'[t].val = Station!ValueOn(Cdb, t)
         /\ \A i \in DOMAIN d :
              /\ TagPlus(tail, i - 1) \in NewTags(d)
              /\ rob'[TagPlus(tail, i - 1)] = RobEntry(d[i].pc)
              /\ rob'[TagPlus(tail, i - 1)].pc = d[i].pc
<1>1. /\ \A i \in DOMAIN d : rob'[TagPlus(tail, i - 1)] = RobEntry(d[i].pc)
      /\ \A t \in Live' \ NewTags(d) : rob'[t] = Completed(t)
  BY MovesUndone, RingStep DEF IInv, Moves
<1>2. \A t : /\ Completed(t).pc = rob[t].pc
             /\ t \in CdbTags => Completed(t).src = rob[t].src
             /\ t \notin CdbTags => Completed(t) = rob[t]
             /\ t \in CdbTags => Completed(t).done /\ Completed(t).val = Station!ValueOn(Cdb, t)
  BY DEF Completed, CdbTags, Station!ValueOn
<1>3. \A p : RobEntry(p).pc = p
  BY DEF RobEntry
<1>4. \A t \in Live' \ NewTags(d) : t \in Live /\ t \notin Retired /\ t \notin Squashed(recover)
  BY OrderStep
<1>5. prog' = prog
  BY DEF Moves, Advance
<1>6. ASSUME NEW t \in Live' \ NewTags(d)
      PROVE  /\ rob'[t] = Completed(t) /\ rob'[t].pc = rob[t].pc /\ rob'[t].src = rob[t].src
             /\ t \notin CdbTags => rob'[t] = rob[t]
             /\ t \in CdbTags => rob'[t].done /\ rob'[t].val = Station!ValueOn(Cdb, t)
  BY <1>1, <1>2, <1>6
<1>7. \A i \in DOMAIN d : TagPlus(tail, i - 1) \in NewTags(d)
  BY DEF NewTags
<1> QED BY <1>1, <1>3, <1>4, <1>5, <1>6, <1>7

\* No instruction dispatched before t writes r.
Unwritten(d, t, r) ==
  \A i \in DOMAIN d : r # NoReg /\ DestOf(d[i].pc) = r => ~Younger(t, TagPlus(tail, i - 1))

\* The older writers of an instruction that stays are those it had, without
\* what commits.
LEMMA OlderStep ==
  ASSUME IInv, NEW d, NEW recover, NEW finish, Moves(d, recover, finish),
         NEW t \in Live', NEW r, Unwritten(d, t, r)
  PROVE  /\ OlderWriters(t, r)' = OlderWriters(t, r) \ Retired
         /\ \A w \in OlderWriters(t, r) \ Retired : w \in Live' \ NewTags(d)
<1>1. \A w : w \in OlderWriters(t, r)' <=>
               /\ w \in Live' /\ r # NoReg /\ DestOf(rob'[w].pc) = r
               /\ TagAge(t, head') > TagAge(w, head')
  BY KeptEntry DEF OlderWriters, Writers, DestOf, Code, Younger, TagYounger, TagAge
<1>2. \A w : w \in OlderWriters(t, r) <=>
               w \in Live /\ r # NoReg /\ DestOf(rob[w].pc) = r /\ Younger(t, w)
  BY DEF OlderWriters, Writers
<1>3. ASSUME NEW w \in OlderWriters(t, r)' PROVE w \in OlderWriters(t, r) \ Retired
  <2>1. w \in Live' /\ r # NoReg /\ DestOf(rob'[w].pc) = r /\ Younger(t, w)
    BY <1>1, OrderStep
  <2>2. CASE w \in NewTags(d)
    <3>1. PICK i \in DOMAIN d : w = TagPlus(tail, i - 1)
      BY <2>2 DEF NewTags
    <3> QED BY <2>1, <3>1, KeptEntry DEF Unwritten
  <2>3. CASE w \notin NewTags(d)
    <3>1. w \in Live /\ w \notin Retired /\ rob'[w].pc = rob[w].pc
      BY <2>1, <2>3, KeptEntry
    <3> QED BY <1>2, <2>1, <3>1
  <2> QED BY <2>2, <2>3
<1>4. ASSUME NEW w \in OlderWriters(t, r) \ Retired
      PROVE  w \in Live' \ NewTags(d) /\ w \in OlderWriters(t, r)'
  <2>1. w \in Live /\ r # NoReg /\ DestOf(rob[w].pc) = r /\ Younger(t, w) /\ w \notin NewTags(d)
    BY <1>2, OrderStep
  <2>2. w \notin Squashed(recover)
    <3> SUFFICES ASSUME w \in Squashed(recover) PROVE FALSE
      OBVIOUS
    <3>1. recover /\ d = <<>> /\ br_e.tag \in Tag /\ Younger(w, br_e.tag)
      BY MovesUndone DEF Squashed, Undone, Live
    <3>2. t \in Live /\ t \notin Squashed(recover) /\ t \in Tag
      <4>1. NewTags(d) = {}
        BY <3>1 DEF NewTags
      <4> QED BY <4>1, OrderStep
    <3>3. /\ TagAge(t, head) \in Nat /\ TagAge(w, head) \in Nat /\ TagAge(br_e.tag, head) \in Nat
      BY <2>1, <3>1, <3>2, AgesDiffer DEF IInv, Live
    <3>4. ~Younger(t, br_e.tag)
      BY <3>1, <3>2 DEF Squashed
    <3> QED BY <2>1, <3>1, <3>3, <3>4 DEF Younger, TagYounger
  <2>3. w \in Live' \ NewTags(d)
    BY <2>1, <2>2, OrderStep
  <2>4. rob'[w].pc = rob[w].pc /\ TagAge(t, head') > TagAge(w, head')
    BY <2>1, <2>3, KeptEntry, OrderStep
  <2> QED BY <1>1, <2>1, <2>3, <2>4
<1> QED BY <1>3, <1>4

\* The same in the next state.
LEMMA ProducerAll ==
  RingInv => \A t, r : OlderWriters(t, r) # {} =>
    /\ Producer(t, r) \in OlderWriters(t, r)
    /\ \A w \in OlderWriters(t, r) :
         (\A u \in OlderWriters(t, r) : ~Younger(u, w)) => w = Producer(t, r)
BY ProducerFacts

LEMMA ProducerNext ==
  RingInv' => (\A t, r : OlderWriters(t, r) # {} =>
    /\ Producer(t, r) \in OlderWriters(t, r)
    /\ \A w \in OlderWriters(t, r) :
         (\A u \in OlderWriters(t, r) : ~Younger(u, w)) => w = Producer(t, r))'
BY ProducerAll, PTL

\* What commits is the head and, behind it, a second one.
LEMMA RetiredAre ==
  ASSUME RingInv
  PROVE  /\ \A t : t \in Retired <=> (commit0 /\ t = head) \/ (commit1 /\ t = head1)
         /\ commit1 => commit0
         /\ head1 \in Tag /\ Younger(head1, head) /\ head # head1
         /\ \A t \in Tag : t # head => Younger(t, head)
<1>1. /\ ROB_SIZE \in Nat /\ ROB_SIZE >= 2 /\ head \in Tag /\ used \in 0 .. ROB_SIZE
  BY RobSizeAssumption DEF RingInv
<1>2. TagAge(head, head) = 0 /\ TagAge(head1, head) = 1 /\ head1 \in Tag
  BY <1>1, AgeOfTag, TagPlusType DEF head1, TagAge, Tag
<1>3. \A t \in Tag : /\ TagAge(t, head) \in Nat
                     /\ TagAge(t, head) = 0 => t = head
                     /\ TagAge(t, head) = 1 => t = head1
  BY <1>1, <1>2, AgesDiffer
<1>4. commit0 => head \in Live
  BY <1>1 DEF commit0, h0_ready, h0, Live
<1>5. commit1 => commit0 /\ head1 \in Live
  BY <1>2 DEF commit1, h1, Live
<1>6. ASSUME NEW t PROVE t \in Retired <=> (commit0 /\ t = head) \/ (commit1 /\ t = head1)
  <2>1. t \in Retired <=> t \in Live /\ TagAge(t, head) < commit_count
    BY DEF Retired, Retiring
  <2>2. t \in Live => t \in Tag
    BY DEF Live
  <2>3. CASE commit1
    BY <1>2, <1>3, <1>4, <1>5, <2>1, <2>2, <2>3 DEF commit_count
  <2>4. CASE ~commit1 /\ commit0
    BY <1>2, <1>3, <1>4, <2>1, <2>2, <2>4 DEF commit_count
  <2>5. CASE ~commit1 /\ ~commit0
    BY <1>3, <2>1, <2>2, <2>5 DEF commit_count
  <2> QED BY <2>3, <2>4, <2>5
<1>7. \A t \in Tag : t # head => Younger(t, head)
  BY <1>2, <1>3 DEF Younger, TagYounger
<1>8. head # head1
  BY <1>2
<1> QED BY <1>2, <1>5, <1>6, <1>7, <1>8

\* The registers after commit.
LEMMA CommittedRegister ==
  ASSUME IInv, ValueInv, CommitEffects
  PROVE  /\ regs' = [r \in Reg |-> regs'[r]]
         /\ \A r \in Reg :
              regs'[r] = IF commit1 /\ DestOf(h1.pc) = r THEN h1.val
                         ELSE IF commit0 /\ DestOf(h0.pc) = r THEN commit0_value
                         ELSE regs[r]
<1>1. DOMAIN regs = Reg /\ regs = [r \in Reg |-> regs[r]]
  BY DEF ValueInv
<1>2. PICK one : one = IF commit0 THEN ISA!Written(regs, DestOf(h0.pc), commit0_value) ELSE regs
  OBVIOUS
<1>3. /\ DOMAIN one = Reg /\ one = [r \in Reg |-> one[r]]
      /\ \A r \in Reg : one[r] = IF commit0 /\ DestOf(h0.pc) = r THEN commit0_value ELSE regs[r]
  BY <1>1, <1>2 DEF ISA!Written
<1>4. regs' = IF commit1 THEN ISA!Written(one, DestOf(h1.pc), h1.val) ELSE one
  BY <1>2 DEF CommitEffects, CommittedRegs
<1>5. /\ regs' = [r \in Reg |-> regs'[r]]
      /\ \A r \in Reg : regs'[r] = IF commit1 /\ DestOf(h1.pc) = r THEN h1.val ELSE one[r]
  BY <1>3, <1>4 DEF ISA!Written
<1> QED BY <1>3, <1>5

\* Unless a serializing access commits, which is alone, the head commits the
\* value that was on the bus.
LEMMA CommittedValue ==
  ASSUME IInv, ValueInv, commit0
  PROVE  \/ commit0_value = h0.val
         \/ used = 1 /\ serial_in_flight
<1>1. head \in Live /\ h0.done /\ h0 = rob[head]
  BY DEF commit0, h0_ready, h0, Live, IInv, RingInv
<1>2. CASE Code(rob[head].pc).op = "csr"
  BY <1>1, <1>2 DEF ValueInv, SystemInv, commit0_value, h0_csr
<1>3. CASE Code(rob[head].pc).op = "ser"
  BY <1>1, <1>3 DEF ValueInv, SystemInv
<1>4. CASE Code(rob[head].pc).op \notin {"csr", "ser"}
  BY <1>1, <1>4 DEF commit0_value, h0_csr
<1> QED BY <1>2, <1>3, <1>4

\* A producer that does not commit stays the producer.
LEMMA ProducerStays ==
  ASSUME IInv, IInv', NEW d, NEW recover, NEW finish, Moves(d, recover, finish),
         NEW t \in Live', NEW r, Unwritten(d, t, r),
         OlderWriters(t, r) # {}, Producer(t, r) \notin Retired
  PROVE  /\ OlderWriters(t, r)' # {} /\ Producer(t, r)' = Producer(t, r)
         /\ Producer(t, r) \in Live' \ NewTags(d)
<1>1. PICK w : w = Producer(t, r)
  OBVIOUS
<1>2. w \in OlderWriters(t, r) /\ \A u \in OlderWriters(t, r) : ~Younger(u, w)
  BY <1>1, ProducerFacts DEF IInv
<1>3. /\ OlderWriters(t, r)' = OlderWriters(t, r) \ Retired
      /\ \A u \in OlderWriters(t, r) \ Retired : u \in Live' \ NewTags(d)
  BY OlderStep
<1>4. w \in OlderWriters(t, r)' /\ OlderWriters(t, r)' # {} /\ w \in Live' \ NewTags(d)
  BY <1>1, <1>2, <1>3
<1>5. \A u \in OlderWriters(t, r)' : u \in Live' /\ ~Younger(u, w)
  BY <1>2, <1>3
<1>6. \A u \in OlderWriters(t, r)' : ~ (TagAge(u, head') > TagAge(w, head'))
  BY <1>4, <1>5, OrderStep
<1>7. w = Producer(t, r)'
  BY <1>4, <1>6, ProducerNext DEF IInv, Younger, TagYounger, TagAge
<1> QED BY <1>1, <1>4, <1>7

\* What an instruction reads does not change once it is there, whether its
\* producer stays or commits.
LEMMA SourceStep ==
  ASSUME IInv, IInv', ValueInv, NEW d, NEW recover, NEW finish, Moves(d, recover, finish),
         NEW t \in Live', NEW r \in Reg \cup {NoReg}, Unwritten(d, t, r), Settled(t, r)
  PROVE  Settled(t, r)' /\ Source(t, r)' = Source(t, r)
<1>1. OlderWriters(t, r)' = OlderWriters(t, r) \ Retired
      /\ \A w \in OlderWriters(t, r) \ Retired : w \in Live' \ NewTags(d)
  BY OlderStep
<1>2. CASE r = NoReg
  BY <1>2 DEF Settled, Source
<1>3. CASE r # NoReg /\ OlderWriters(t, r) = {}
  <2>1. OlderWriters(t, r)' = {} /\ Source(t, r) = regs[r] /\ r \in Reg
    BY <1>1, <1>3 DEF Source
  <2>2. Settled(t, r)' /\ Source(t, r)' = regs'[r]
    BY <1>3, <2>1 DEF Settled, Source
  <2>3. \A w \in Retired : DestOf(rob[w].pc) # r
    <3> SUFFICES ASSUME NEW w \in Retired, DestOf(rob[w].pc) = r PROVE FALSE
      OBVIOUS
    <3>1. w \in Live /\ w \in Tag /\ TagAge(w, head) \in Nat /\ TagAge(w, head) < commit_count
      BY AgesDiffer DEF Retired, Retiring, Live, IInv
    <3>2. Younger(t, w)
      BY <3>1, OrderStep DEF Younger, TagYounger
    <3> QED BY <1>3, <3>1, <3>2 DEF OlderWriters, Writers
  <2>4. regs'[r] = regs[r]
    <3>1. /\ commit0 => DestOf(h0.pc) # r
          /\ commit1 => DestOf(h1.pc) # r
      BY <2>3, RetiredAre DEF IInv, h0, h1
    <3> QED BY <2>1, <3>1, CommittedRegister DEF Moves, Advance
  <2> QED BY <2>1, <2>2, <2>4
<1>4. CASE r # NoReg /\ OlderWriters(t, r) # {}
  <2>1. PICK w : w = Producer(t, r)
    OBVIOUS
  <2>2. /\ w \in OlderWriters(t, r) /\ \A u \in OlderWriters(t, r) : ~Younger(u, w)
        /\ rob[w].done /\ Source(t, r) = rob[w].val
    BY <1>4, <2>1, ProducerFacts DEF Settled, Source, IInv
  <2>3. w \in Live /\ w \in Tag /\ Younger(t, w) /\ DestOf(rob[w].pc) = r
    BY <2>2 DEF OlderWriters, Writers, Live
  <2>4. CASE w \notin Retired
    <3>1. OlderWriters(t, r)' # {} /\ w = Producer(t, r)' /\ w \in Live' \ NewTags(d)
      BY <1>4, <2>1, <2>4, ProducerStays
    <3>2. rob'[w] = rob[w]
      <4>1. w \notin CdbTags
        BY <2>2, BusFacts DEF IInv, Undone
      <4> QED BY <3>1, <4>1, KeptEntry
    <3> QED BY <1>4, <2>2, <3>1, <3>2 DEF Settled, Source
  <2>5. CASE w \in Retired
    <3>1. \A u \in OlderWriters(t, r) : u \in Retired
      <4> SUFFICES ASSUME NEW u \in OlderWriters(t, r) PROVE u \in Retired
        OBVIOUS
      <4>1. u \in Live /\ u \in Tag /\ ~Younger(u, w)
        BY <2>2 DEF OlderWriters, Writers, Live
      <4>2. TagAge(u, head) \in Nat /\ TagAge(w, head) \in Nat /\ TagAge(w, head) < commit_count
        BY <2>3, <2>5, <4>1, AgesDiffer DEF Retired, Retiring, IInv
      <4>3. TagAge(u, head) < commit_count
        BY <4>1, <4>2, OrderStep DEF Younger, TagYounger
      <4> QED BY <4>1, <4>3 DEF Retired, Retiring
    <3>2. OlderWriters(t, r)' = {} /\ r \in Reg
      BY <1>1, <1>4, <3>1
    <3>3. Settled(t, r)' /\ Source(t, r)' = regs'[r]
      BY <1>4, <3>2 DEF Settled, Source
    <3>4. regs'[r] = rob[w].val
      <4>1. CASE commit1 /\ w = head1
        <5>1. DestOf(h1.pc) = r /\ h1.val = rob[w].val
          BY <2>3, <4>1 DEF h1
        <5> QED BY <3>2, <4>1, <5>1, CommittedRegister DEF Moves, Advance
      <4>2. CASE commit0 /\ w = head
        <5>1. DestOf(h0.pc) = r /\ h0.val = rob[w].val
          BY <2>3, <4>2 DEF h0
        <5>2. ~ (commit1 /\ DestOf(h1.pc) = r)
          <6> SUFFICES ASSUME commit1, DestOf(rob[head1].pc) = r PROVE FALSE
            BY DEF h1
          <6>1. head1 \in Live /\ Younger(head1, w) /\ head1 \in Retired
            BY <4>2, RetiredAre DEF IInv, Retired
          <6>2. Younger(t, head1)
            <7>1. head1 \in Tag /\ TagAge(head1, head) \in Nat /\ TagAge(head1, head) < commit_count
              BY <6>1, AgesDiffer DEF Retired, Retiring, Live, IInv
            <7> QED BY <7>1, OrderStep DEF Younger, TagYounger
          <6>3. head1 \in OlderWriters(t, r)
            BY <1>4, <6>1, <6>2 DEF OlderWriters, Writers
          <6> QED BY <2>2, <6>1, <6>3
        <5>3. commit0_value = h0.val
          <6> SUFFICES ASSUME used = 1, serial_in_flight PROVE FALSE
            BY <4>2, CommittedValue
          <6>1. d = <<>>
            BY DEF Moves, Dispatched, CanDispatch0
          <6>2. t \in Live /\ t \notin Retired
            <7>1. NewTags(d) = {}
              BY <6>1 DEF NewTags
            <7> QED BY <7>1, OrderStep
          <6>3. TagAge(t, head) < 1 /\ TagAge(t, head) \in Nat /\ t \in Tag
            BY <6>2, AgesDiffer DEF IInv, RingInv, Live
          <6>4. TagAge(t, head) >= commit_count /\ commit_count >= 1
            BY <4>2, OrderStep, RetiredAre DEF commit_count
          <6> QED BY <6>3, <6>4, OrderStep
        <5> QED BY <3>2, <4>2, <5>1, <5>2, <5>3, CommittedRegister DEF Moves, Advance
      <4> QED BY <2>5, <4>1, <4>2, RetiredAre DEF IInv
    <3> QED BY <2>2, <3>3, <3>4
  <2> QED BY <2>4, <2>5
<1> QED BY <1>2, <1>3, <1>4

\* What is broadcast is there from the next cycle on.
LEMMA BroadcastSource ==
  ASSUME IInv, IInv', NEW d, NEW recover, NEW finish, Moves(d, recover, finish),
         NEW t \in Live', NEW r, r # NoReg, Unwritten(d, t, r),
         OlderWriters(t, r) # {}, Producer(t, r) \in CdbTags
  PROVE  Settled(t, r)' /\ Source(t, r)' = Station!ValueOn(Cdb, Producer(t, r))
<1>1. PICK w : w = Producer(t, r)
  OBVIOUS
<1>2. w \notin Retired
  <2>1. w \in Undone
    BY <1>1, BusFacts DEF IInv
  <2> QED BY <2>1, CommitFacts DEF IInv, Undone, Live, Retired
<1>3. OlderWriters(t, r)' # {} /\ w = Producer(t, r)' /\ w \in Live' \ NewTags(d)
  BY <1>1, <1>2, ProducerStays
<1>4. rob'[w].done /\ rob'[w].val = Station!ValueOn(Cdb, w)
  BY <1>1, <1>3, KeptEntry
<1> QED BY <1>1, <1>3, <1>4 DEF Settled, Source

\* Waking keeps an operand what is read, or the name of who computes it.
LEMMA DeliversStep ==
  ASSUME IInv, IInv', ValueInv, NEW d, NEW recover, NEW finish, Moves(d, recover, finish),
         NEW t \in Live', NEW r \in Reg \cup {NoReg}, Unwritten(d, t, r),
         NEW o, Delivers(o, t, r), NEW w, NEW new, new = Station!Woken(o, Cdb, w)
  PROVE  Delivers(new, t, r)'
<1>1. Station!Carried(Cdb, o.tag) <=> o.tag \in CdbTags
  BY DEF Station!Carried, CdbTags
<1>2. CASE o.st = "val"
  <2>1. new = o
    BY <1>2 DEF Station!Woken
  <2> QED BY <1>2, <2>1, SourceStep DEF Delivers
<1>3. CASE o.st # "val" /\ o.tag \in CdbTags
  <2>1. new = Station!Value(Station!ValueOn(Cdb, o.tag))
    BY <1>1, <1>3 DEF Station!Woken
  <2>2. r # NoReg /\ OlderWriters(t, r) # {} /\ o.tag = Producer(t, r)
    BY <1>3 DEF Delivers
  <2>3. Settled(t, r)' /\ Source(t, r)' = Station!ValueOn(Cdb, o.tag)
    BY <1>3, <2>2, BroadcastSource
  <2> QED BY <2>1, <2>3 DEF Delivers, Station!Value
<1>4. CASE o.st # "val" /\ o.tag \notin CdbTags
  <2>1. new.st # "val" /\ new.tag = o.tag
    BY <1>1, <1>4 DEF Station!Woken
  <2>2. r # NoReg /\ OlderWriters(t, r) # {} /\ o.tag = Producer(t, r) /\ o.tag \in Undone
    BY <1>4 DEF Delivers
  <2>3. o.tag \notin Retired
    BY <2>2, CommitFacts DEF IInv, Undone, Live, Retired
  <2>4. OlderWriters(t, r)' # {} /\ o.tag = Producer(t, r)' /\ o.tag \in Live' \ NewTags(d)
    BY <2>2, <2>3, ProducerStays
  <2>5. o.tag \in Undone'
    <3>1. ~rob'[o.tag].done
      BY <1>4, <2>2, <2>4, KeptEntry DEF Undone
    <3> QED BY <2>4, <3>1 DEF Undone
  <2> QED BY <2>1, <2>2, <2>4, <2>5 DEF Delivers
<1> QED BY <1>2, <1>3, <1>4

\* An operand that is ready leaves with what is read.
LEMMA ResolvedIsSource ==
  ASSUME IInv, IInv', ValueInv, NEW d, NEW recover, NEW finish, Moves(d, recover, finish),
         NEW t \in Live', NEW r \in Reg \cup {NoReg}, Unwritten(d, t, r),
         NEW o, Delivers(o, t, r), o.st \in {"val", "spec"},
         o.st = "spec" => o.tag \in {alu_e.tag, alu1_e.tag} \ {NoTag}
  PROVE  Settled(t, r)' /\ Station!Resolved(o, Cdb) = Source(t, r)'
<1>1. CASE o.st = "val"
  BY <1>1, SourceStep DEF Delivers, Station!Resolved
<1>2. CASE o.st = "spec"
  <2>1. o.tag \in CdbTags
    <3>1. o.tag \in Leaving("alu") /\ "alu" \in Class
      BY <1>2 DEF Leaving, Class
    <3> QED BY <3>1, BusFacts DEF IInv
  <2>2. r # NoReg /\ OlderWriters(t, r) # {} /\ o.tag = Producer(t, r)
    BY <1>2 DEF Delivers
  <2>3. Settled(t, r)' /\ Source(t, r)' = Station!ValueOn(Cdb, o.tag)
    BY <2>1, <2>2, BroadcastSource
  <2>4. Station!Carried(Cdb, o.tag)
    BY <2>1 DEF Station!Carried, CdbTags
  <2> QED BY <1>2, <2>3, <2>4 DEF Station!Resolved
<1> QED BY <1>1, <1>2

\* Where the new instructions are.
LEMMA NewAges ==
  ASSUME IInv, NEW d, NEW recover, NEW finish, Moves(d, recover, finish), NEW i \in DOMAIN d
  PROVE  /\ i \in {1, 2} /\ (\A j \in DOMAIN d : j \in {1, 2}) /\ 1 \in DOMAIN d
         /\ TagPlus(tail, i - 1) \in Tag /\ TagPlus(tail, i - 1) \in Live'
         /\ TagAge(TagPlus(tail, i - 1), head) = used + i - 1 /\ used \in Nat
         /\ \A u \in Live : Younger(TagPlus(tail, i - 1), u)
<1>1. Len(d) \in 0 .. 2 /\ DOMAIN d = 1 .. Len(d)
  BY DispatchFacts DEF IInv, Moves
<1>2. i \in {1, 2} /\ (\A j \in DOMAIN d : j \in {1, 2}) /\ 1 \in DOMAIN d
  <2>1. PICK n \in 0 .. 2 : DOMAIN d = 1 .. n
    BY <1>1
  <2>2. \A j \in 1 .. n : j \in {1, 2}
    BY <2>1
  <2>3. i \in 1 .. n
    BY <2>1
  <2>4. 1 \in 1 .. n
    BY <2>3
  <2> QED BY <2>1, <2>2, <2>3, <2>4
<1>3. /\ TagPlus(tail, i - 1) \in Tag
      /\ TagAge(TagPlus(tail, i - 1), head) = used + i - 1
  BY DispatchFacts DEF IInv, Moves
<1>4. used \in Nat /\ head \in Tag
  BY RobSizeAssumption DEF IInv, RingInv
<1>5. TagPlus(tail, i - 1) \in Live'
  BY OrderStep DEF NewTags
<1>6. ASSUME NEW u \in Live PROVE Younger(TagPlus(tail, i - 1), u)
  <2>1. u \in Tag /\ TagAge(u, head) < used
    BY DEF Live, IInv, RingInv
  <2>2. TagAge(u, head) \in Nat
    BY <2>1, AgesDiffer DEF IInv
  <2> QED BY <1>2, <1>3, <1>4, <2>1, <2>2 DEF Younger, TagYounger
<1> QED BY <1>2, <1>3, <1>4, <1>5, <1>6

\* What dispatch finds is what the new instruction reads, but for what the
\* slot before it writes.
LEMMA OperandDelivers ==
  ASSUME IInv, NEW t, \A u \in Live : Younger(t, u), NEW r \in Reg \cup {NoReg}
  PROVE  Delivers(Operand(r), t, r)
<1>1. OlderWriters(t, r) = Writers(r)
  BY DEF OlderWriters, Writers
<1>2. CASE r = NoReg
  BY <1>2 DEF Operand, Delivers, Station!Value, Settled, Source
<1>3. CASE r # NoReg /\ Writers(r) = {}
  BY <1>1, <1>3 DEF Operand, Delivers, Station!Value, Settled, Source
<1>4. CASE r # NoReg /\ Writers(r) # {}
  <2>1. PICK n : n = NewestWriter(r)
    OBVIOUS
  <2>2. n = Producer(t, r) /\ n \in Writers(r)
    <3>1. PICK p : p = Producer(t, r)
      OBVIOUS
    <3>2. p \in Writers(r) /\ \A u \in Writers(r) : ~Younger(u, p)
      BY <1>1, <1>4, <3>1, ProducerFacts DEF IInv
    <3>3. n \in Writers(r) /\ \A u \in Writers(r) : ~Younger(u, n)
      BY <2>1, <3>2 DEF NewestWriter
    <3> QED BY <1>1, <1>4, <3>3, ProducerFacts DEF IInv
  <2>3. Operand(r) = IF rob[n].done THEN Station!Value(rob[n].val) ELSE Station!Wait(n)
    BY <1>4, <2>1 DEF Operand
  <2>4. n \in Live
    BY <2>2 DEF Writers
  <2> QED BY <1>1, <1>4, <2>2, <2>3, <2>4
          DEF Delivers, Station!Value, Station!Wait, Settled, Source, Undone
<1> QED BY <1>2, <1>3, <1>4

\* What a new entry holds after its first wake-up, with the second slot
\* looking at the first.
LEMMA NewDelivers ==
  ASSUME IInv, IInv', ValueInv, NEW d, NEW recover, NEW finish, Moves(d, recover, finish),
         NEW i \in DOMAIN d, NEW t, t = TagPlus(tail, i - 1), NEW r \in Reg \cup {NoReg},
         NEW o, o = IF i = 1 THEN Operand(r) ELSE Operand1(r, d[1].pc),
         NEW w, NEW new, new = Station!Woken(o, Cdb, w)
  PROVE  Delivers(new, t, r)'
<1>1. /\ i \in {1, 2} /\ (\A j \in DOMAIN d : j \in {1, 2}) /\ 1 \in DOMAIN d
      /\ t \in Live' /\ TagAge(t, head) = used + i - 1 /\ used \in Nat
      /\ \A u \in Live : Younger(t, u)
      /\ recover = FALSE
  <2>1. i \in {1, 2} /\ (\A j \in DOMAIN d : j \in {1, 2}) /\ 1 \in DOMAIN d /\ used \in Nat
    BY NewAges
  <2>4. recover = FALSE
    <3>1. recover => d = <<>>
      BY DEF Moves
    <3>2. recover \in BOOLEAN
      BY DEF Moves
    <3> QED BY <3>1, <3>2
  <2>2. TagPlus(tail, i - 1) \in Live' /\ TagAge(TagPlus(tail, i - 1), head) = used + i - 1
    BY NewAges
  <2>3. \A u \in Live : Younger(TagPlus(tail, i - 1), u)
    BY NewAges
  <2> QED BY <2>1, <2>2, <2>3, <2>4
<1>2. \A j \in DOMAIN d : TagAge(TagPlus(tail, j - 1), head) = used + j - 1
  BY NewAges
<1>3. CASE i = 2 /\ r # NoReg /\ DestOf(d[1].pc) = r
  <2>1. o = Station!Wait(tail)
    BY <1>3 DEF Operand1
  <2>2. TagPlus(tail, 0) = tail /\ tail \in NewTags(d) /\ tail \in Undone' /\ TagAge(tail, head) = used
    <3>1. Advance(d, FALSE, finish)
      BY <1>1 DEF Moves
    <3> QED BY <1>3, <3>1, FirstSlotUndone DEF IInv, Moves
  <2>3. tail \notin CdbTags
    BY <2>2, BusFacts, OrderStep DEF IInv, Undone
  <2>4. new.st # "val" /\ new.tag = tail
    <3>1. ~Station!Carried(Cdb, tail)
      BY <2>3 DEF Station!Carried, CdbTags
    <3> QED BY <2>1, <3>1 DEF Station!Woken, Station!Wait
  <2>5. tail \in OlderWriters(t, r)'
    <3>1. tail \in Live' /\ TagAge(t, head') > TagAge(tail, head')
      BY <1>1, <1>3, <2>2, OrderStep DEF Younger, TagYounger, Undone
    <3>2. DestOf(rob'[tail].pc) = r
      <4>1. 1 - 1 = 0
        OBVIOUS
      <4> QED BY <1>1, <1>3, <2>2, <4>1, KeptEntry
    <3> QED BY <1>3, <3>1, <3>2, KeptEntry
            DEF OlderWriters, Writers, Younger, TagYounger, TagAge, DestOf, Code
  <2>6. \A u \in OlderWriters(t, r)' : ~ (TagAge(u, head') > TagAge(tail, head'))
    <3> SUFFICES ASSUME NEW u \in OlderWriters(t, r)'
                 PROVE  ~ (TagAge(u, head') > TagAge(tail, head'))
      OBVIOUS
    <3>1. u \in Live' /\ TagAge(t, head') > TagAge(u, head')
      BY DEF OlderWriters, Writers, Younger, TagYounger, TagAge
    <3>2. TagAge(t, head) > TagAge(u, head) /\ TagAge(u, head) \in Nat
      BY <1>1, <3>1, OrderStep DEF Younger, TagYounger
    <3>3. ~ Younger(u, tail)
      BY <1>1, <1>3, <2>2, <3>2 DEF Younger, TagYounger
    <3>4. tail \in Live'
      BY <2>2 DEF Undone
    <3> QED BY <3>1, <3>3, <3>4, OrderStep
  <2>7. tail = Producer(t, r)'
    BY <2>5, <2>6, ProducerNext DEF IInv, Younger, TagYounger, TagAge
  <2> QED BY <1>3, <2>2, <2>4, <2>5, <2>7 DEF Delivers
<1>4. CASE ~ (i = 2 /\ r # NoReg /\ DestOf(d[1].pc) = r)
  <2>1. o = Operand(r)
    BY <1>1, <1>4 DEF Operand1
  <2>2. Delivers(o, t, r)
    BY <1>1, <2>1, OperandDelivers
  <2>3. Unwritten(d, t, r)
    <3> SUFFICES ASSUME NEW j \in DOMAIN d, r # NoReg, DestOf(d[j].pc) = r
                 PROVE  ~Younger(t, TagPlus(tail, j - 1))
      BY DEF Unwritten
    <3>1. j >= i
      BY <1>1, <1>4
    <3> QED BY <1>1, <1>2, <3>1 DEF Younger, TagYounger
  <2> QED BY <1>1, <2>2, <2>3, DeliversStep
<1> QED BY <1>3, <1>4

\* What is in flight stays unwritten by what is dispatched behind it.
LEMMA OlderUnwritten ==
  ASSUME IInv, NEW d, NEW recover, NEW finish, Moves(d, recover, finish),
         NEW t \in Live, NEW r
  PROVE  Unwritten(d, t, r)
<1> SUFFICES ASSUME NEW i \in DOMAIN d PROVE ~Younger(t, TagPlus(tail, i - 1))
  BY DEF Unwritten
<1>1. t \in Tag /\ TagAge(t, head) < used /\ TagAge(t, head) \in Nat
  BY AgesDiffer DEF Live, IInv, RingInv
<1>2. TagAge(TagPlus(tail, i - 1), head) = used + i - 1 /\ used \in Nat /\ i \in {1, 2}
  BY NewAges
<1> QED BY <1>1, <1>2 DEF Younger, TagYounger

\* The registers an instruction reads are registers.
LEMMA SourceRegisters ==
  ASSUME IInv, NEW p \in PC
  PROVE  Code(p).rs1 \in Reg \cup {NoReg} /\ Code(p).rs2 \in Reg \cup {NoReg}
BY ProgramFacts DEF IInv, Instruction

LEMMA OperandsStep ==
  ASSUME IInv, IInv', ValueInv, NEW d, NEW recover, NEW finish, Moves(d, recover, finish)
  PROVE  OperandInv'
<1>1. ASSUME NEW c \in Class, NEW x \in rs'[c]
      PROVE  /\ Delivers(x.o1, x.tag, Code(rob[x.tag].pc).rs1)'
             /\ Delivers(x.o2, x.tag, Code(rob[x.tag].pc).rs2)'
  <2> DEFINE w == IF c = "div" THEN {} ELSE wk
  <2>1. PICK taken : rs'[c] = NextStation(c, d, taken, recover)
    <3>1. rs' = [alu |-> NextStation("alu", d, wk, recover),
                 br  |-> NextStation("br", d, {br_sel.tag}, recover),
                 mul |-> NextStation("mul", d, IF mul_advance THEN {mul_sel.tag} ELSE {}, recover),
                 div |-> NextStation("div", d, IF div_start(recover) THEN {div_sel.tag} ELSE {},
                                     recover)]
      BY DEF Moves, Advance
    <3>2. c \in {"alu", "br", "mul", "div"}
      BY DEF Class
    <3> QED BY <3>1, <3>2
  <2>2. PICK e \in Kept(c, taken, recover) \cup Inserted(c, d) :
          x = Station!WokenEntry(e, Cdb, w)
    BY <1>1, <2>1 DEF NextStation, Kept
  <2>3. /\ x.tag = e.tag
        /\ x.o1 = Station!Woken(e.o1, Cdb, w) /\ x.o2 = Station!Woken(e.o2, Cdb, w)
    BY <2>2, EntryShapes
  <2> HIDE DEF w
  <2>4. PICK t, y1, y2 : t = x.tag /\ y1 = x.o1 /\ y2 = x.o2
    OBVIOUS
  <2>5. t \in Live'
    <3>1. t \in Waiting(c)'
      BY <1>1, <2>4 DEF Waiting
    <3> QED BY <3>1 DEF IInv, PlaceInv, UndoneOf, Undone
  <2>6. PICK r1, r2 : r1 = Code(rob[t].pc)'.rs1 /\ r2 = Code(rob[t].pc)'.rs2
    OBVIOUS
  <2>7. CASE e \in Kept(c, taken, recover)
    <3>1. e \in rs[c] /\ e.tag \in Live
      <4>1. e \in rs[c]
        BY <2>7 DEF Kept
      <4>2. e.tag \in Waiting(c)
        BY <4>1 DEF Waiting
      <4> QED BY <4>1, <4>2 DEF IInv, PlaceInv, UndoneOf, Undone
    <3>2. t \in Live' \ NewTags(d) /\ rob'[t].pc = rob[t].pc /\ prog' = prog /\ rob[t].pc \in PC
      BY <2>3, <2>4, <2>5, <3>1, OrderStep, KeptEntry DEF IInv, RingInv
    <3>3. r1 = Code(rob[t].pc).rs1 /\ r2 = Code(rob[t].pc).rs2
      BY <2>6, <3>2 DEF Code
    <3>4. Delivers(e.o1, t, r1) /\ Delivers(e.o2, t, r2)
      BY <2>3, <2>4, <3>1, <3>3 DEF ValueInv, OperandInv
    <3>5. r1 \in Reg \cup {NoReg} /\ r2 \in Reg \cup {NoReg}
      BY <3>2, <3>3, SourceRegisters
    <3>6. Unwritten(d, t, r1) /\ Unwritten(d, t, r2)
      BY <2>3, <2>4, <3>1, OlderUnwritten
    <3>7. Delivers(y1, t, r1)' /\ Delivers(y2, t, r2)'
      BY <2>3, <2>4, <2>5, <3>4, <3>5, <3>6, DeliversStep
    <3> QED BY <2>4, <2>6, <3>7
  <2>8. CASE e \in Inserted(c, d)
    <3>1. PICK i \in DOMAIN d : e = RsEntry(d, i)
      BY <2>8 DEF Inserted
    <3>2. /\ t = TagPlus(tail, i - 1) /\ rob'[t].pc = d[i].pc /\ prog' = prog
          /\ d[i].pc \in PC
      BY <2>3, <2>4, <3>1, EntryShapes, KeptEntry, DispatchFacts DEF IInv, Moves
    <3>3. r1 = Code(d[i].pc).rs1 /\ r2 = Code(d[i].pc).rs2
      BY <2>6, <3>2 DEF Code
    <3>4. /\ e.o1 = IF i = 1 THEN Operand(r1) ELSE Operand1(r1, d[1].pc)
          /\ e.o2 = IF i = 1 THEN Operand(r2) ELSE Operand1(r2, d[1].pc)
      BY <3>1, <3>3 DEF RsEntry
    <3>5. r1 \in Reg \cup {NoReg} /\ r2 \in Reg \cup {NoReg}
      BY <3>2, <3>3, SourceRegisters
    <3>6. Delivers(y1, t, r1)' /\ Delivers(y2, t, r2)'
      BY <2>3, <2>4, <3>2, <3>4, <3>5, NewDelivers
    <3> QED BY <2>4, <2>6, <3>6
  <2> QED BY <2>2, <2>7, <2>8
<1> QED BY <1>1 DEF OperandInv

-----------------------------------------------------------------------------
(* What is computed over a cycle.                                          *)

LEMMA UndoneSurvives ==
  ASSUME IInv, NEW d, NEW recover, NEW finish, Moves(d, recover, finish),
         NEW t \in Undone, t \notin Squashed(recover)
  PROVE  t \in Live' \ NewTags(d) /\ t \in Live /\ rob[t].pc \in PC
<1>1. t \in Live /\ t \notin Retired
  BY CommitFacts DEF IInv, Undone, Live, Retired
<1> QED BY <1>1, OrderStep DEF IInv, RingInv

\* What a kept instruction has read and computed stays so.
LEMMA FedStep ==
  ASSUME IInv, IInv', ValueInv, NEW d, NEW recover, NEW finish, Moves(d, recover, finish),
         NEW t \in Live' \ NewTags(d), NEW v1, NEW v2
  PROVE  /\ Fed(t, v1, v2) => Fed(t, v1, v2)'
         /\ Result(t, v1, v2)' = Result(t, v1, v2)
<1>1. /\ prog' = prog /\ rob'[t].pc = rob[t].pc /\ t \in Live /\ rob[t].pc \in PC
  BY KeptEntry DEF IInv, RingInv
<1>2. Result(t, v1, v2)' = Result(t, v1, v2)
  BY <1>1 DEF Result, IsControl, Code, ISA!Term
<1>3. PICK r1, r2 : r1 = Code(rob[t].pc).rs1 /\ r2 = Code(rob[t].pc).rs2
  OBVIOUS
<1>4. r1 = Code(rob[t].pc)'.rs1 /\ r2 = Code(rob[t].pc)'.rs2
  BY <1>1, <1>3 DEF Code
<1>5. /\ r1 \in Reg \cup {NoReg} /\ r2 \in Reg \cup {NoReg}
      /\ Unwritten(d, t, r1) /\ Unwritten(d, t, r2)
  BY <1>1, <1>3, SourceRegisters, OlderUnwritten
<1>6. ASSUME Fed(t, v1, v2) PROVE Fed(t, v1, v2)'
  <2>1. Settled(t, r1) /\ v1 = Source(t, r1) /\ Settled(t, r2) /\ v2 = Source(t, r2)
    BY <1>3, <1>6 DEF Fed
  <2>2. Settled(t, r1)' /\ Source(t, r1)' = Source(t, r1)
    BY <1>5, <2>1, SourceStep
  <2>3. Settled(t, r2)' /\ Source(t, r2)' = Source(t, r2)
    BY <1>5, <2>1, SourceStep
  <2>4. Settled(t, r1)' /\ v1 = Source(t, r1)' /\ Settled(t, r2)' /\ v2 = Source(t, r2)'
    BY <2>1, <2>2, <2>3
  <2> QED BY <1>4, <2>4 DEF Fed
<1> QED BY <1>2, <1>6

LEMMA ComputedStep ==
  ASSUME IInv, IInv', ValueInv, NEW d, NEW recover, NEW finish, Moves(d, recover, finish),
         NEW t \in Live' \ NewTags(d), NEW v, Computed(t, v)
  PROVE  Computed(t, v)'
<1>1. PICK v1, v2 : Fed(t, v1, v2) /\ v = Result(t, v1, v2)
  BY DEF Computed
<1>2. Fed(t, v1, v2)' /\ v = Result(t, v1, v2)'
  BY <1>1, FedStep
<1> QED BY <1>2 DEF Computed

\* What is issued leaves with what it reads.
LEMMA IssuedFed ==
  ASSUME IInv, IInv', ValueInv, NEW d, NEW recover, NEW finish, Moves(d, recover, finish),
         NEW c \in Class, NEW n, NEW x, x = Issued(c, n), x.tag # NoTag,
         x.tag \notin Squashed(recover)
  PROVE  /\ x.tag \in Live' \ NewTags(d)
         /\ Fed(x.tag, x.v1, x.v2)'
         /\ \E e \in rs[c] : x.tag = e.tag /\ x.pred = e.pred
<1>1. PICK e \in rs[c] :
        /\ Station!Ready(e) /\ x.tag = e.tag /\ x.pred = e.pred
        /\ x.v1 = Station!Resolved(e.o1, Cdb) /\ x.v2 = Station!Resolved(e.o2, Cdb)
  <2>1. PICK offer : offer = Station!Offered(rs[c], head, n)
    OBVIOUS
  <2>2. offer # {}
    BY <2>1 DEF Issued, None
  <2>3. PICK e : e = CHOOSE y \in offer : TRUE
    OBVIOUS
  <2>4. e \in offer
    BY <2>2, <2>3
  <2>5. e \in rs[c] /\ Station!Ready(e)
    BY <2>1, <2>4 DEF Station!Offered
  <2>6. x = [tag |-> e.tag, v1 |-> Station!Resolved(e.o1, Cdb),
             v2 |-> Station!Resolved(e.o2, Cdb), pred |-> e.pred]
    BY <2>1, <2>2, <2>3 DEF Issued
  <2> QED BY <2>5, <2>6
<1>2. PICK t : t = x.tag
  OBVIOUS
<1>3. t \in Live' \ NewTags(d) /\ t \in Live /\ rob[t].pc \in PC
  <2>1. e.tag \in Waiting(c)
    BY <1>1 DEF Waiting
  <2>2. t \in Undone
    BY <1>1, <1>2, <2>1 DEF IInv, PlaceInv, UndoneOf
  <2> QED BY <1>2, <2>2, UndoneSurvives
<1>4. PICK r1, r2 : r1 = Code(rob[t].pc).rs1 /\ r2 = Code(rob[t].pc).rs2
  OBVIOUS
<1>5. r1 = Code(rob[t].pc)'.rs1 /\ r2 = Code(rob[t].pc)'.rs2
  BY <1>3, <1>4, KeptEntry DEF Code
<1>6. /\ r1 \in Reg \cup {NoReg} /\ r2 \in Reg \cup {NoReg}
      /\ Unwritten(d, t, r1) /\ Unwritten(d, t, r2)
  BY <1>3, <1>4, SourceRegisters, OlderUnwritten
<1>7. Delivers(e.o1, t, r1) /\ Delivers(e.o2, t, r2)
  BY <1>1, <1>2, <1>4 DEF ValueInv, OperandInv
<1>8. \A o \in {e.o1, e.o2} : /\ o.st \in {"val", "spec"}
                              /\ o.st = "spec" => o.tag \in {alu_e.tag, alu1_e.tag} \ {NoTag}
  <2>1. e \in WaitingEntries /\ e.o1.st \in Operands /\ e.o2.st \in Operands
    BY <1>1 DEF WaitingEntries, IInv, StationInv
  <2>2. e.o1.st # "wait" /\ e.o2.st # "wait"
    BY <1>1 DEF Station!Ready
  <2> QED BY <2>1, <2>2 DEF IInv, WakeInv, Operands
<1>9. Settled(t, r1)' /\ x.v1 = Source(t, r1)'
  <2>1. PICK o : o = e.o1
    OBVIOUS
  <2>2. Settled(t, r1)' /\ Station!Resolved(o, Cdb) = Source(t, r1)'
    BY <1>3, <1>6, <1>7, <1>8, <2>1, ResolvedIsSource
  <2> QED BY <1>1, <2>1, <2>2
<1>10. Settled(t, r2)' /\ x.v2 = Source(t, r2)'
  <2>1. PICK o : o = e.o2
    OBVIOUS
  <2>2. Settled(t, r2)' /\ Station!Resolved(o, Cdb) = Source(t, r2)'
    BY <1>3, <1>6, <1>7, <1>8, <2>1, ResolvedIsSource
  <2> QED BY <1>1, <2>1, <2>2
<1>11. PICK w1, w2 : w1 = x.v1 /\ w2 = x.v2
  OBVIOUS
<1>12. Fed(t, w1, w2)'
  BY <1>5, <1>9, <1>10, <1>11 DEF Fed
<1> QED BY <1>1, <1>2, <1>3, <1>11, <1>12

\* What a unit holds after the cycle survived the recovery.
LEMMA SurvivesOnly ==
  ASSUME IInv, NEW x, NEW recover \in BOOLEAN, NEW gone, gone.tag = NoTag,
         NEW y, y = Surviving(x, recover, gone), y.tag # NoTag, x.tag \in Live
  PROVE  y = x /\ x.tag \notin Squashed(recover)
BY DEF Surviving, Squashed

LEMMA SelectedIsLive ==
  ASSUME IInv, NEW c \in Class, NEW n, Issued(c, n).tag # NoTag
  PROVE  Issued(c, n).tag \in Live
<1>1. Issued(c, n).tag \in Waiting(c)
  BY IssuedFrom DEF IInv, None
<1> QED BY <1>1 DEF IInv, PlaceInv, UndoneOf, Undone

LEMMA ResultsStep ==
  ASSUME IInv, IInv', ValueInv, NEW d, NEW recover, NEW finish, Moves(d, recover, finish)
  PROVE  ResultInv'
<1>1. recover \in BOOLEAN /\ None.tag = NoTag /\ Bubble.tag = NoTag /\ NoDivision.tag = NoTag
  BY DEF Moves, None, Bubble, NoDivision
<1>2. ASSUME NEW c \in Class, NEW n, NEW y, y = Surviving(Issued(c, n), recover, None),
             y.tag # NoTag
      PROVE  Fed(y.tag, y.v1, y.v2)'
  <2>1. PICK x : x = Issued(c, n)
    OBVIOUS
  <2>2. x.tag # NoTag
    BY <1>1, <1>2, <2>1 DEF Surviving
  <2>3. x.tag \in Live
    BY <2>1, <2>2, SelectedIsLive
  <2>4. y = x /\ x.tag \notin Squashed(recover)
    BY <1>1, <1>2, <2>1, <2>3, SurvivesOnly
  <2>5. Fed(x.tag, x.v1, x.v2)'
    BY <2>1, <2>2, <2>4, IssuedFed
  <2> QED BY <2>4, <2>5
<1>3. ASSUME NEW e \in {alu_e', alu1_e', br_e'}, e.tag # NoTag
      PROVE  Fed(e.tag, e.v1, e.v2)'
  <2>1. \/ e = Surviving(Issued("alu", 0), recover, None)
        \/ e = Surviving(Issued("alu", 1), recover, None)
        \/ e = Surviving(Issued("br", 0), recover, None)
    BY DEF Moves, Advance, alu_sel, alu1_sel, br_sel
  <2>2. "alu" \in Class /\ "br" \in Class
    BY DEF Class
  <2> QED BY <1>2, <1>3, <2>1, <2>2
<1>4. ASSUME NEW t \in Undone, t \notin Squashed(recover), NEW v, Computed(t, v)
      PROVE  Computed(t, v)'
  BY <1>4, UndoneSurvives, ComputedStep
<1>5. ASSUME NEW c \in Class, NEW n, NEW x, x = Issued(c, n), x.tag # NoTag,
             x.tag \notin Squashed(recover), NEW v, v = Result(x.tag, x.v1, x.v2)
      PROVE  Computed(x.tag, v)'
  <2>1. PICK t, v1, v2 : t = x.tag /\ v1 = x.v1 /\ v2 = x.v2
    OBVIOUS
  <2>2. t \in Live' \ NewTags(d) /\ Fed(t, v1, v2)'
    BY <1>5, <2>1, IssuedFed
  <2>3. v = Result(t, v1, v2)'
    BY <1>5, <2>1, <2>2, FedStep
  <2>4. Computed(t, v)'
    BY <2>2, <2>3 DEF Computed
  <2> QED BY <2>1, <2>4
<1>6. \A s \in 1 .. MUL_STAGES : mul[s].tag # NoTag =>
         mul[s].tag \in Undone /\ Computed(mul[s].tag, mul[s].val)
  <2>1. "mul" \in Class
    BY DEF Class
  <2> QED BY <2>1 DEF IInv, PlaceInv, UndoneOf, Executing, ValueInv, ResultInv
<1>7. ASSUME NEW s \in 1 .. MUL_STAGES, mul'[s].tag # NoTag
      PROVE  Computed(mul[s].tag, mul[s].val)'
  <2>1. PICK y : y = mul'[s]
    OBVIOUS
  <2>2. PICK x :
          /\ y = Surviving(x, recover, Bubble)
          /\ \/ x = mul[s]
             \/ s > 1 /\ x = mul[s - 1]
             \/ mul_sel = None /\ x = Bubble
             \/ /\ mul_sel # None
                /\ x = [tag |-> mul_sel.tag, val |-> Result(mul_sel.tag, mul_sel.v1, mul_sel.v2)]
    <3>1. y = NextMul(recover)[s]
      BY <2>1 DEF Moves, Advance
    <3>2. y = Surviving(IF ~mul_advance THEN mul[s]
                        ELSE IF s > 1 THEN mul[s - 1]
                        ELSE IF mul_sel = None THEN Bubble
                        ELSE [tag |-> mul_sel.tag,
                              val |-> Result(mul_sel.tag, mul_sel.v1, mul_sel.v2)],
                        recover, Bubble)
      BY <3>1 DEF NextMul
    <3> QED BY <3>2
  <2>3. x.tag # NoTag
    BY <1>1, <1>7, <2>1, <2>2 DEF Surviving
  <2>4. CASE \E u \in 1 .. MUL_STAGES : x = mul[u]
    <3>1. x.tag \in Undone /\ Computed(x.tag, x.val)
      BY <1>6, <2>3, <2>4
    <3>2. y = x /\ x.tag \notin Squashed(recover)
      BY <1>1, <1>7, <2>1, <2>2, <3>1, SurvivesOnly DEF Undone
    <3>3. PICK t, v : t = x.tag /\ v = x.val
      OBVIOUS
    <3>4. Computed(t, v)'
      BY <1>4, <3>1, <3>2, <3>3
    <3> QED BY <2>1, <3>2, <3>3, <3>4
  <2>5. CASE /\ mul_sel # None
             /\ x = [tag |-> mul_sel.tag, val |-> Result(mul_sel.tag, mul_sel.v1, mul_sel.v2)]
    <3>1. PICK z : z = mul_sel
      OBVIOUS
    <3>2. z = Issued("mul", 0) /\ "mul" \in Class /\ z.tag = x.tag
      BY <2>5, <3>1 DEF mul_sel, Class
    <3>3. x.tag \in Live
      BY <2>3, <3>2, SelectedIsLive
    <3>4. y = x /\ x.tag \notin Squashed(recover)
      BY <1>1, <1>7, <2>1, <2>2, <3>3, SurvivesOnly
    <3>5. PICK v : v = Result(z.tag, z.v1, z.v2)
      OBVIOUS
    <3>6. Computed(z.tag, v)'
      BY <1>5, <2>3, <3>2, <3>4, <3>5
    <3>7. y.tag = z.tag /\ y.val = v
      BY <2>5, <3>1, <3>4, <3>5
    <3> QED BY <2>1, <3>6, <3>7
  <2>6. s > 1 => s - 1 \in 1 .. MUL_STAGES
    BY CoreAssumption
  <2> QED BY <1>1, <2>2, <2>3, <2>4, <2>5, <2>6
<1>8. ASSUME div'.tag # NoTag PROVE Computed(div.tag, div.val)'
  <2>1. PICK y : y = div'
    OBVIOUS
  <2>2. y = NextDiv(recover, finish)
    BY <2>1 DEF Moves, Advance
  <2>3. CASE div = NoDivision
    <3>1. PICK z : z = div_sel
      OBVIOUS
    <3>2. /\ Surviving(z, recover, None) # None
          /\ y = [tag |-> z.tag, done |-> FALSE, val |-> Result(z.tag, z.v1, z.v2)]
      BY <1>1, <1>8, <2>1, <2>2, <2>3, <3>1 DEF NextDiv, div_start
    <3>3. z = Issued("div", 0) /\ "div" \in Class /\ z.tag # NoTag
      BY <1>8, <2>1, <3>1, <3>2 DEF div_sel, Class
    <3>4. z.tag \notin Squashed(recover)
      BY <3>2, <3>3 DEF Surviving, Squashed
    <3>5. PICK v : v = Result(z.tag, z.v1, z.v2)
      OBVIOUS
    <3>6. Computed(z.tag, v)'
      BY <1>5, <3>3, <3>4, <3>5
    <3>7. y.tag = z.tag /\ y.val = v
      BY <3>2, <3>5
    <3> QED BY <2>1, <3>6, <3>7
  <2>4. CASE div # NoDivision
    <3>1. /\ Surviving(div, recover, NoDivision) # NoDivision
          /\ y.tag = div.tag /\ y.val = div.val
      BY <1>1, <1>8, <2>1, <2>2, <2>4 DEF NextDiv
    <3>2. div.tag \in Undone /\ Computed(div.tag, div.val)
      <4>1. div.tag \in Executing("div") /\ "div" \in Class
        BY <1>8, <2>1, <3>1 DEF Executing, Class
      <4> QED BY <1>8, <2>1, <3>1, <4>1 DEF IInv, PlaceInv, UndoneOf, ValueInv, ResultInv
    <3>3. div.tag \notin Squashed(recover)
      BY <1>8, <2>1, <3>1 DEF Surviving, Squashed
    <3>4. PICK t, v : t = div.tag /\ v = div.val
      OBVIOUS
    <3>5. Computed(t, v)'
      BY <1>4, <3>2, <3>3, <3>4
    <3> QED BY <2>1, <3>1, <3>4, <3>5
  <2> QED BY <2>3, <2>4
<1> QED BY <1>3, <1>7, <1>8 DEF ResultInv

-----------------------------------------------------------------------------
(* What finishes over a cycle.                                             *)

\* What is broadcast is what was computed, or the CSR that a fast access at
\* the head reads.
LEMMA BroadcastComputed ==
  ASSUME IInv, ValueInv, NEW t \in CdbTags
  PROVE  /\ t \in Undone
         /\ ClassOf(rob[t].pc) # "none" => Computed(t, Station!ValueOn(Cdb, t))
         /\ ClassOf(rob[t].pc) = "none" => t = head /\ Station!ValueOn(Cdb, t) = csr
<1>1. t \in Undone
  BY BusFacts DEF IInv
<1>2. PICK c \in Cdb : c.tag = t
  BY DEF CdbTags
<1>3. Station!ValueOn(Cdb, t) = c.val
  <2>1. \A b \in Cdb : b.tag = t => b = c
    BY <1>2, BusesSound DEF CdbSound
  <2>2. (CHOOSE b \in Cdb : b.tag = t) = c
    BY <1>2, <2>1
  <2> QED BY <2>2 DEF Station!ValueOn
<1>4. \A p \in Class : p # "none"
  BY DEF Class
<1>5. CASE \E e \in {alu_e, alu1_e, br_e} :
             OwnerDriving(e) /\ c = [tag |-> e.tag, val |-> Result(e.tag, e.v1, e.v2)]
  <2>1. PICK e \in {alu_e, alu1_e, br_e} :
          e.tag # NoTag /\ c = [tag |-> e.tag, val |-> Result(e.tag, e.v1, e.v2)]
    BY <1>5 DEF OwnerDriving
  <2>2. e.tag = t /\ c.val = Result(t, e.v1, e.v2)
    BY <1>2, <2>1
  <2>3. Fed(t, e.v1, e.v2)
    BY <2>1, <2>2 DEF ValueInv, ResultInv
  <2>4. Computed(t, c.val)
    BY <2>2, <2>3 DEF Computed
  <2>5. t \in Executing("alu") \cup Executing("br") /\ "alu" \in Class /\ "br" \in Class
    BY <2>1, <2>2 DEF Executing, Class
  <2>6. ClassOf(rob[t].pc) # "none"
    BY <1>4, <2>5, PlacesByClass
  <2> QED BY <1>1, <1>3, <2>4, <2>6
<1>6. CASE \E i \in Grants : c = [tag |-> Request[i], val |-> RequestValue[i + 1]]
  <2>1. PICK i \in Grants : c = [tag |-> Request[i], val |-> RequestValue[i + 1]]
    BY <1>6
  <2>2. i \in {0, 1, 2} /\ t = Request[i] /\ t # NoTag
    BY <1>2, <2>1, GrantFacts
  <2>3. CASE i = 0
    <3>1. t = mul_out.tag /\ c.val = mul_out.val
      BY <2>1, <2>2, <2>3, GrantFacts DEF RequestValue
    <3>2. MUL_STAGES \in 1 .. MUL_STAGES
      BY CoreAssumption
    <3>3. Computed(t, c.val)
      BY <2>2, <3>1, <3>2 DEF mul_out, ValueInv, ResultInv
    <3>4. t \in Executing("mul") /\ "mul" \in Class
      BY <2>2, <3>1, <3>2 DEF mul_out, Executing, Class
    <3> QED BY <1>1, <1>3, <1>4, <3>3, <3>4, PlacesByClass
  <2>4. CASE i = 1
    <3>1. t = div.tag /\ c.val = div.val
      BY <2>1, <2>2, <2>4, GrantFacts DEF RequestValue
    <3>2. Computed(t, c.val)
      BY <2>2, <3>1 DEF ValueInv, ResultInv
    <3>3. t \in Executing("div") /\ "div" \in Class
      BY <2>2, <3>1 DEF Executing, Class
    <3> QED BY <1>1, <1>3, <1>4, <3>2, <3>3, PlacesByClass
  <2>5. CASE i = 2
    <3>1. h0_csr /\ t = head /\ c.val = csr
      BY <2>1, <2>2, <2>5, GrantFacts DEF RequestValue
    <3>2. ClassOf(rob[t].pc) = "none"
      BY <3>1, ClassFacts DEF h0_csr
    <3> QED BY <1>1, <1>3, <3>1, <3>2
  <2> QED BY <2>2, <2>3, <2>4, <2>5
<1> QED BY <1>2, <1>5, <1>6 DEF Cdb

\* A new instruction that has a unit is not finished.
LEMMA NewUnfinished ==
  ASSUME IInv, NEW d, NEW recover, NEW finish, Moves(d, recover, finish), NEW t \in NewTags(d)
  PROVE  \E i \in DOMAIN d : /\ t = TagPlus(tail, i - 1) /\ rob'[t] = RobEntry(d[i].pc)
                             /\ rob'[t].pc = d[i].pc /\ d[i].pc \in PC
                             /\ rob'[t].done <=> ClassOf(d[i].pc) = "none" /\ ~csr_fast(d[i].pc)
<1>1. PICK i \in DOMAIN d : t = TagPlus(tail, i - 1)
  BY DEF NewTags
<1>2. rob'[t] = RobEntry(d[i].pc)
  BY <1>1, KeptEntry
<1>3. d[i].pc \in PC
  BY DispatchFacts DEF Moves, IInv
<1>4. \A p : /\ RobEntry(p).pc = p
             /\ RobEntry(p).done <=> ClassOf(p) = "none" /\ ~csr_fast(p)
  BY DEF RobEntry
<1> QED BY <1>1, <1>2, <1>3, <1>4

LEMMA DoneStep ==
  ASSUME IInv, IInv', ValueInv, NEW d, NEW recover, NEW finish, Moves(d, recover, finish)
  PROVE  DoneInv'
<1>1. PC' = PC /\ \A p : Code(p)' = Code(p)
  BY KeptEntry DEF PC, Code
<1>2. \A p : ClassOf(p)' = ClassOf(p)
  BY <1>1 DEF ClassOf
<1>3. ASSUME NEW t \in Live', rob'[t].done, ClassOf(rob'[t].pc) # "none"
      PROVE  Computed(t, rob[t].val)'
  <2>1. t \notin NewTags(d)
    BY <1>3, NewUnfinished
  <2>2. /\ t \in Live /\ rob'[t].pc = rob[t].pc
        /\ t \notin CdbTags => rob'[t] = rob[t]
        /\ t \in CdbTags => rob'[t].val = Station!ValueOn(Cdb, t)
    BY <2>1, KeptEntry
  <2>3. PICK v : v = rob'[t].val
    OBVIOUS
  <2>4. Computed(t, v)
    <3>1. CASE t \in CdbTags
      BY <1>3, <2>2, <2>3, <3>1, BroadcastComputed
    <3>2. CASE t \notin CdbTags
      BY <1>3, <2>2, <2>3, <3>2 DEF ValueInv, DoneInv
    <3> QED BY <3>1, <3>2
  <2>5. Computed(t, v)'
    BY <2>1, <2>4, ComputedStep
  <2> QED BY <2>3, <2>5
<1> QED BY <1>2, <1>3 DEF DoneInv

-----------------------------------------------------------------------------
(* A cycle without flush, with what fetch does.                            *)

Turns(d, recover, finish) ==
  /\ Moves(d, recover, finish) /\ ~flushing /\ (recover \/ ~mispredict)
  /\ \A i \in DOMAIN d : IsControl(d[i].pc) \/ d[i].pred = ISA!NextPc(d[i].pc)
  /\ d # <<>> => d[1].pc = fpc
  /\ 2 \in DOMAIN d => d[2].pc = d[1].pred
  /\ fpc' = IF recover THEN ISA!NextPc(rob[br_e.tag].pc)
            ELSE IF d = <<>> THEN fpc ELSE d[Len(d)].pred
  /\ serial_in_flight' =
       IF d # <<>> /\ IsSystem(d[1].pc) /\ ~csr_fast(d[1].pc) THEN TRUE
       ELSE serial_in_flight /\ ~(commit0 /\ IsSystem(h0.pc))

\* What is dispatched is the predicted path from where fetch is.
LEMMA AcceptedFollows ==
  ASSUME NEW b \in Bundles \cup {<<>>}, NEW d, d = Accepted(b)
  PROVE  /\ \A i \in DOMAIN d : IsControl(d[i].pc) \/ d[i].pred = ISA!NextPc(d[i].pc)
         /\ d # <<>> => d[1].pc = fpc
         /\ 2 \in DOMAIN d => d[2].pc = d[1].pred
<1> DEFINE OnPath(s) == IsControl(s.pc) \/ s.pred = ISA!NextPc(s.pc)
<1>1. \A p : \A s \in SlotsAt(p) : s.pc = p /\ OnPath(s)
  BY DEF SlotsAt, Predictions, ISA!NextPc, ISA!Code, Code, IsControl
<1> HIDE DEF OnPath
<1>2. CASE b = <<>>
  BY <1>2 DEF Accepted
<1>3. CASE b # <<>>
  <2>1. fpc \in PC /\ b \in Bundles
    BY <1>3 DEF Bundles
  <2>2. \/ \E s \in SlotsAt(fpc) : b = <<s>>
        \/ \E s \in SlotsAt(fpc), p \in PC : MayFollow(s, p) /\ \E t \in SlotsAt(p) : b = <<s, t>>
    BY <2>1 DEF Bundles
  <2>3. CASE \E s \in SlotsAt(fpc) : b = <<s>>
    <3>1. PICK s \in SlotsAt(fpc) : b = <<s>>
      BY <2>3
    <3>2. d = <<>> \/ d = <<s>>
      BY <3>1 DEF Accepted
    <3>3. s.pc = fpc /\ OnPath(s)
      BY <1>1
    <3> QED BY <3>2, <3>3 DEF OnPath
  <2>4. CASE \E s \in SlotsAt(fpc), p \in PC : MayFollow(s, p) /\ \E t \in SlotsAt(p) : b = <<s, t>>
    <3>1. PICK s \in SlotsAt(fpc), p \in PC :
            MayFollow(s, p) /\ \E t \in SlotsAt(p) : b = <<s, t>>
      BY <2>4
    <3>1a. PICK t \in SlotsAt(p) : b = <<s, t>>
      BY <3>1
    <3>2. d = <<>> \/ d = <<s>> \/ d = <<s, t>>
      BY <3>1a DEF Accepted
    <3>3. s.pc = fpc /\ OnPath(s) /\ t.pc = s.pred /\ OnPath(t)
      BY <1>1, <3>1 DEF MayFollow
    <3>4. CASE d = <<>>
      BY <3>4
    <3>5. CASE d = <<s>>
      BY <3>3, <3>5 DEF OnPath
    <3>6. CASE d = <<s, t>>
      BY <3>3, <3>6 DEF OnPath
    <3> QED BY <3>2, <3>4, <3>5, <3>6
  <2> QED BY <2>2, <2>3, <2>4
<1> QED BY <1>2, <1>3

LEMMA CycleTurns ==
  ASSUME IInv, NEW b \in Bundles \cup {<<>>}, NEW finish \in BOOLEAN, Cycle(b, finish)
  PROVE  \E d, recover : Turns(d, recover, finish)
<1>1. PICK d, recover : d = Accepted(b) /\ recover = FALSE
  OBVIOUS
<1>2. Dispatched(d)
  BY <1>1, AcceptedIsDispatched DEF IInv
<1>3. /\ ~flushing /\ ~mispredict /\ Advance(d, recover, finish)
      /\ fpc' = IF d = <<>> THEN fpc ELSE d[Len(d)].pred
      /\ serial_in_flight' =
           IF d # <<>> /\ IsSystem(d[1].pc) /\ ~csr_fast(d[1].pc) THEN TRUE
           ELSE serial_in_flight /\ ~(commit0 /\ IsSystem(h0.pc))
  BY <1>1 DEF Cycle
<1>4. /\ \A i \in DOMAIN d : IsControl(d[i].pc) \/ d[i].pred = ISA!NextPc(d[i].pc)
      /\ d # <<>> => d[1].pc = fpc
      /\ 2 \in DOMAIN d => d[2].pc = d[1].pred
  BY <1>1, AcceptedFollows
<1>5. Moves(d, recover, finish)
  BY <1>1, <1>2, <1>3 DEF Moves
<1>6. fpc' = IF recover THEN ISA!NextPc(rob[br_e.tag].pc)
             ELSE IF d = <<>> THEN fpc ELSE d[Len(d)].pred
  BY <1>1, <1>3
<1> QED BY <1>3, <1>4, <1>5, <1>6 DEF Turns

LEMMA RecoverTurns ==
  ASSUME IInv, NEW finish \in BOOLEAN, Recover(finish)
  PROVE  \E d, recover : Turns(d, recover, finish)
<1>1. PICK d, recover : d = <<>> /\ recover = TRUE
  OBVIOUS
<1>2. Dispatched(d)
  BY <1>1 DEF Dispatched
<1>3. /\ ~flushing /\ mispredict /\ Advance(d, recover, finish)
      /\ fpc' = ISA!NextPc(rob[br_e.tag].pc)
      /\ serial_in_flight' = (serial_in_flight /\ ~(commit0 /\ IsSystem(h0.pc)))
  BY <1>1 DEF Recover
<1>4. Moves(d, recover, finish)
  BY <1>1, <1>2, <1>3 DEF Moves
<1>5. DOMAIN d = {}
  BY <1>1
<1> QED BY <1>1, <1>3, <1>4, <1>5 DEF Turns

-----------------------------------------------------------------------------
(* System instructions over a cycle.                                       *)

\* A system instruction that dispatches finds its operand; any but a fast CSR
\* access is alone.
LEMMA SystemDispatch ==
  ASSUME IInv, NEW d, NEW recover, NEW finish, Turns(d, recover, finish),
         NEW i \in DOMAIN d, IsSystem(d[i].pc)
  PROVE  /\ i = 1 /\ Len(d) = 1 /\ ~recover
         /\ Code(d[1].pc).op \in {"csr", "ser"} => Operand(Code(d[1].pc).rs1).st = "val"
         /\ Code(d[1].pc).op = "csr" => csr_fast(d[1].pc)
         /\ Code(d[1].pc).op # "csr" => /\ used = 0 /\ used' = 1 /\ commit_count = 0
                                        /\ ~csr_fast(d[1].pc) /\ serial_in_flight'
<1>1. Len(d) \in 0 .. 2 /\ DOMAIN d = 1 .. Len(d)
  BY DispatchFacts DEF Turns, Moves, IInv
<1>2. /\ i = 1 /\ Len(d) = 1
      /\ used = 0 \/ csr_fast(d[1].pc)
  <2>1. d # <<>> /\ Dispatched(d)
    BY <1>1 DEF Turns, Moves
  <2>2. CASE \E s : d = <<s>> /\ Step(s) /\ CanDispatch0(s.pc)
    <3>1. PICK s : d = <<s>> /\ CanDispatch0(s.pc)
      BY <2>2
    <3>2. i = 1 /\ Len(d) = 1 /\ d[1] = s
      BY <3>1
    <3> QED BY <3>1, <3>2 DEF CanDispatch0
  <2>3. CASE \E s, t : d = <<s, t>> /\ CanDispatch1(s.pc, t.pc)
    <3>1. PICK s, t : d = <<s, t>> /\ ~IsSystem(s.pc) /\ ~IsSystem(t.pc)
      BY <2>3 DEF CanDispatch1
    <3>2. d[i] = s \/ d[i] = t
      BY <3>1
    <3> QED BY <3>1, <3>2
  <2> QED BY <2>1, <2>2, <2>3 DEF Dispatched
<1>3. ~recover
  BY <1>1, <1>2 DEF Turns, Moves
<1>4. used = 0 => \A r : Writers(r) = {}
  <2>1. used = 0 => Live = {}
    <3>1. \A t \in Tag : TagAge(t, head) \in 0 .. ROB_SIZE - 1
      BY TagAgeType DEF IInv, RingInv
    <3> QED BY <3>1, RobSizeAssumption DEF Live, IInv, RingInv
  <2> QED BY <2>1 DEF Writers
<1>5. \A r : Writers(r) = {} => Operand(r).st = "val"
  BY DEF Operand, Station!Value
<1>6. csr_fast(d[1].pc) <=> /\ Code(d[1].pc).op = "csr"
                            /\ Operand(Code(d[1].pc).rs1).st = "val"
  BY DEF csr_fast
<1>7. ASSUME Code(d[1].pc).op # "csr"
      PROVE  /\ used = 0 /\ used' = 1 /\ commit_count = 0 /\ serial_in_flight'
  <2>1. used = 0 /\ ~csr_fast(d[1].pc)
    BY <1>2, <1>6, <1>7
  <2>2. commit_count = 0
    BY <2>1, OrderStep DEF Turns
  <2>3. used' = used + Len(d) - commit_count
    BY <1>3 DEF Turns, Moves, Advance
  <2>4. serial_in_flight'
    BY <1>1, <1>2, <2>1 DEF Turns
  <2> QED BY <1>2, <2>1, <2>2, <2>3, <2>4
<1> QED BY <1>2, <1>3, <1>4, <1>5, <1>6, <1>7

\* What the head holds of a system instruction that stays.
LEMMA SystemKept ==
  ASSUME IInv, IInv', ValueInv, NEW d, NEW recover, NEW finish, Turns(d, recover, finish),
         NEW t \in Live' \ NewTags(d)
  PROVE  /\ Code(rob[t].pc).op \notin {"ser", "mret", "fencei"}
         /\ Code(rob[t].pc).op = "csr" /\ rob'[t].done => t = head' /\ rob'[t].val = csr'
<1>1. /\ Moves(d, recover, finish) /\ ~flushing
      /\ t \in Live /\ t \in Tag /\ head \in Tag /\ t \notin Retired
      /\ t \notin CdbTags => rob'[t] = rob[t]
      /\ t \in CdbTags => rob'[t].val = Station!ValueOn(Cdb, t)
  BY KeptEntry DEF Turns, Live, IInv, RingInv
<1>2. Faults(rob[t].pc) <=> Code(rob[t].pc).op \in {"exc", "flt"}
  BY DEF Faults
<1>3. ASSUME t = head, rob[t].done PROVE Faults(rob[t].pc)
  <2>1. h0_ready
    BY <1>1, <1>3 DEF h0_ready, h0, Live
  <2>2. ~commit0
    BY <1>1, <1>3, RetiredAre DEF IInv
  <2> QED BY <1>3, <2>1, <2>2 DEF commit0, h0
<1>4. Code(rob[t].pc).op \notin {"ser", "mret", "fencei"}
  <2> SUFFICES ASSUME Code(rob[t].pc).op \in {"ser", "mret", "fencei"} PROVE FALSE
    OBVIOUS
  <2>1. used = 1 /\ rob[t].done
    BY <1>1 DEF ValueInv, SystemInv
  <2>2. TagAge(t, head) = TagAge(head, head)
    <3>1. TagAge(t, head) \in 0 .. ROB_SIZE - 1 /\ TagAge(t, head) < used
      BY <1>1, TagAgeType DEF Live, IInv, RingInv
    <3>2. TagAge(head, head) = 0
      BY <1>1 DEF TagAge, Tag
    <3> QED BY <2>1, <3>1, <3>2, RobSizeAssumption
  <2>3. t = head
    BY <1>1, <2>2, AgesDiffer DEF IInv
  <2> QED BY <1>2, <1>3, <2>1, <2>3
<1>5. ASSUME Code(rob[t].pc).op = "csr", rob'[t].done
      PROVE  t = head' /\ rob'[t].val = csr'
  <2>1. CASE t \notin CdbTags
    <3>1. t = head /\ rob[t].done
      BY <1>1, <1>5, <2>1 DEF ValueInv, SystemInv
    <3> QED BY <1>2, <1>3, <1>5, <3>1
  <2>2. CASE t \in CdbTags
    <3>1. t \in Undone /\ t = head /\ rob'[t].val = csr
      BY <1>1, <1>5, <2>2, ClassFacts, BroadcastComputed
    <3>2. ~commit0 /\ ~commit1
      BY <3>1, RetiredAre DEF commit0, h0_ready, h0, Undone, IInv
    <3>3. commit_count = 0
      BY <3>2 DEF commit_count
    <3>4. head' = TagPlus(head, 0) /\ csr' = csr
      BY <1>1, <3>2, <3>3 DEF Moves, Advance, CommitEffects
    <3>5. TagPlus(head, 0) = head
      BY <1>1, RobSizeAssumption DEF TagPlus, Tag
    <3> QED BY <3>1, <3>4, <3>5
  <2> QED BY <2>1, <2>2
<1> QED BY <1>4, <1>5

LEMMA SystemStep ==
  ASSUME IInv, IInv', ValueInv, NEW d, NEW recover, NEW finish, Turns(d, recover, finish)
  PROVE  SystemInv'
<1>1. Moves(d, recover, finish) /\ \A p : Code(p)' = Code(p)
  BY KeptEntry DEF Turns, Code
<1>2. ASSUME NEW t \in Live' \ NewTags(d)
      PROVE  /\ rob'[t].pc = rob[t].pc
             /\ Code(rob[t].pc).op \in {"csr", "ser"} =>
                  /\ Settled(t, Code(rob[t].pc).rs1)'
                  /\ rob'[t].src = Source(t, Code(rob[t].pc).rs1)'
  <2>1. rob'[t].pc = rob[t].pc /\ rob'[t].src = rob[t].src /\ t \in Live /\ rob[t].pc \in PC
    BY <1>1, KeptEntry DEF IInv, RingInv
  <2>2. ASSUME Code(rob[t].pc).op \in {"csr", "ser"}
        PROVE  /\ Settled(t, Code(rob[t].pc).rs1)'
               /\ rob'[t].src = Source(t, Code(rob[t].pc).rs1)'
    <3>1. PICK r : r = Code(rob[t].pc).rs1
      OBVIOUS
    <3>2. r = Code(rob[t].pc)'.rs1
      BY <2>1, <3>1, <1>1
    <3>3. r \in Reg \cup {NoReg} /\ Unwritten(d, t, r)
      BY <1>1, <2>1, <3>1, SourceRegisters, OlderUnwritten
    <3>4. Settled(t, r) /\ rob[t].src = Source(t, r)
      BY <2>1, <2>2, <3>1 DEF ValueInv, SystemInv
    <3>5. Settled(t, r)' /\ Source(t, r)' = Source(t, r)
      BY <1>1, <3>3, <3>4, SourceStep
    <3>6. Settled(t, r)' /\ rob'[t].src = Source(t, r)'
      BY <2>1, <3>4, <3>5
    <3> QED BY <3>2, <3>6
  <2> QED BY <2>1, <2>2
<1>3. ASSUME NEW t \in NewTags(d)
      PROVE  /\ Code(rob'[t].pc).op \in {"ser", "mret", "fencei"} =>
                  used' = 1 /\ serial_in_flight' /\ rob'[t].done
             /\ Code(rob'[t].pc).op = "csr" => ~rob'[t].done
             /\ Code(rob'[t].pc).op \in {"csr", "ser"} =>
                  /\ Settled(t, Code(rob[t].pc).rs1)'
                  /\ rob'[t].src = Source(t, Code(rob[t].pc).rs1)'
  <2>1. PICK i \in DOMAIN d :
          /\ t = TagPlus(tail, i - 1) /\ rob'[t] = RobEntry(d[i].pc)
          /\ rob'[t].pc = d[i].pc /\ d[i].pc \in PC
          /\ rob'[t].done <=> ClassOf(d[i].pc) = "none" /\ ~csr_fast(d[i].pc)
    BY <1>1, NewUnfinished
  <2>2. Code(d[i].pc).op \in {"csr", "ser", "mret", "fencei"} => IsSystem(d[i].pc)
    BY DEF IsSystem
  <2>3. ASSUME Code(d[i].pc).op \in {"ser", "mret", "fencei"}
        PROVE  used' = 1 /\ serial_in_flight' /\ rob'[t].done
    <3>1. ClassOf(d[i].pc) = "none"
      BY <2>3 DEF ClassOf, Class
    <3> QED BY <2>1, <2>2, <2>3, <3>1, SystemDispatch
  <2>4. ASSUME Code(d[i].pc).op = "csr" PROVE ~rob'[t].done
    BY <2>1, <2>2, <2>4, SystemDispatch
  <2>5. ASSUME Code(d[i].pc).op \in {"csr", "ser"}
        PROVE  /\ Settled(t, Code(rob[t].pc).rs1)'
               /\ rob'[t].src = Source(t, Code(rob[t].pc).rs1)'
    <3>1. PICK r : r = Code(d[i].pc).rs1
      OBVIOUS
    <3>2. r = Code(rob[t].pc)'.rs1 /\ r \in Reg \cup {NoReg}
      BY <1>1, <2>1, <3>1, SourceRegisters DEF Code
    <3>3. i = 1 /\ DOMAIN d = {1} /\ Operand(r).st = "val" /\ rob'[t].src = Operand(r).val
      <4>1. i = 1 /\ Len(d) = 1 /\ Operand(r).st = "val"
        BY <2>2, <2>5, <3>1, SystemDispatch
      <4>2. DOMAIN d = 1 .. Len(d)
        BY <1>1, DispatchFacts DEF Moves, IInv
      <4>3. rob'[t].src = Operand(r).val
        BY <2>1, <2>5, <3>1 DEF RobEntry
      <4> QED BY <4>1, <4>2, <4>3
    <3>4. t \in Live' /\ \A u \in Live : Younger(t, u)
      BY <1>1, <2>1, NewAges
    <3>5. Delivers(Operand(r), t, r)
      BY <3>2, <3>4, OperandDelivers
    <3>6. Settled(t, r) /\ rob'[t].src = Source(t, r)
      BY <3>3, <3>5 DEF Delivers
    <3>7. Unwritten(d, t, r)
      <4>1. ~Younger(t, t)
        BY <1>1, <3>4, OrderStep DEF Younger, TagYounger
      <4> QED BY <2>1, <3>3, <4>1 DEF Unwritten
    <3>8. Settled(t, r)' /\ Source(t, r)' = Source(t, r)
      BY <1>1, <3>2, <3>4, <3>6, <3>7, SourceStep
    <3>9. Settled(t, r)' /\ rob'[t].src = Source(t, r)'
      BY <3>6, <3>8
    <3> QED BY <3>2, <3>9
  <2> QED BY <2>1, <2>3, <2>4, <2>5
<1> QED BY <1>1, <1>2, <1>3, SystemKept DEF SystemInv

-----------------------------------------------------------------------------
(* The program counters in flight over a cycle.                            *)

\* What comes behind an instruction that stays is what did, but behind a
\* mispredicted branch it is where the branch goes.
LEMMA AfterKept ==
  ASSUME IInv, IInv', NEW d, NEW recover, NEW finish, Turns(d, recover, finish),
         NEW t \in Live' \ NewTags(d)
  PROVE  After(t)' = IF recover /\ t = br_e.tag THEN ISA!NextPc(rob[t].pc) ELSE After(t)
<1> DEFINE k == commit_count
           a == TagAge(t, head)
<1>1. /\ Moves(d, recover, finish) /\ recover \in BOOLEAN
      /\ ROB_SIZE \in Nat /\ ROB_SIZE >= 2 /\ head \in Tag /\ used \in 0 .. ROB_SIZE
  BY RobSizeAssumption DEF Turns, Moves, IInv, RingInv
<1>2. /\ k \in 0 .. 2 /\ k <= used /\ head' = TagPlus(head, k)
      /\ a \in Nat /\ a >= k /\ TagAge(t, head') = a - k
      /\ t \in Tag /\ t \in Live /\ t \notin Squashed(recover)
  BY <1>1, OrderStep, KeptEntry
<1>3. a < used /\ a \in 0 .. ROB_SIZE - 1
  BY <1>1, <1>2, TagAgeType DEF Live, IInv, RingInv
<1>4. After(t) = IF a + 1 < used THEN rob[TagPlus(head, a + 1)].pc ELSE fpc
  BY DEF After, PcAt
<1>5. After(t)' = IF a - k + 1 < used' THEN rob'[TagPlus(head', a - k + 1)].pc ELSE fpc'
  BY <1>2 DEF After, PcAt, TagAge
<1>6. /\ Len(d) \in 0 .. 2 /\ DOMAIN d = 1 .. Len(d) /\ used + Len(d) <= ROB_SIZE
      /\ used' = IF recover THEN TagAge(br_e.tag, head) + 1 - k ELSE used + Len(d) - k
  BY <1>1, DispatchFacts DEF Moves, Advance, IInv
<1>7. ASSUME a + 1 < ROB_SIZE
      PROVE  TagPlus(head', a - k + 1) = TagPlus(head, a + 1)
  <2>1. k \in 0 .. ROB_SIZE /\ a - k + 1 \in 0 .. ROB_SIZE /\ k + (a - k + 1) <= ROB_SIZE
        /\ k + (a - k + 1) = a + 1
    BY <1>1, <1>2, <1>3
  <2> HIDE DEF k, a
  <2>2. PICK j : j = a - k + 1
    OBVIOUS
  <2>3. TagPlus(TagPlus(head, k), j) = TagPlus(head, k + j)
    BY <1>1, <2>1, <2>2, TagPlusPlus
  <2>4. k + j = a + 1
    BY <2>1, <2>2
  <2> QED BY <1>2, <2>2, <2>3, <2>4
<1>8. ASSUME NEW u \in Tag, u = TagPlus(head, a + 1), a + 1 < used,
             recover => a + 1 <= TagAge(br_e.tag, head)
      PROVE  rob'[u].pc = rob[u].pc
  <2>1. TagAge(u, head) = a + 1
    <3>1. a + 1 \in 0 .. ROB_SIZE - 1
      BY <1>1, <1>2, <1>8
    <3> HIDE DEF a
    <3> QED BY <1>1, <1>8, <3>1, AgeOfTag
  <2>2. u \in Live /\ u \notin Retired /\ u \notin Squashed(recover)
    <3>1. u \in Live
      BY <1>8, <2>1 DEF Live, IInv, RingInv
    <3>2. u \notin Retired
      BY <1>2, <2>1 DEF Retired, Retiring
    <3>3. u \notin Squashed(recover)
      <4>1. recover => br_e.tag \in Tag
        BY <1>1, MovesUndone DEF Undone, Live
      <4>2. recover => TagAge(br_e.tag, head) \in Int
        BY <1>1, <4>1, TagAgeType
      <4> QED BY <1>2, <1>8, <2>1, <4>2 DEF Squashed, Younger, TagYounger
    <3> QED BY <3>1, <3>2, <3>3
  <2>3. u \in Live' \ NewTags(d)
    BY <1>1, <2>2, OrderStep
  <2> QED BY <1>1, <2>3, KeptEntry
<1>9. a + 1 < used => TagPlus(head, a + 1) \in Tag
  <2>1. a + 1 < used => a + 1 \in 0 .. ROB_SIZE
    BY <1>1, <1>2
  <2> HIDE DEF a
  <2> QED BY <1>1, <2>1, TagPlusType
<1>10. CASE ~recover
  <2>1. used' = used + Len(d) - k
    BY <1>6, <1>10
  <2>2. CASE a + 1 < used
    <3>1. a - k + 1 < used' /\ a + 1 < ROB_SIZE
      BY <1>1, <1>2, <1>6, <2>1, <2>2
    <3>2. rob'[TagPlus(head, a + 1)].pc = rob[TagPlus(head, a + 1)].pc
      BY <1>8, <1>9, <1>10, <2>2
    <3> QED BY <1>4, <1>5, <1>7, <1>10, <2>2, <3>1, <3>2
  <2>3. CASE a + 1 >= used
    <3>1. a + 1 = used
      BY <1>1, <1>2, <1>3, <2>3
    <3>2. CASE d = <<>>
      <4>1. fpc' = fpc /\ Len(d) = 0
        BY <1>10, <3>2 DEF Turns
      <4> QED BY <1>1, <1>2, <1>4, <1>5, <1>10, <2>1, <3>1, <4>1
    <3>3. CASE d # <<>>
      <4>1. 1 \in DOMAIN d /\ Len(d) >= 1
        BY <1>1, <1>6, <3>3 DEF Moves, Dispatched
      <4>2. a - k + 1 < used' /\ a + 1 < ROB_SIZE
        BY <1>1, <1>2, <1>6, <2>1, <3>1, <4>1
      <4>3. rob'[TagPlus(tail, 1 - 1)].pc = d[1].pc /\ d[1].pc = fpc
        BY <1>1, <3>3, <4>1, KeptEntry DEF Turns
      <4>4. TagPlus(tail, 1 - 1) = tail
        BY <1>1, TagPlusType DEF tail, TagPlus, Tag
      <4>5. TagPlus(head, a + 1) = tail
        BY <3>1 DEF tail
      <4>6. ~(a + 1 < used)
        BY <1>1, <3>1
      <4> QED BY <1>4, <1>5, <1>7, <1>10, <4>2, <4>3, <4>4, <4>5, <4>6
    <3> QED BY <3>2, <3>3
  <2> QED BY <1>1, <1>2, <2>2, <2>3
<1>11. CASE recover
  <2>1. br_e.tag \in Tag /\ TagAge(br_e.tag, head) \in 0 .. ROB_SIZE - 1
        /\ TagAge(br_e.tag, head) < used
    <3>1. br_e.tag \in Tag /\ rob[br_e.tag].live
      BY <1>1, <1>11, MovesUndone DEF Undone, Live
    <3> QED BY <1>1, <3>1, TagAgeType DEF IInv, RingInv
  <2>2. used' = TagAge(br_e.tag, head) + 1 - k
    BY <1>6, <1>11
  <2>3. a <= TagAge(br_e.tag, head)
    BY <1>2, <1>3, <1>11, <2>1 DEF Squashed, Younger, TagYounger
  <2>4. CASE a < TagAge(br_e.tag, head)
    <3>1. a + 1 < used /\ a - k + 1 < used' /\ a + 1 < ROB_SIZE
          /\ a + 1 <= TagAge(br_e.tag, head) /\ t # br_e.tag
      BY <1>1, <1>2, <1>3, <2>1, <2>2, <2>4
    <3>2. rob'[TagPlus(head, a + 1)].pc = rob[TagPlus(head, a + 1)].pc
      BY <1>8, <1>9, <3>1
    <3> QED BY <1>4, <1>5, <1>7, <3>1, <3>2
  <2>5. CASE a = TagAge(br_e.tag, head)
    <3>1. t = br_e.tag
      BY <1>2, <2>1, <2>5, AgesDiffer DEF IInv
    <3>2. ~(a - k + 1 < used')
      BY <1>2, <1>3, <2>1, <2>2, <2>5
    <3>3. fpc' = ISA!NextPc(rob[br_e.tag].pc)
      BY <1>11 DEF Turns
    <3> QED BY <1>5, <1>11, <3>1, <3>2, <3>3
  <2> QED BY <1>3, <2>1, <2>3, <2>4, <2>5
<1> QED BY <1>1, <1>10, <1>11

\* Behind a new instruction comes what fetch predicted.
LEMMA AfterNew ==
  ASSUME IInv, IInv', NEW d, NEW recover, NEW finish, Turns(d, recover, finish),
         NEW i \in DOMAIN d, NEW t, t = TagPlus(tail, i - 1)
  PROVE  After(t)' = d[i].pred
<1> DEFINE k == commit_count
<1>1. /\ Moves(d, recover, finish) /\ ~recover
      /\ ROB_SIZE \in Nat /\ ROB_SIZE >= 2 /\ head \in Tag /\ used \in 0 .. ROB_SIZE
  BY RobSizeAssumption DEF Turns, Moves, IInv, RingInv
<1>2. /\ i \in {1, 2} /\ 1 \in DOMAIN d /\ t \in Tag /\ t \in Live'
      /\ TagAge(t, head) = used + i - 1
  BY <1>1, NewAges
<1>3. /\ Len(d) \in 0 .. 2 /\ DOMAIN d = 1 .. Len(d) /\ used + Len(d) <= ROB_SIZE
      /\ used' = used + Len(d) - k /\ d # <<>>
  BY <1>1, DispatchFacts DEF Moves, Advance, IInv
<1>4. /\ k \in 0 .. 2 /\ k <= used /\ head' = TagPlus(head, k)
      /\ TagAge(t, head') = used + i - 1 - k
  BY <1>1, <1>2, OrderStep
<1>5. After(t)' = IF used + i - 1 - k + 1 < used' THEN rob'[TagPlus(head', used + i - 1 - k + 1)].pc
                  ELSE fpc'
  BY <1>4 DEF After, PcAt, TagAge
<1>6. fpc' = d[Len(d)].pred
  BY <1>1, <1>3 DEF Turns
<1>7. CASE i = Len(d)
  <2>1. ~(used + i - 1 - k + 1 < used')
    BY <1>1, <1>3, <1>4, <1>7
  <2> QED BY <1>5, <1>6, <1>7, <2>1
<1>8. CASE i # Len(d)
  <2>1. i = 1 /\ Len(d) = 2 /\ 2 \in DOMAIN d
    BY <1>2, <1>3, <1>8
  <2>2. used + i - 1 - k + 1 = used - k + 1 /\ used - k + 1 < used'
    BY <1>1, <1>3, <1>4, <2>1
  <2>3. rob'[TagPlus(tail, 2 - 1)].pc = d[2].pc /\ d[2].pc = d[1].pred
    BY <1>1, <2>1, KeptEntry DEF Turns
  <2>4. TagPlus(head', used - k + 1) = TagPlus(tail, 2 - 1)
    <3>1. k \in 0 .. ROB_SIZE /\ used - k + 1 \in 0 .. ROB_SIZE /\ k + (used - k + 1) <= ROB_SIZE
          /\ k + (used - k + 1) = used + 1 /\ 1 \in 0 .. ROB_SIZE
      BY <1>1, <1>3, <1>4, <2>1
    <3> HIDE DEF k
    <3>2. PICK j : j = used - k + 1
      OBVIOUS
    <3>3. TagPlus(TagPlus(head, k), j) = TagPlus(head, k + j)
      BY <1>1, <3>1, <3>2, TagPlusPlus
    <3>4. TagPlus(TagPlus(head, used), 1) = TagPlus(head, used + 1)
      BY <1>1, <1>3, <2>1, <3>1, TagPlusPlus
    <3>5. k + j = used + 1 /\ 2 - 1 = 1
      BY <3>1, <3>2
    <3> QED BY <1>4, <3>2, <3>3, <3>4, <3>5 DEF tail
  <2> QED BY <1>5, <2>1, <2>2, <2>3, <2>4
<1> QED BY <1>7, <1>8

LEMMA PathStep ==
  ASSUME IInv, IInv', ValueInv, NEW d, NEW recover, NEW finish, Turns(d, recover, finish)
  PROVE  PathInv'
<1>1. /\ Moves(d, recover, finish) /\ recover \in BOOLEAN
      /\ recover \/ ~mispredict
      /\ prog' = prog /\ \A p : Code(p)' = Code(p)
  BY KeptEntry DEF Turns, Moves, Code
<1>2. \A p : (IsControl(p)' <=> IsControl(p)) /\ ISA!NextPc(p)' = ISA!NextPc(p)
  BY <1>1 DEF IsControl, ISA!NextPc, ISA!Code
<1>3. ASSUME NEW t \in NewTags(d)
      PROVE  \E i \in DOMAIN d : /\ After(t)' = d[i].pred /\ t = TagPlus(tail, i - 1)
                                 /\ rob'[t].pc = d[i].pc
                                 /\ IsControl(d[i].pc) \/ d[i].pred = ISA!NextPc(d[i].pc)
                                 /\ IsControl(d[i].pc) => ~rob'[t].done
  <2>1. PICK i \in DOMAIN d : /\ t = TagPlus(tail, i - 1) /\ rob'[t].pc = d[i].pc
                              /\ rob'[t].done => ClassOf(d[i].pc) = "none"
    BY <1>1, NewUnfinished
  <2>2. After(t)' = d[i].pred
    BY <2>1, AfterNew
  <2>3. IsControl(d[i].pc) => ClassOf(d[i].pc) # "none"
    BY ClassFacts DEF IsControl
  <2> QED BY <2>1, <2>2, <2>3 DEF Turns
<1>4. ASSUME NEW t \in Live' \ NewTags(d), IsControl(rob[t].pc), rob'[t].done
      PROVE  After(t)' = ISA!NextPc(rob[t].pc)
  <2>1. t \in Live /\ (t \notin CdbTags => rob'[t] = rob[t])
    BY <1>1, KeptEntry
  <2>2. CASE t \notin CdbTags
    <3>1. After(t) = ISA!NextPc(rob[t].pc)
      BY <1>4, <2>1, <2>2 DEF ValueInv, PathInv
    <3> QED BY <3>1, AfterKept
  <2>3. CASE t \in CdbTags
    <3>1. ClassOf(rob[t].pc) = "br"
      BY <1>4, ClassFacts DEF IsControl
    <3>2. t \in Undone /\ "br" \in Class
      BY <2>3, BroadcastComputed DEF Class
    <3>3. t \in Leaving("br")
      BY <2>3, <3>1, <3>2, BusFacts DEF UndoneOf, IInv
    <3>4. t = br_e.tag /\ br_e.tag # NoTag
      BY <3>3 DEF Leaving
    <3>5. After(t) = br_e.pred
      BY <3>4 DEF ValueInv, PathInv
    <3>6. ~recover => br_e.pred = ISA!NextPc(rob[t].pc)
      BY <1>1, <3>4 DEF mispredict, OwnerDriving
    <3> QED BY <3>4, <3>5, <3>6, AfterKept
  <2> QED BY <2>2, <2>3
<1>5. ASSUME NEW t \in Live' \ NewTags(d), ~IsControl(rob[t].pc)
      PROVE  After(t)' = ISA!NextPc(rob[t].pc)
  <2>1. t \in Live
    BY <1>1, KeptEntry
  <2>2. After(t) = ISA!NextPc(rob[t].pc)
    BY <1>5, <2>1 DEF ValueInv, PathInv
  <2> QED BY <2>2, AfterKept
<1>6. \A t \in Live' \ NewTags(d) : rob'[t].pc = rob[t].pc
  BY <1>1, KeptEntry
<1>7. ASSUME NEW t \in Live', rob'[t].done \/ ~IsControl(rob'[t].pc)
      PROVE  After(t)' = ISA!NextPc(rob'[t].pc)
  <2>1. CASE t \in NewTags(d)
    BY <1>3, <1>7, <2>1
  <2>2. CASE t \notin NewTags(d)
    <3>1. t \in Live' \ NewTags(d)
      BY <2>2
    <3>2. rob'[t].pc = rob[t].pc
      BY <1>6, <3>1
    <3>3. CASE IsControl(rob[t].pc)
      <4>1. rob'[t].done
        BY <1>7, <3>2, <3>3
      <4>2. After(t)' = ISA!NextPc(rob[t].pc)
        BY <1>4, <3>1, <3>3, <4>1
      <4> QED BY <3>2, <4>2
    <3>4. CASE ~IsControl(rob[t].pc)
      <4>1. After(t)' = ISA!NextPc(rob[t].pc)
        BY <1>5, <3>1, <3>4
      <4> QED BY <3>2, <4>1
    <3> QED BY <3>3, <3>4
  <2> QED BY <2>1, <2>2
<1>8. ASSUME NEW e \in rs["br"], NEW t, t = e.tag, t \notin Squashed(recover)
      PROVE  After(t)' = e.pred
  <2>1. "br" \in Class /\ t \in Waiting("br")
    BY <1>8 DEF Class, Waiting
  <2>2. t \in Undone /\ t \notin Executing("br")
    BY <2>1, PlacesByClass DEF IInv, PlaceInv
  <2>3. t \in Live' \ NewTags(d)
    BY <1>1, <1>8, <2>2, UndoneSurvives
  <2>4. t # NoTag
    BY <2>2, CoreAssumption DEF Undone, Live
  <2>5. t # br_e.tag
    BY <2>2, <2>4 DEF Executing
  <2>6. After(t) = e.pred
    BY <1>8, <2>4 DEF ValueInv, PathInv
  <2> QED BY <2>3, <2>5, <2>6, AfterKept
<1>9. ASSUME br_e'.tag # NoTag PROVE After(br_e.tag)' = br_e'.pred
  <2>1. PICK x, y : x = br_sel /\ y = br_e'
    OBVIOUS
  <2>2. y = Surviving(x, recover, None) /\ x = Issued("br", 0) /\ "br" \in Class
    BY <1>1, <2>1 DEF Moves, Advance, br_sel, Class
  <2>3. None.tag = NoTag /\ y.tag # NoTag
    BY <1>9, <2>1 DEF None
  <2>4. x.tag # NoTag
    BY <2>2, <2>3 DEF Surviving
  <2>5. x.tag \in Live
    BY <2>2, <2>4, SelectedIsLive
  <2>6. y = x /\ x.tag \notin Squashed(recover)
    BY <1>1, <2>2, <2>3, <2>5, SurvivesOnly
  <2>7. PICK e \in rs["br"] : x.tag = e.tag /\ x.pred = e.pred
    BY <1>1, <2>2, <2>4, <2>6, IssuedFed
  <2>8. PICK t : t = e.tag
    OBVIOUS
  <2>9. After(t)' = e.pred
    BY <1>8, <2>6, <2>7, <2>8
  <2> QED BY <2>1, <2>6, <2>7, <2>8, <2>9
<1>10. ASSUME NEW e \in rs'["br"] PROVE After(e.tag)' = e.pred
  <2>1. rs'["br"] = NextStation("br", d, {br_sel.tag}, recover)
    BY <1>1 DEF Moves, Advance
  <2>2. PICK x \in Kept("br", {br_sel.tag}, recover) \cup Inserted("br", d) :
          e = Station!WokenEntry(x, Cdb, wk)
    BY <2>1 DEF NextStation, Kept
  <2>3. e.tag = x.tag /\ e.pred = x.pred
    BY <2>2 DEF Station!WokenEntry
  <2>4. CASE x \in Kept("br", {br_sel.tag}, recover)
    <3>1. x \in rs["br"] /\ x.tag \notin Squashed(recover)
      BY <2>4 DEF Kept, Squashed
    <3>2. PICK t : t = x.tag
      OBVIOUS
    <3>3. After(t)' = x.pred
      BY <1>8, <3>1, <3>2
    <3> QED BY <2>3, <3>2, <3>3
  <2>5. CASE x \in Inserted("br", d)
    <3>1. PICK i \in DOMAIN d : x = RsEntry(d, i)
      BY <2>5 DEF Inserted
    <3>2. x.pred = d[i].pred /\ x.tag = TagPlus(tail, i - 1)
      BY <3>1 DEF RsEntry
    <3>3. PICK t : t = TagPlus(tail, i - 1)
      OBVIOUS
    <3>4. After(t)' = d[i].pred
      BY <3>3, AfterNew
    <3> QED BY <2>3, <3>2, <3>3, <3>4
  <2> QED BY <2>2, <2>4, <2>5
<1> QED BY <1>2, <1>7, <1>9, <1>10 DEF PathInv

-----------------------------------------------------------------------------
(* The values are right in every state.                                    *)

LEMMA TurnsKeepValues ==
  ASSUME IInv, IInv', ValueInv, NEW d, NEW recover, NEW finish, Turns(d, recover, finish)
  PROVE  ValueInv'
<1>1. Moves(d, recover, finish) /\ CommitEffects
  BY DEF Turns, Moves, Advance
<1>2. regs' = [r \in Reg |-> regs'[r]]
  BY <1>1, CommittedRegister
<1> QED BY <1>1, <1>2, PathStep, SystemStep, DoneStep, OperandsStep, ResultsStep DEF ValueInv

\* An empty pipeline holds no value.
LEMMA EmptyValues == Empty /\ regs = [r \in Reg |-> regs[r]] => ValueInv
<1> SUFFICES ASSUME Empty, regs = [r \in Reg |-> regs[r]] PROVE ValueInv
  OBVIOUS
<1>1. Live = {}
  BY DEF Empty, Live, Idle
<1>2. \A c \in Class : rs[c] = {}
  BY DEF Empty
<1>3. /\ alu_e.tag = NoTag /\ alu1_e.tag = NoTag /\ br_e.tag = NoTag /\ div.tag = NoTag
      /\ \A s \in 1 .. MUL_STAGES : mul[s].tag = NoTag
  BY DEF Empty, None, Bubble, NoDivision
<1>4. PathInv /\ SystemInv /\ DoneInv
  BY <1>1, <1>2, <1>3 DEF PathInv, SystemInv, DoneInv, Class
<1>5. OperandInv /\ ResultInv
  BY <1>2, <1>3 DEF OperandInv, ResultInv
<1> QED BY <1>4, <1>5 DEF ValueInv

LEMMA EmptyValuesNext == (Empty /\ regs = [r \in Reg |-> regs[r]])' => ValueInv'
BY EmptyValues, PTL

LEMMA FlushKeepsValues ==
  ASSUME IInv, ValueInv, FlushAtCommit \/ TakeInterrupt
  PROVE  ValueInv'
<1>1. regs' = [r \in Reg |-> regs'[r]]
  BY CommittedRegister DEF FlushAtCommit, TakeInterrupt, ValueInv
<1>2. IInv'
  BY FlushAtCommitKeeps, TakeInterruptKeeps
<1>3. \E target : EmptyPipeline(target)
  BY DEF FlushAtCommit, TakeInterrupt
<1>4. Empty'
  BY <1>2, <1>3 DEF Empty, EmptyPipeline, IInv, RingInv
<1> QED BY <1>1, <1>4, EmptyValuesNext

LEMMA UnchangedValues ==
  ASSUME ValueInv,
         UNCHANGED <<prog, fpc, rob, head, used, rs, alu_e, alu1_e, br_e, mul, div,
                     serial_in_flight, regs, csr, epc>>
  PROVE  ValueInv'
<1>1. Live' = Live /\ (\A p : Code(p)' = Code(p)) /\ Undone' = Undone
  BY DEF Live, Code, Undone
<1>2. \A p : /\ (IsControl(p)' <=> IsControl(p)) /\ ClassOf(p)' = ClassOf(p)
             /\ ISA!NextPc(p)' = ISA!NextPc(p) /\ DestOf(p)' = DestOf(p)
  BY <1>1 DEF IsControl, ClassOf, ISA!NextPc, ISA!Code, DestOf
<1>3. \A t, r : OlderWriters(t, r)' = OlderWriters(t, r)
  BY <1>1, <1>2 DEF OlderWriters, Writers, Younger, TagYounger, TagAge
<1>4. \A t, r : Producer(t, r)' = Producer(t, r)
  BY <1>3 DEF Producer, Younger, TagYounger, TagAge
<1>5. \A t, r : (Settled(t, r)' <=> Settled(t, r)) /\ Source(t, r)' = Source(t, r)
  BY <1>3, <1>4 DEF Settled, Source
<1>6. \A t, v, w : (Fed(t, v, w)' <=> Fed(t, v, w)) /\ Result(t, v, w)' = Result(t, v, w)
  BY <1>1, <1>2, <1>5 DEF Fed, Result, ISA!Term
<1>7. \A t, v : Computed(t, v)' <=> Computed(t, v)
  BY <1>6 DEF Computed
<1>8. \A o, t, r : Delivers(o, t, r)' <=> Delivers(o, t, r)
  BY <1>1, <1>3, <1>4, <1>5 DEF Delivers
<1>9. \A t : After(t)' = After(t)
  BY DEF After, PcAt, TagPlus, TagAge
<1>10. PathInv'
  BY <1>1, <1>2, <1>9 DEF ValueInv, PathInv
<1>11. SystemInv'
  BY <1>1, <1>5 DEF ValueInv, SystemInv
<1>12. DoneInv'
  BY <1>1, <1>2, <1>7 DEF ValueInv, DoneInv
<1>13. OperandInv'
  BY <1>1, <1>8 DEF ValueInv, OperandInv
<1>14. ResultInv'
  BY <1>6, <1>7 DEF ValueInv, ResultInv
<1> QED BY <1>10, <1>11, <1>12, <1>13, <1>14 DEF ValueInv

(* Every value in flight is the one the machine in program order computes, *)
(* and every operand is that value or names who computes it.               *)
THEOREM OooCoreValues == Spec => []ValueInv
<1>1. Init => ValueInv
  <2>1. Init => Empty /\ regs = [r \in Reg |-> regs[r]]
    BY DEF Init, Empty
  <2> QED BY <2>1, EmptyValues
<1>2. IInv /\ IInv' /\ ValueInv /\ [Next]_vars => ValueInv'
  <2> SUFFICES ASSUME IInv, IInv', ValueInv, [Next]_vars PROVE ValueInv'
    OBVIOUS
  <2>1. CASE \E b \in Bundles \cup {<<>>}, finish \in BOOLEAN : Cycle(b, finish)
    BY <2>1, CycleTurns, TurnsKeepValues
  <2>2. CASE \E finish \in BOOLEAN : Recover(finish)
    BY <2>2, RecoverTurns, TurnsKeepValues
  <2>3. CASE FlushAtCommit \/ TakeInterrupt
    BY <2>3, FlushKeepsValues
  <2>4. CASE InterruptLine
    BY <2>4, UnchangedValues DEF InterruptLine
  <2>5. CASE UNCHANGED vars
    BY <2>5, UnchangedValues DEF vars
  <2> QED BY <2>1, <2>2, <2>3, <2>4, <2>5 DEF Next
<1> QED BY <1>1, <1>2, OooCoreInductive, PTL DEF Spec

-----------------------------------------------------------------------------
(* The in-order machine.                                                   *)

ArchPc == IF used > 0 THEN rob[head].pc ELSE fpc

\* What the in-order machine does in a state, by the operation.
LEMMA ExecCases ==
  ASSUME NEW p, NEW rf, NEW c, NEW e,
         NEW s, s = [pc |-> p, regs |-> rf, csr |-> c, epc |-> e]
  PROVE  /\ Code(p).op \in {"exc", "flt"} =>
              Arch!Exec(s) = [pc |-> prog.handler, regs |-> rf, csr |-> c, epc |-> p]
         /\ Code(p).op = "mret" =>
              Arch!Exec(s) = [pc |-> e, regs |-> rf, csr |-> c, epc |-> e]
         /\ Code(p).op \in {"csr", "ser"} =>
              Arch!Exec(s) = [pc |-> p + 1, regs |-> Arch!Written(rf, Code(p).rd, c),
                              csr |-> Arch!Term(p, Arch!Read(Code(p).rs1, rf), <<>>), epc |-> e]
         /\ Code(p).op = "br" =>
              Arch!Exec(s) = [pc |-> Code(p).next,
                              regs |-> Arch!Written(rf, Code(p).rd, Arch!Term(p, <<>>, <<>>)),
                              csr |-> c, epc |-> e]
         /\ Code(p).op \in {"alu", "mul", "div", "fencei"} =>
              Arch!Exec(s) = [pc |-> p + 1,
                              regs |-> Arch!Written(rf, Code(p).rd,
                                         Arch!Term(p, Arch!Read(Code(p).rs1, rf),
                                                      Arch!Read(Code(p).rs2, rf))),
                              csr |-> c, epc |-> e]
<1>1. s.pc = p /\ s.regs = rf /\ s.csr = c /\ s.epc = e
  OBVIOUS
<1>2. Arch!Code(p) = Code(p)
  BY DEF Arch!Code, Code
<1>3. PICK op : op = Code(p).op
  OBVIOUS
<1>4. CASE op \in {"exc", "flt"}
  BY <1>1, <1>2, <1>3, <1>4 DEF Arch!Exec
<1>5. CASE op = "mret"
  BY <1>1, <1>2, <1>3, <1>5 DEF Arch!Exec
<1>6. CASE op \in {"csr", "ser"}
  BY <1>1, <1>2, <1>3, <1>6 DEF Arch!Exec
<1>7. CASE op = "br"
  BY <1>1, <1>2, <1>3, <1>7 DEF Arch!Exec, Arch!NextPc
<1>8. CASE op \in {"alu", "mul", "div", "fencei"}
  BY <1>1, <1>2, <1>3, <1>8 DEF Arch!Exec
<1> QED BY <1>3, <1>4, <1>5, <1>6, <1>7, <1>8

\* Fetch goes on where commit stops.
LEMMA CommitPc ==
  ASSUME IInv, IInv', NEW d, NEW recover, NEW finish, Turns(d, recover, finish)
  PROVE  ArchPc' = PcAt(commit_count)
<1> DEFINE k == commit_count
<1>1. /\ Moves(d, recover, finish) /\ recover \in BOOLEAN
      /\ ROB_SIZE \in Nat /\ ROB_SIZE >= 2 /\ head \in Tag /\ used \in 0 .. ROB_SIZE
  BY RobSizeAssumption DEF Turns, Moves, IInv, RingInv
<1>2. k \in 0 .. 2 /\ k <= used /\ head' = TagPlus(head, k)
  BY <1>1, OrderStep
<1>3. /\ Len(d) \in 0 .. 2 /\ DOMAIN d = 1 .. Len(d)
      /\ used' = IF recover THEN TagAge(br_e.tag, head) + 1 - k ELSE used + Len(d) - k
  BY <1>1, DispatchFacts DEF Moves, Advance, IInv
<1>4. recover => /\ br_e.tag \in Live /\ br_e.tag \notin Retired /\ br_e.tag \in Tag
                 /\ TagAge(br_e.tag, head) \in Nat
                 /\ k <= TagAge(br_e.tag, head) /\ TagAge(br_e.tag, head) < used
  <2> SUFFICES ASSUME recover
               PROVE  /\ br_e.tag \in Live /\ br_e.tag \notin Retired /\ br_e.tag \in Tag
                      /\ TagAge(br_e.tag, head) \in Nat
                      /\ k <= TagAge(br_e.tag, head) /\ TagAge(br_e.tag, head) < used
    OBVIOUS
  <2>1. br_e.tag \in Undone
    BY <1>1, MovesUndone
  <2>2. br_e.tag \in Live /\ br_e.tag \in Tag /\ ~Retiring(br_e.tag)
        /\ TagAge(br_e.tag, head) < used
    BY <2>1, CommitFacts DEF Undone, Live, IInv, RingInv
  <2>3. TagAge(br_e.tag, head) \in Nat
    BY <2>2, AgesDiffer DEF IInv
  <2> QED BY <1>2, <2>2, <2>3 DEF Retiring, Retired
<1>5. ArchPc' = IF used' > 0 THEN rob'[head'].pc ELSE fpc'
  BY DEF ArchPc
<1>6. PcAt(k) = IF k < used THEN rob[TagPlus(head, k)].pc ELSE fpc
  BY DEF PcAt
<1>7. CASE k < used
  <2>1. PICK u : u = TagPlus(head, k)
    OBVIOUS
  <2>2. u \in Tag /\ TagAge(u, head) = k
    <3>1. k \in 0 .. ROB_SIZE /\ k \in 0 .. ROB_SIZE - 1
      BY <1>1, <1>2, <1>7
    <3> HIDE DEF k
    <3> QED BY <1>1, <2>1, <3>1, TagPlusType, AgeOfTag
  <2>3. u \in Live /\ u \notin Retired
    BY <1>2, <1>7, <2>2 DEF Live, Retired, Retiring, IInv, RingInv
  <2>4. u \notin Squashed(recover)
    BY <1>2, <1>4, <2>2 DEF Squashed, Younger, TagYounger
  <2>5. u \in Live' \ NewTags(d)
    BY <1>1, <2>3, <2>4, OrderStep
  <2>6. rob'[u].pc = rob[u].pc
    BY <1>1, <2>5, KeptEntry
  <2>7. used' > 0
    BY <1>1, <1>2, <1>3, <1>4, <1>7
  <2> QED BY <1>2, <1>5, <1>6, <1>7, <2>1, <2>6, <2>7
<1>8. CASE ~(k < used)
  <2>1. k = used /\ ~recover
    BY <1>1, <1>2, <1>4, <1>8
  <2>2. used' = Len(d) /\ fpc' = IF d = <<>> THEN fpc ELSE d[Len(d)].pred
    BY <1>1, <1>3, <2>1 DEF Turns
  <2>3. CASE d = <<>>
    <3>1. used' = 0 /\ fpc' = fpc
      BY <2>2, <2>3
    <3> QED BY <1>5, <1>6, <1>8, <3>1
  <2>4. CASE d # <<>>
    <3>1. 1 \in DOMAIN d /\ used' > 0
      BY <1>1, <1>3, <2>2, <2>4 DEF Moves, Dispatched
    <3>2. rob'[TagPlus(tail, 1 - 1)].pc = d[1].pc /\ d[1].pc = fpc
      BY <1>1, <2>4, <3>1, KeptEntry DEF Turns
    <3>3. TagPlus(tail, 1 - 1) = tail
      BY <1>1, TagPlusType DEF tail, TagPlus, Tag
    <3>4. head' = tail
      BY <1>2, <2>1 DEF tail
    <3> QED BY <1>5, <1>6, <1>8, <3>1, <3>2, <3>3, <3>4
  <2> QED BY <2>3, <2>4
<1> QED BY <1>7, <1>8

\* The head, when there is one, and what is behind it when it is finished.
LEMMA HeadFacts ==
  ASSUME IInv, ValueInv, h0_ready
  PROVE  /\ head \in Live /\ used > 0 /\ ArchPc = h0.pc /\ h0.pc \in PC /\ rob[head] = h0
         /\ PcAt(1) = ISA!NextPc(h0.pc)
         /\ \A r : OlderWriters(head, r) = {}
         /\ \A v1, v2 : Fed(head, v1, v2) =>
              v1 = Arch!Read(Code(h0.pc).rs1, regs) /\ v2 = Arch!Read(Code(h0.pc).rs2, regs)
<1>1. /\ ROB_SIZE \in Nat /\ ROB_SIZE >= 2 /\ head \in Tag /\ used \in 0 .. ROB_SIZE
      /\ TagAge(head, head) = 0 /\ rob[head] = h0
  BY RobSizeAssumption DEF IInv, RingInv, TagAge, Tag, h0
<1>2. head \in Live /\ used > 0 /\ h0.pc \in PC
  BY <1>1 DEF h0_ready, h0, Live, IInv, RingInv
<1>3. ArchPc = h0.pc
  BY <1>1, <1>2 DEF ArchPc
<1>4. PcAt(1) = ISA!NextPc(h0.pc)
  <2>1. After(head) = ISA!NextPc(h0.pc)
    BY <1>1, <1>2 DEF h0_ready, ValueInv, PathInv
  <2> QED BY <1>1, <2>1 DEF After
<1>5. \A r : OlderWriters(head, r) = {}
  <2>1. \A t \in Live : ~Younger(head, t)
    BY <1>1, TagAgeType DEF Live, Younger, TagYounger
  <2> QED BY <2>1 DEF OlderWriters, Writers
<1>6. \A r : Source(head, r) = Arch!Read(r, regs)
  BY <1>5 DEF Source, Arch!Read
<1>7. \A v1, v2 : Fed(head, v1, v2) =>
        v1 = Arch!Read(Code(h0.pc).rs1, regs) /\ v2 = Arch!Read(Code(h0.pc).rs2, regs)
  BY <1>1, <1>6 DEF Fed
<1> QED BY <1>1, <1>2, <1>3, <1>4, <1>5, <1>7

\* What the head writes.
LEMMA HeadValue ==
  ASSUME IInv, ValueInv, commit0, NEW p, p = h0.pc, NEW op, op = Code(p).op
  PROVE  /\ op \in {"alu", "mul", "div"} =>
              h0.val = Arch!Term(p, Arch!Read(Code(p).rs1, regs), Arch!Read(Code(p).rs2, regs))
         /\ op = "br" => h0.val = Arch!Term(p, <<>>, <<>>)
         /\ op \in {"csr", "ser"} => h0.src = Arch!Read(Code(p).rs1, regs)
<1>1. h0_ready /\ rob[head] = h0 /\ head \in Live /\ h0.done
  BY HeadFacts DEF commit0, h0_ready
<1>2. ClassOf(p) # "none" => Computed(head, h0.val)
  BY <1>1 DEF ValueInv, DoneInv
<1>3. ASSUME op \in {"alu", "mul", "div", "br"}
      PROVE  /\ op # "br" => h0.val = Arch!Term(p, Arch!Read(Code(p).rs1, regs),
                                                Arch!Read(Code(p).rs2, regs))
             /\ op = "br" => h0.val = Arch!Term(p, <<>>, <<>>)
  <2>1. ClassOf(p) # "none"
    BY <1>3 DEF ClassOf, Class
  <2>2. PICK v1, v2 : Fed(head, v1, v2) /\ h0.val = Result(head, v1, v2)
    BY <1>2, <2>1 DEF Computed
  <2>3. Result(head, v1, v2) = IF op = "br" THEN ISA!Term(p, <<>>, <<>>) ELSE ISA!Term(p, v1, v2)
    BY <1>1 DEF Result, IsControl
  <2>4. v1 = Arch!Read(Code(p).rs1, regs) /\ v2 = Arch!Read(Code(p).rs2, regs)
    BY <1>1, <2>2, HeadFacts
  <2>5. \A a, b, c : ISA!Term(a, b, c) = Arch!Term(a, b, c)
    BY DEF ISA!Term, Arch!Term
  <2> QED BY <2>2, <2>3, <2>4, <2>5
<1>4. ASSUME op \in {"csr", "ser"} PROVE h0.src = Arch!Read(Code(p).rs1, regs)
  <2>1. h0.src = Source(head, Code(p).rs1)
    BY <1>1, <1>4 DEF ValueInv, SystemInv
  <2>2. OlderWriters(head, Code(p).rs1) = {}
    BY <1>1, HeadFacts
  <2> QED BY <2>1, <2>2 DEF Source, Arch!Read
<1> QED BY <1>3, <1>4

\* Writing to no register changes none.
LEMMA WrittenFacts ==
  ASSUME NEW rf, rf = [r \in Reg |-> rf[r]], NEW rd, NEW v
  PROVE  /\ Arch!Written(rf, rd, v) = [r \in Reg |-> IF r = rd THEN v ELSE rf[r]]
         /\ rd \notin Reg => Arch!Written(rf, rd, v) = rf
<1>1. DOMAIN rf = Reg
  BY DOMAIN [r \in Reg |-> rf[r]] = Reg
<1>2. Arch!Written(rf, rd, v) = [r \in Reg |-> IF r = rd THEN v ELSE rf[r]]
  BY <1>1 DEF Arch!Written
<1>3. ASSUME rd \notin Reg PROVE [r \in Reg |-> IF r = rd THEN v ELSE rf[r]] = rf
  <2>1. [r \in Reg |-> IF r = rd THEN v ELSE rf[r]] = [r \in Reg |-> rf[r]]
    BY <1>3
  <2> QED BY <2>1
<1> QED BY <1>2, <1>3

\* The machine takes the state the core ends in.
LEMMA BecomesIs ==
  ASSUME NEW s, ArchPc' = s.pc, regs' = s.regs, csr' = s.csr, epc' = s.epc, prog' = prog
  PROVE  Arch!Becomes(s)
BY DEF Arch!Becomes, ArchPc

\* The operation at the head of a cycle without flush.
LEMMA HeadOperation ==
  ASSUME IInv, ValueInv, commit0, ~flushing, NEW op, op = Code(h0.pc).op
  PROVE  /\ op \in {"alu", "mul", "div", "br", "csr", "ser"}
         /\ DestOf(h0.pc) = Code(h0.pc).rd
         /\ h0_csr <=> op \in {"csr", "ser"}
<1>1. h0.pc \in PC /\ rob[head] = h0 /\ h0.live
  BY HeadFacts DEF commit0, h0_ready
<1>2. op \in Operation
  BY <1>1, ProgramFacts DEF IInv, Instruction
<1>3. op \notin {"exc", "flt", "mret", "fencei"}
  BY DEF commit0, flushing, mret_commit, fencei_commit, Faults
<1> QED BY <1>1, <1>2, <1>3 DEF Operation, DestOf, h0_csr

\* One instruction commits.
LEMMA CommitOne ==
  ASSUME IInv, IInv', ValueInv, NEW d, NEW recover, NEW finish, Turns(d, recover, finish),
         commit0
  PROVE  \E s : /\ s = Arch!Exec(Arch!State)
                /\ s = [pc |-> PcAt(1), regs |-> s.regs, epc |-> epc,
                        csr |-> IF h0_csr THEN Arch!Term(h0.pc, h0.src, <<>>) ELSE csr]
                /\ s.regs = [r \in Reg |-> IF DestOf(h0.pc) = r THEN commit0_value ELSE regs[r]]
<1>1. PICK p, op, r1, r2, rd : /\ p = h0.pc /\ op = Code(p).op /\ r1 = Code(p).rs1
                               /\ r2 = Code(p).rs2 /\ rd = Code(p).rd
  OBVIOUS
<1>2. ~flushing /\ regs = [r \in Reg |-> regs[r]] /\ h0_ready
  BY DEF Turns, ValueInv, commit0
<1>3. ArchPc = p /\ PcAt(1) = ISA!NextPc(p)
  BY <1>1, <1>2, HeadFacts
<1>4. /\ op \in {"alu", "mul", "div", "br", "csr", "ser"} /\ DestOf(p) = rd
      /\ h0_csr <=> op \in {"csr", "ser"}
  BY <1>1, <1>2, HeadOperation
<1>5. ISA!NextPc(p) = IF op = "br" THEN Code(p).next ELSE p + 1
  BY <1>1 DEF ISA!NextPc, ISA!Code, Code
<1>6. PICK st, s : st = Arch!State /\ s = Arch!Exec(st)
  OBVIOUS
<1>7. st = [pc |-> p, regs |-> regs, csr |-> csr, epc |-> epc]
  BY <1>3, <1>6 DEF Arch!State, ArchPc
<1>8. \A v : Arch!Written(regs, rd, v) = [r \in Reg |-> IF rd = r THEN v ELSE regs[r]]
  <2> SUFFICES ASSUME NEW v
               PROVE  Arch!Written(regs, rd, v) = [r \in Reg |-> IF rd = r THEN v ELSE regs[r]]
    OBVIOUS
  <2>1. Arch!Written(regs, rd, v) = [r \in Reg |-> IF r = rd THEN v ELSE regs[r]]
    BY <1>2, WrittenFacts
  <2> QED BY <2>1
<1>9. commit0_value = IF op \in {"csr", "ser"} THEN csr ELSE h0.val
  BY <1>4 DEF commit0_value
<1>10. /\ op \in {"alu", "mul", "div"} =>
             h0.val = Arch!Term(p, Arch!Read(r1, regs), Arch!Read(r2, regs))
       /\ op = "br" => h0.val = Arch!Term(p, <<>>, <<>>)
       /\ op \in {"csr", "ser"} => h0.src = Arch!Read(r1, regs)
  BY <1>1, HeadValue
<1>11. s = [pc |-> PcAt(1), regs |-> Arch!Written(regs, rd, commit0_value), epc |-> epc,
            csr |-> IF h0_csr THEN Arch!Term(p, h0.src, <<>>) ELSE csr]
  <2>1. CASE op \in {"alu", "mul", "div"}
    <3>1. s = [pc |-> p + 1,
               regs |-> Arch!Written(regs, rd, Arch!Term(p, Arch!Read(r1, regs),
                                                         Arch!Read(r2, regs))),
               csr |-> csr, epc |-> epc]
      BY <1>1, <1>6, <1>7, <2>1, ExecCases
    <3> QED BY <1>3, <1>4, <1>5, <1>9, <1>10, <2>1, <3>1
  <2>2. CASE op = "br"
    <3>1. s = [pc |-> Code(p).next,
               regs |-> Arch!Written(regs, rd, Arch!Term(p, <<>>, <<>>)),
               csr |-> csr, epc |-> epc]
      <4>1. Code(p).op = "br" =>
              Arch!Exec(st) = [pc |-> Code(p).next,
                               regs |-> Arch!Written(regs, Code(p).rd, Arch!Term(p, <<>>, <<>>)),
                               csr |-> csr, epc |-> epc]
        BY <1>7, ExecCases
      <4> QED BY <1>1, <1>6, <2>2, <4>1
    <3> QED BY <1>3, <1>4, <1>5, <1>9, <1>10, <2>2, <3>1
  <2>3. CASE op \in {"csr", "ser"}
    <3>1. s = [pc |-> p + 1, regs |-> Arch!Written(regs, rd, csr),
               csr |-> Arch!Term(p, Arch!Read(r1, regs), <<>>), epc |-> epc]
      BY <1>1, <1>6, <1>7, <2>3, ExecCases
    <3> QED BY <1>3, <1>4, <1>5, <1>9, <1>10, <2>3, <3>1
  <2> QED BY <1>4, <2>1, <2>2, <2>3
<1>12. s.regs = Arch!Written(regs, rd, commit0_value)
  BY <1>11
<1>13. s.regs = [r \in Reg |-> IF DestOf(h0.pc) = r THEN commit0_value ELSE regs[r]]
  BY <1>1, <1>4, <1>8, <1>12
<1>14. s = [pc |-> PcAt(1), regs |-> s.regs, epc |-> epc,
            csr |-> IF h0_csr THEN Arch!Term(h0.pc, h0.src, <<>>) ELSE csr]
  BY <1>1, <1>11, <1>12
<1> QED BY <1>6, <1>13, <1>14

LEMMA StepOneMaps ==
  ASSUME IInv, IInv', ValueInv, NEW d, NEW recover, NEW finish, Turns(d, recover, finish),
         commit0, ~commit1
  PROVE  Arch!StepOne
<1>1. PICK s : /\ s = Arch!Exec(Arch!State)
               /\ s = [pc |-> PcAt(1), regs |-> s.regs, epc |-> epc,
                       csr |-> IF h0_csr THEN Arch!Term(h0.pc, h0.src, <<>>) ELSE csr]
               /\ s.regs = [r \in Reg |-> IF DestOf(h0.pc) = r THEN commit0_value ELSE regs[r]]
  BY CommitOne
<1>2. CommitEffects /\ prog' = prog /\ epc' = epc
  BY DEF Turns, Moves, Advance
<1>3. commit_count = 1
  BY DEF commit_count
<1>4. ArchPc' = s.pc
  BY <1>1, <1>3, CommitPc
<1>5. regs' = s.regs
  <2>1. /\ regs' = [r \in Reg |-> regs'[r]]
        /\ \A r \in Reg : regs'[r] = IF DestOf(h0.pc) = r THEN commit0_value ELSE regs[r]
    BY <1>2, CommittedRegister
  <2> QED BY <1>1, <2>1
<1>6. csr' = s.csr
  <2>1. csr' = IF h0_csr THEN ISA!Term(h0.pc, h0.src, <<>>) ELSE csr
    BY <1>2 DEF CommitEffects
  <2> QED BY <1>1, <2>1 DEF ISA!Term, Arch!Term
<1>7. epc' = s.epc
  BY <1>1, <1>2
<1>8. ArchPc \in PC
  BY HeadFacts DEF commit0
<1>9. Arch!Becomes(s)
  BY <1>2, <1>4, <1>5, <1>6, <1>7, BecomesIs
<1> QED BY <1>1, <1>8, <1>9 DEF Arch!StepOne, ArchPc, Arch!PC, PC

\* The second of two instructions that commit together: plain, and the value
\* it writes is computed from the registers the first leaves.
LEMMA SecondFacts ==
  ASSUME IInv, ValueInv, commit1, ~flushing,
         NEW rf, rf = [r \in Reg |-> IF DestOf(h0.pc) = r THEN h0.val ELSE regs[r]],
         NEW p, p = h1.pc
  PROVE  /\ p \in PC /\ PcAt(1) = p /\ PcAt(2) = p + 1
         /\ Code(p).op \in {"alu", "mul", "div"} /\ DestOf(p) = Code(p).rd
         /\ h1.val = Arch!Term(p, Arch!Read(Code(p).rs1, rf), Arch!Read(Code(p).rs2, rf))
<1>1. /\ ROB_SIZE \in Nat /\ ROB_SIZE >= 2 /\ head \in Tag /\ used \in 0 .. ROB_SIZE
      /\ head1 \in Tag /\ Younger(head1, head) /\ head # head1 /\ commit0
      /\ \A t \in Tag : t # head => Younger(t, head)
  BY RobSizeAssumption, RetiredAre DEF IInv, RingInv
<1>2. /\ rob[head1] = h1 /\ head1 \in Live /\ h1.done /\ p \in PC
      /\ Code(p).op \notin {"exc", "flt", "br", "csr", "ser", "mret", "fencei"}
  BY <1>1 DEF commit1, h1, Live, Faults, IsSystem, IsControl, IInv, RingInv
<1>3. Code(p) \in Instruction /\ Code(p).op \in {"alu", "mul", "div"} /\ DestOf(p) = Code(p).rd
  BY <1>2, ProgramFacts DEF IInv, Instruction, Operation, DestOf
<1>4. TagAge(head1, head) = 1 /\ used > 1
  <2>1. TagAge(head1, head) = 1
    BY <1>1, AgeOfTag DEF head1
  <2> QED BY <1>1, <1>2, <2>1 DEF Live, IInv, RingInv
<1>5. PcAt(1) = p
  BY <1>2, <1>4 DEF PcAt, head1
<1>6. PcAt(2) = p + 1
  <2>1. After(head1) = ISA!NextPc(p)
    BY <1>2 DEF ValueInv, PathInv
  <2>2. After(head1) = PcAt(2)
    BY <1>4 DEF After
  <2> QED BY <1>3, <2>1, <2>2 DEF ISA!NextPc, ISA!Code, Code
<1>7. PICK v1, v2 : Fed(head1, v1, v2) /\ h1.val = Result(head1, v1, v2)
  <2>1. ClassOf(p) # "none"
    BY <1>3 DEF ClassOf, Class
  <2> QED BY <1>2, <2>1 DEF ValueInv, DoneInv, Computed
<1>8. h1.val = Arch!Term(p, v1, v2)
  BY <1>2, <1>3, <1>7 DEF Result, IsControl, ISA!Term, Arch!Term
<1>9. ASSUME NEW r \in Reg \cup {NoReg}
      PROVE  Source(head1, r) = Arch!Read(r, rf)
  <2>1. OlderWriters(head1, r) \subseteq {head}
    <3>1. \A t \in Live : t # head => ~Younger(head1, t)
      <4> SUFFICES ASSUME NEW t \in Live, t # head PROVE ~Younger(head1, t)
        OBVIOUS
      <4>1. t \in Tag /\ head \in Tag /\ TagAge(t, head) \in Nat /\ TagAge(head, head) \in Nat
        BY <1>1, AgesDiffer DEF Live, IInv
      <4>2. TagAge(t, head) > TagAge(head, head)
        BY <1>1, <4>1 DEF Younger, TagYounger
      <4> QED BY <1>4, <4>1, <4>2 DEF Younger, TagYounger
    <3> QED BY <3>1 DEF OlderWriters, Writers
  <2>2. head \in Live /\ rob[head] = h0
    BY <1>1, HeadFacts DEF commit0
  <2>3. CASE r = NoReg
    BY <2>3 DEF Source, Arch!Read
  <2>4. CASE r # NoReg /\ DestOf(h0.pc) = r
    <3>1. head \in OlderWriters(head1, r)
      BY <1>1, <2>2, <2>4 DEF OlderWriters, Writers
    <3>2. Producer(head1, r) = head
      BY <2>1, <3>1, ProducerFacts DEF IInv
    <3>3. Source(head1, r) = h0.val
      BY <2>2, <2>4, <3>1, <3>2 DEF Source
    <3>4. Arch!Read(r, rf) = h0.val
      BY <2>4 DEF Arch!Read
    <3> QED BY <3>3, <3>4
  <2>5. CASE r # NoReg /\ DestOf(h0.pc) # r
    <3>1. OlderWriters(head1, r) = {}
      BY <2>1, <2>2, <2>5 DEF OlderWriters, Writers
    <3> QED BY <2>5, <3>1 DEF Source, Arch!Read
  <2> QED BY <2>3, <2>4, <2>5
<1>10. v1 = Arch!Read(Code(p).rs1, rf) /\ v2 = Arch!Read(Code(p).rs2, rf)
  BY <1>2, <1>3, <1>7, <1>9 DEF Fed, Instruction
<1> QED BY <1>2, <1>3, <1>5, <1>6, <1>8, <1>10

LEMMA StepTwoMaps ==
  ASSUME IInv, IInv', ValueInv, NEW d, NEW recover, NEW finish, Turns(d, recover, finish),
         commit1
  PROVE  Arch!StepTwo
<1>1. commit0 /\ commit_count = 2 /\ ~flushing /\ ~h0_csr
  <2>1. commit0 /\ ~flushing /\ ~IsSystem(h0.pc)
    BY DEF commit1, Turns
  <2> QED BY <2>1 DEF commit_count, h0_csr, IsSystem, h0
<1>2. PICK s : /\ s = Arch!Exec(Arch!State)
               /\ s = [pc |-> PcAt(1), regs |-> s.regs, epc |-> epc,
                       csr |-> IF h0_csr THEN Arch!Term(h0.pc, h0.src, <<>>) ELSE csr]
               /\ s.regs = [r \in Reg |-> IF DestOf(h0.pc) = r THEN commit0_value ELSE regs[r]]
  BY <1>1, CommitOne
<1>3. PICK rf, p : rf = s.regs /\ p = h1.pc
  OBVIOUS
<1>4. rf = [r \in Reg |-> IF DestOf(h0.pc) = r THEN h0.val ELSE regs[r]]
  BY <1>1, <1>2, <1>3 DEF commit0_value
<1>5. /\ p \in PC /\ PcAt(1) = p /\ PcAt(2) = p + 1
      /\ Code(p).op \in {"alu", "mul", "div"} /\ DestOf(p) = Code(p).rd
      /\ h1.val = Arch!Term(p, Arch!Read(Code(p).rs1, rf), Arch!Read(Code(p).rs2, rf))
  BY <1>1, <1>3, <1>4, SecondFacts
<1>6. s = [pc |-> p, regs |-> rf, csr |-> csr, epc |-> epc]
  BY <1>1, <1>2, <1>3, <1>5
<1>7. PICK u : u = Arch!Exec(s)
  OBVIOUS
<1>8. u = [pc |-> p + 1, regs |-> Arch!Written(rf, Code(p).rd, h1.val), csr |-> csr, epc |-> epc]
  BY <1>5, <1>6, <1>7, ExecCases
<1>9. CommitEffects /\ prog' = prog /\ epc' = epc
  BY DEF Turns, Moves, Advance
<1>10. ArchPc' = u.pc
  BY <1>1, <1>5, <1>8, CommitPc
<1>11. regs' = u.regs
  <2>1. /\ regs' = [r \in Reg |-> regs'[r]]
        /\ \A r \in Reg : regs'[r] = IF DestOf(p) = r THEN h1.val
                                     ELSE IF DestOf(h0.pc) = r THEN commit0_value ELSE regs[r]
    BY <1>1, <1>3, <1>9, CommittedRegister
  <2>2. \A r \in Reg : regs'[r] = IF r = Code(p).rd THEN h1.val ELSE rf[r]
    BY <1>1, <1>4, <1>5, <2>1 DEF commit0_value
  <2>3. rf = [r \in Reg |-> rf[r]]
    BY <1>4
  <2>4. Arch!Written(rf, Code(p).rd, h1.val) =
          [r \in Reg |-> IF r = Code(p).rd THEN h1.val ELSE rf[r]]
    BY <2>3, WrittenFacts
  <2> QED BY <1>8, <2>1, <2>2, <2>4
<1>12. csr' = u.csr /\ epc' = u.epc
  BY <1>1, <1>8, <1>9 DEF CommitEffects
<1>13. ArchPc \in PC
  BY <1>1, HeadFacts DEF commit0
<1>14. s.pc \in PC
  BY <1>5, <1>6
<1>15. Arch!Becomes(u)
  BY <1>9, <1>10, <1>11, <1>12, BecomesIs
<1> QED BY <1>2, <1>7, <1>13, <1>14, <1>15 DEF Arch!StepTwo, ArchPc, Arch!PC, PC

\* Nothing commits.
LEMMA StutterMaps ==
  ASSUME IInv, IInv', ValueInv, NEW d, NEW recover, NEW finish, Turns(d, recover, finish),
         ~commit0
  PROVE  UNCHANGED Arch!archVars
<1>1. ~commit1 /\ commit_count = 0
  BY DEF commit1, commit_count
<1>2. regs' = regs /\ csr' = csr /\ epc' = epc /\ prog' = prog
  BY <1>1 DEF Turns, Moves, Advance, CommitEffects, CommittedRegs
<1>3. ArchPc' = ArchPc
  <2>1. PcAt(0) = ArchPc
    <3>1. TagPlus(head, 0) = head
      BY RobSizeAssumption DEF TagPlus, Tag, IInv, RingInv
    <3> QED BY <3>1 DEF PcAt, ArchPc
  <2> QED BY <1>1, <2>1, CommitPc
<1> QED BY <1>2, <1>3 DEF Arch!archVars, ArchPc

LEMMA TurnMaps ==
  ASSUME IInv, IInv', ValueInv, NEW d, NEW recover, NEW finish, Turns(d, recover, finish)
  PROVE  [Arch!Next]_(Arch!archVars)
<1>1. commit1 => commit0
  BY DEF commit1
<1> QED BY <1>1, StutterMaps, StepOneMaps, StepTwoMaps DEF Arch!Next

\* What is taken at the head with the pipeline flushed is one instruction.
LEMMA FlushMaps ==
  ASSUME IInv, ValueInv, FlushAtCommit
  PROVE  Arch!StepOne
<1>1. PICK p, op : p = h0.pc /\ op = Code(p).op
  OBVIOUS
<1>2. h0_ready /\ ~commit1 /\ op \in {"exc", "flt", "mret", "fencei"}
  BY <1>1 DEF FlushAtCommit, flushing, trap_take, mret_commit, fencei_commit, commit0, commit1,
              Faults, IsSystem
<1>3. ArchPc = p /\ p \in PC /\ regs = [r \in Reg |-> regs[r]]
  BY <1>1, <1>2, HeadFacts DEF ValueInv
<1>4. ArchPc' = fpc' /\ prog' = prog
  BY DEF FlushAtCommit, EmptyPipeline, ArchPc
<1>5. trap_take <=> op \in {"exc", "flt"}
  BY <1>1, <1>2 DEF trap_take, Faults
<1>6. commit0 <=> op \in {"mret", "fencei"}
  BY <1>1, <1>2 DEF commit0, Faults
<1>7. mret_commit <=> op = "mret"
  BY <1>1, <1>6 DEF mret_commit
<1>8. fpc' = (IF trap_take THEN prog.handler ELSE IF mret_commit THEN epc ELSE p + 1)
      /\ epc' = (IF trap_take THEN p ELSE epc)
  BY <1>1 DEF FlushAtCommit, EmptyPipeline
<1>9. csr' = csr
  <2>1. ~h0_csr \/ ~commit0
    BY <1>1, <1>2 DEF h0_csr, h0
  <2> QED BY <2>1 DEF FlushAtCommit, CommitEffects
<1>10. op \in {"mret", "fencei"} => Code(p).rd = NoReg /\ DestOf(p) = NoReg
  BY <1>1, <1>3, ProgramFacts DEF IInv, Instruction, DestOf
<1>11. regs' = regs
  <2>1. /\ regs' = [r \in Reg |-> regs'[r]]
        /\ \A r \in Reg : regs'[r] = IF commit0 /\ DestOf(p) = r THEN commit0_value ELSE regs[r]
    BY <1>1, <1>2, CommittedRegister DEF FlushAtCommit
  <2>2. \A r \in Reg : regs'[r] = regs[r]
    BY <1>6, <1>10, <2>1, CoreAssumption
  <2> QED BY <1>3, <2>1, <2>2
<1>12. PICK st, s : st = Arch!State /\ s = Arch!Exec(st)
  OBVIOUS
<1>13. st = [pc |-> p, regs |-> regs, csr |-> csr, epc |-> epc]
  BY <1>3, <1>12 DEF Arch!State, ArchPc
<1>14. s = [pc |-> fpc', regs |-> regs, csr |-> csr, epc |-> epc']
  <2>1. CASE op \in {"exc", "flt"}
    <3>1. s = [pc |-> prog.handler, regs |-> regs, csr |-> csr, epc |-> p]
      BY <1>1, <1>12, <1>13, <2>1, ExecCases
    <3> QED BY <1>5, <1>8, <2>1, <3>1
  <2>2. CASE op = "mret"
    <3>1. s = [pc |-> epc, regs |-> regs, csr |-> csr, epc |-> epc]
      <4>1. Code(p).op = "mret" =>
              Arch!Exec(st) = [pc |-> epc, regs |-> regs, csr |-> csr, epc |-> epc]
        BY <1>13, ExecCases
      <4> QED BY <1>1, <1>12, <2>2, <4>1
    <3> QED BY <1>5, <1>7, <1>8, <2>2, <3>1
  <2>3. CASE op = "fencei"
    <3>1. PICK v : s = [pc |-> p + 1, regs |-> Arch!Written(regs, Code(p).rd, v),
                        csr |-> csr, epc |-> epc]
      <4>1. PICK v : v = Arch!Term(p, Arch!Read(Code(p).rs1, regs), Arch!Read(Code(p).rs2, regs))
        OBVIOUS
      <4>2. Code(p).op \in {"alu", "mul", "div", "fencei"} =>
              Arch!Exec(st) = [pc |-> p + 1, regs |-> Arch!Written(regs, Code(p).rd, v),
                               csr |-> csr, epc |-> epc]
        BY <1>13, <4>1, ExecCases
      <4> QED BY <1>1, <1>12, <2>3, <4>2
    <3>2. Code(p).rd \notin Reg
      BY <1>10, <2>3, CoreAssumption
    <3>3. Arch!Written(regs, Code(p).rd, v) = regs
      BY <1>3, <3>2, WrittenFacts
    <3> QED BY <1>5, <1>7, <1>8, <2>3, <3>1, <3>3
  <2> QED BY <1>2, <2>1, <2>2, <2>3
<1>15. Arch!Becomes(s)
  BY <1>4, <1>9, <1>11, <1>14, BecomesIs
<1> QED BY <1>3, <1>12, <1>15 DEF Arch!StepOne, ArchPc, Arch!PC, PC

LEMMA InterruptMaps ==
  ASSUME IInv, TakeInterrupt
  PROVE  Arch!Interrupt
<1>1. ArchPc = fpc /\ fpc \in PC /\ ArchPc' = prog.handler /\ prog' = prog
  BY DEF TakeInterrupt, EmptyPipeline, ArchPc
<1>2. regs' = regs /\ csr' = csr /\ epc' = fpc
  BY DEF TakeInterrupt
<1>3. Arch!State = [pc |-> fpc, regs |-> regs, csr |-> csr, epc |-> epc]
  BY <1>1 DEF Arch!State, ArchPc
<1>4. PICK s : s = [Arch!State EXCEPT !.pc = prog.handler, !.epc = fpc]
  OBVIOUS
<1>5. s.pc = prog.handler /\ s.regs = regs /\ s.csr = csr /\ s.epc = fpc
  BY <1>3, <1>4
<1>6. Arch!Becomes(s)
  BY <1>1, <1>2, <1>5, BecomesIs
<1> QED BY <1>1, <1>4, <1>6 DEF Arch!Interrupt, ArchPc, Arch!PC, PC

(* The core implements the in-order machine: whatever is speculated,       *)
(* executed out of order, squashed, trapped or interrupted, the committed  *)
(* state changes as by whole instructions of the program, one after the    *)
(* other.                                                                  *)
THEOREM OooCoreImplementsInOrder == Spec => ImplementsInOrder
<1>1. Init => Arch!Init
  BY DEF Init, Arch!Init
<1>2. IInv /\ IInv' /\ ValueInv /\ [Next]_vars => [Arch!Next]_(Arch!archVars)
  <2> SUFFICES ASSUME IInv, IInv', ValueInv, [Next]_vars PROVE [Arch!Next]_(Arch!archVars)
    OBVIOUS
  <2>1. CASE \E b \in Bundles \cup {<<>>}, finish \in BOOLEAN : Cycle(b, finish)
    BY <2>1, CycleTurns, TurnMaps
  <2>2. CASE \E finish \in BOOLEAN : Recover(finish)
    BY <2>2, RecoverTurns, TurnMaps
  <2>3. CASE FlushAtCommit
    BY <2>3, FlushMaps DEF Arch!Next
  <2>4. CASE TakeInterrupt
    BY <2>4, InterruptMaps DEF Arch!Next
  <2>5. CASE InterruptLine \/ UNCHANGED vars
    BY <2>5 DEF InterruptLine, vars, Arch!archVars
  <2> QED BY <2>1, <2>2, <2>3, <2>4, <2>5 DEF Next
<1> QED BY <1>1, <1>2, OooCoreInductive, OooCoreValues, PTL DEF Spec, ImplementsInOrder, Arch!Spec

=============================================================================
