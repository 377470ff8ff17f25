------------------------ MODULE ReorderBufferProofs ------------------------
(***************************************************************************)
(* The reorder buffer keeps its pointers, its occupancy counter and its    *)
(* valid bits consistent and is a window of the program, for every buffer  *)
(* size; and the arbiter of the buses that fill it keeps its promises, for *)
(* every number of requesters.  For the arbiter: ranks order requests      *)
(* strictly as ages do (RankLess), the free buses carry the ranks from     *)
(* zero up without a gap (BusRanks, LowerRankHasBus), and so do the        *)
(* requests (RankTaken).                                                   *)
(***************************************************************************)
EXTENDS ReorderBuffer, BusArbitration, SequenceTheorems, FiniteSetTheorems, TLAPS

-----------------------------------------------------------------------------
(* The tag ring.                                                           *)

(* Advancing a tag stays on the ring.                                      *)
LEMMA TagPlusType ==
  ASSUME NEW t \in Tag, NEW k \in 0 .. ROB_SIZE
  PROVE  TagPlus(t, k) \in Tag
BY RobSizeAssumption DEF Tag, TagPlus

(* Ages are ring distances.                                                *)
LEMMA TagAgeType ==
  ASSUME NEW t \in Tag, NEW h \in Tag
  PROVE  TagAge(t, h) \in 0 .. ROB_SIZE - 1
BY RobSizeAssumption DEF Tag, TagAge

(* The tag an age away from the head is that tag: tags and ages determine  *)
(* each other.                                                             *)
LEMMA TagOfAge ==
  ASSUME NEW t \in Tag, NEW h \in Tag
  PROVE  TagPlus(h, TagAge(t, h)) = t
BY RobSizeAssumption DEF Tag, TagAge, TagPlus

(* The age of the tag k places after the head is k.                        *)
LEMMA AgeOfTag ==
  ASSUME NEW h \in Tag, NEW k \in 0 .. ROB_SIZE - 1
  PROVE  TagAge(TagPlus(h, k), h) = k
BY RobSizeAssumption DEF Tag, TagAge, TagPlus

(* When the head advances by k, every tag it did not pass becomes k        *)
(* younger, and the tags it passed wrap to the young end of the ring.      *)
LEMMA AgeAfterCommit ==
  ASSUME NEW t \in Tag, NEW h \in Tag, NEW k \in 0 .. 2
  PROVE  TagAge(t, TagPlus(h, k)) =
           IF TagAge(t, h) >= k THEN TagAge(t, h) - k
                                ELSE TagAge(t, h) - k + ROB_SIZE
BY RobSizeAssumption DEF Tag, TagAge, TagPlus

-----------------------------------------------------------------------------

IInv == RobTypeOK /\ ValidIsWindow

(* Commit only takes instructions in flight.                               *)
LEMMA CommitWithinWindow ==
  ASSUME IInv, NEW k \in 0 .. 2, CanCommit(k)
  PROVE  k <= used
<1>1. CASE k = 0
  BY <1>1 DEF IInv, RobTypeOK
<1>2. CASE k = 1
  <2>1. entries[head].valid
    BY <1>2 DEF CanCommit, DoneVec
  <2>2. TagAge(head, head) < used
    BY <2>1 DEF IInv, RobTypeOK, ValidIsWindow
  <2>3. TagAge(head, head) = 0
    BY DEF IInv, RobTypeOK, TagAge, Tag
  <2> QED BY <1>2, <2>2, <2>3 DEF IInv, RobTypeOK
<1>3. CASE k = 2
  <2>1. head1_tag \in Tag /\ TagAge(head1_tag, head) = 1
    BY RobSizeAssumption DEF IInv, RobTypeOK, head1_tag, Tag, TagPlus, TagAge
  <2>2. entries[head1_tag].valid
    BY <1>3 DEF CanCommit, DoneVec
  <2>3. TagAge(head1_tag, head) < used
    BY <2>1, <2>2 DEF IInv, ValidIsWindow
  <2> QED BY <1>3, <2>1, <2>3 DEF IInv, RobTypeOK
<1> QED BY <1>1, <1>2, <1>3

(* An unfinished branch is in flight, and commit in its cycle stops before *)
(* it.                                                                     *)
LEMMA CommitStopsBeforeBranch ==
  ASSUME IInv, NEW k \in 0 .. 2, CanCommit(k),
         NEW br \in Tag, entries[br].valid, ~entries[br].done
  PROVE  /\ TagAge(br, head) < used
         /\ k <= TagAge(br, head)
<1>1. TagAge(br, head) < used /\ TagAge(br, head) \in 0 .. ROB_SIZE - 1
  BY TagAgeType DEF IInv, RobTypeOK, ValidIsWindow
<1>2. CASE k = 0
  BY <1>1, <1>2
<1>3. CASE k = 1
  <2>1. br # head
    BY <1>3 DEF CanCommit, DoneVec
  <2>2. head \in Tag
    BY DEF IInv, RobTypeOK
  <2>3. TagAge(br, head) >= 1
    BY <2>1, <2>2, RobSizeAssumption DEF TagAge, Tag
  <2> QED BY <1>1, <1>3, <2>3
<1>4. CASE k = 2
  <2>1. br # head /\ br # head1_tag
    BY <1>4 DEF CanCommit, DoneVec
  <2> QED
    BY <1>1, <1>4, <2>1, RobSizeAssumption DEF IInv, RobTypeOK, TagAge, Tag, head1_tag, TagPlus
<1> QED BY <1>1, <1>2, <1>3, <1>4

LEMMA InitIInv == RobInit => IInv
<1> SUFFICES ASSUME RobInit PROVE IInv
  OBVIOUS
<1>1. entries \in [Tag -> Entry]
  BY DEF RobInit, EmptyEntry, Entry
<1>2. head \in Tag /\ tail \in Tag /\ used \in 0 .. ROB_SIZE
  BY RobSizeAssumption DEF RobInit, Tag
<1>3. bank_even \in [Rows -> Instr] /\ bank_odd \in [Rows -> Instr]
  BY DEF RobInit
<1>4. tail = TagPlus(head, used)
  BY RobSizeAssumption DEF RobInit, TagPlus
<1>5. \A t \in Tag : entries[t].valid <=> TagAge(t, head) < used
  BY RobSizeAssumption DEF RobInit, EmptyEntry, TagAge, Tag
<1> QED BY <1>1, <1>2, <1>3, <1>4, <1>5 DEF IInv, RobTypeOK, ValidIsWindow

(* Completing, retiring, allocating and squashing an entry yields an entry. *)
LEMMA EntrySteps ==
  ASSUME NEW e \in Entry, NEW t \in Tag, NEW k \in 0 .. 2,
         NEW r \in Result \cup {NoResult}
  PROVE  /\ Retired(Completed(e, r), t, k) \in Entry
         /\ \A b \in Bundle : Allocated(Retired(Completed(e, r), t, k), t, b) \in Entry
         /\ \A br \in Tag : Squashed(Retired(Completed(e, r), t, k), t, br) \in Entry
<1>1. Completed(e, r) \in Entry
  BY DEF Completed, Entry
<1>2. Retired(Completed(e, r), t, k) \in Entry
  BY <1>1 DEF Retired, Invalid, Entry
<1>3. ASSUME NEW b \in Bundle
      PROVE  Allocated(Retired(Completed(e, r), t, k), t, b) \in Entry
  <2>1. /\ Len(b) = 2 => b[2].done \in BOOLEAN
        /\ Len(b) >= 1 => b[1].done \in BOOLEAN
    BY DEF Bundle, Alloc
  <2> QED BY <1>2, <2>1 DEF Allocated, NewEntry, Entry
<1>4. ASSUME NEW br \in Tag
      PROVE  Squashed(Retired(Completed(e, r), t, k), t, br) \in Entry
  BY <1>2 DEF Squashed, Invalid, Entry
<1> QED BY <1>2, <1>3, <1>4

(* A bank stays a bank through a cycle's allocation.                       *)
LEMMA BankWriteType ==
  ASSUME NEW bank \in [Rows -> Instr], NEW p \in {0, 1}, NEW b \in Bundle
  PROVE  BankWrite(bank, p, b) \in [Rows -> Instr]
<1>1. /\ Len(b) = 2 => b[2].instr \in Instr
      /\ Len(b) >= 1 => b[1].instr \in Instr
  BY DEF Bundle, Alloc
<1> QED BY <1>1 DEF BankWrite


(* A cycle without recovery preserves the invariant: the valid segment     *)
(* loses its k oldest entries and gains the dispatched ones.               *)
LEMMA CycleStep ==
  ASSUME IInv, NEW c \in Broadcasts, NEW k \in 0 .. 2, NEW b \in Bundle,
         RobCycle(c, k, b)
  PROVE  IInv'
<1>0. /\ ROB_SIZE \in Nat /\ ROB_SIZE >= 2
      /\ entries \in [Tag -> Entry]
      /\ head \in Tag /\ tail \in Tag /\ used \in 0 .. ROB_SIZE
      /\ tail = TagPlus(head, used)
  BY RobSizeAssumption DEF IInv, RobTypeOK, ValidIsWindow
<1>n. PICK n \in 0 .. 2 : n = Len(b)
  BY DEF Bundle
<1>1. used + n <= ROB_SIZE
  BY <1>0, <1>n DEF RobCycle, free_count
<1>2. k <= used
  BY CommitWithinWindow DEF RobCycle
<1>c. head' = TagPlus(head, k) /\ tail' = TagPlus(tail, n) /\ used' = used + n - k
  BY <1>n DEF RobCycle
<1>3. head' \in Tag /\ tail' \in Tag /\ used' \in 0 .. ROB_SIZE
  <2>1. k \in 0 .. ROB_SIZE /\ n \in 0 .. ROB_SIZE
    BY <1>0
  <2>2. head' \in Tag /\ tail' \in Tag
    BY <1>0, <1>c, <2>1, TagPlusType
  <2>3. used' \in 0 .. ROB_SIZE
    BY <1>0, <1>1, <1>2, <1>c
  <2> QED BY <2>2, <2>3
<1>4. tail' = TagPlus(head', used')
  BY <1>0, <1>1, <1>2, <1>c DEF TagPlus, Tag
<1>5. entries' \in [Tag -> Entry]
  BY <1>0, EntrySteps DEF RobCycle, Broadcasts
<1>6. bank_even' \in [Rows -> Instr] /\ bank_odd' \in [Rows -> Instr]
  BY BankWriteType DEF RobCycle, IInv, RobTypeOK
<1>7. ASSUME NEW t \in Tag
      PROVE  entries'[t].valid <=> TagAge(t, head') < used'
  <2>1. entries'[t] = Allocated(Retired(Completed(entries[t], c[t]), t, k), t, b)
    BY DEF RobCycle
  <2>2. entries[t].valid <=> TagAge(t, head) < used
    BY DEF IInv, ValidIsWindow
  <2>3. Completed(entries[t], c[t]).valid = entries[t].valid
    BY <1>0 DEF Completed, Entry
  <2>4. Retired(Completed(entries[t], c[t]), t, k).valid
          <=> entries[t].valid /\ ~(k >= 1 /\ t = head) /\ ~(k = 2 /\ t = head1_tag)
    BY <1>0, <2>3 DEF Retired, Invalid, Entry
  <2>5. entries'[t].valid
          <=> \/ n = 2 /\ t = tail1
              \/ n >= 1 /\ t = tail
              \/ entries[t].valid /\ ~(k >= 1 /\ t = head) /\ ~(k = 2 /\ t = head1_tag)
    BY <2>1, <2>4, <1>n DEF Allocated, NewEntry
  <2>6. /\ t = head <=> TagAge(t, head) = 0
        /\ t = head1_tag <=> TagAge(t, head) = 1
    BY <1>0 DEF TagAge, Tag, head1_tag, TagPlus
  <2>7. /\ n >= 1 => (t = tail <=> TagAge(t, head) = used)
        /\ n = 2 => (t = tail1 <=> TagAge(t, head) = used + 1)
    <3>1. n >= 1 => (t = TagPlus(head, used) <=> TagAge(t, head) = used)
      BY <1>0, <1>1 DEF TagAge, Tag, TagPlus
    <3>2. n = 2 => (t = TagPlus(TagPlus(head, used), 1) <=> TagAge(t, head) = used + 1)
      BY <1>0, <1>1 DEF TagAge, Tag, TagPlus
    <3> QED BY <1>0, <3>1, <3>2 DEF tail1
  <2>8. TagAge(t, head') = IF TagAge(t, head) >= k THEN TagAge(t, head) - k
                                                   ELSE TagAge(t, head) - k + ROB_SIZE
    BY <1>0, <1>c, AgeAfterCommit
  <2>9. used' = used + n - k /\ TagAge(t, head) \in 0 .. ROB_SIZE - 1
    BY <1>0, <1>c, TagAgeType
  <2>10. CASE k = 0
    BY <1>0, <1>1, <2>2, <2>5, <2>7, <2>8, <2>9, <2>10
  <2>11. CASE k = 1
    BY <1>0, <1>1, <1>2, <2>2, <2>5, <2>6, <2>7, <2>8, <2>9, <2>11
  <2>12. CASE k = 2
    BY <1>0, <1>1, <1>2, <2>2, <2>5, <2>6, <2>7, <2>8, <2>9, <2>12
  <2> QED BY <2>10, <2>11, <2>12
<1> QED BY <1>3, <1>4, <1>5, <1>6, <1>7 DEF IInv, RobTypeOK, ValidIsWindow

(* A squash cycle preserves the invariant: the valid segment loses its k   *)
(* oldest entries and everything younger than the branch.                  *)
LEMMA SquashStep ==
  ASSUME IInv, NEW c \in Broadcasts, NEW k \in 0 .. 2, NEW br \in Tag,
         SquashCycle(c, k, br)
  PROVE  IInv'
<1>0. /\ ROB_SIZE \in Nat /\ ROB_SIZE >= 2
      /\ entries \in [Tag -> Entry]
      /\ head \in Tag /\ used \in 0 .. ROB_SIZE
  BY RobSizeAssumption DEF IInv, RobTypeOK
<1>1. entries[br].valid /\ ~entries[br].done
  BY DEF SquashCycle, Broadcasts
<1>2. TagAge(br, head) < used /\ k <= TagAge(br, head)
  BY <1>1, CommitStopsBeforeBranch DEF SquashCycle
<1>3. TagAge(br, head) \in 0 .. ROB_SIZE - 1
  BY <1>0, TagAgeType
<1>4. head' \in Tag /\ tail' \in Tag /\ used' \in 0 .. ROB_SIZE
  BY <1>0, <1>2, <1>3, TagPlusType DEF SquashCycle
<1>5. tail' = TagPlus(head', used')
  BY <1>0, <1>2, <1>3 DEF SquashCycle, TagPlus, TagAge, Tag
<1>6. entries' \in [Tag -> Entry]
  BY <1>0, EntrySteps DEF SquashCycle, Broadcasts
<1>7. bank_even' \in [Rows -> Instr] /\ bank_odd' \in [Rows -> Instr]
  BY DEF SquashCycle, IInv, RobTypeOK
<1>8. ASSUME NEW t \in Tag
      PROVE  entries'[t].valid <=> TagAge(t, head') < used'
  <2>1. entries'[t] = Squashed(Retired(Completed(entries[t], c[t]), t, k), t, br)
    BY DEF SquashCycle
  <2>2. entries[t].valid <=> TagAge(t, head) < used
    BY DEF IInv, ValidIsWindow
  <2>3. Completed(entries[t], c[t]).valid = entries[t].valid
    BY <1>0 DEF Completed, Entry
  <2>4. Retired(Completed(entries[t], c[t]), t, k).valid
          <=> entries[t].valid /\ ~(k >= 1 /\ t = head) /\ ~(k = 2 /\ t = head1_tag)
    BY <1>0, <2>3 DEF Retired, Invalid, Entry
  <2>5. entries'[t].valid
          <=> /\ TagAge(t, head) <= TagAge(br, head)
              /\ entries[t].valid /\ ~(k >= 1 /\ t = head) /\ ~(k = 2 /\ t = head1_tag)
    <3>1. TagAge(t, head) \in Int /\ TagAge(br, head) \in Int
      BY <1>0, <1>3, TagAgeType
    <3> QED BY <2>1, <2>4, <3>1 DEF Squashed, Invalid, TagYounger
  <2>6. /\ t = head <=> TagAge(t, head) = 0
        /\ t = head1_tag <=> TagAge(t, head) = 1
    BY <1>0 DEF TagAge, Tag, head1_tag, TagPlus
  <2>7. TagAge(t, head') = IF TagAge(t, head) >= k THEN TagAge(t, head) - k
                                                   ELSE TagAge(t, head) - k + ROB_SIZE
    BY <1>0, AgeAfterCommit DEF SquashCycle
  <2>8. used' = TagAge(br, head) + 1 - k /\ TagAge(t, head) \in 0 .. ROB_SIZE - 1
    BY <1>0, TagAgeType DEF SquashCycle
  <2> QED BY <1>0, <1>2, <1>3, <2>2, <2>5, <2>6, <2>7, <2>8
<1> QED BY <1>4, <1>5, <1>6, <1>7, <1>8 DEF IInv, RobTypeOK, ValidIsWindow

LEMMA FlushStep ==
  ASSUME IInv, Flush
  PROVE  IInv'
<1>1. entries' \in [Tag -> Entry]
  BY DEF Flush, EmptyEntry, Entry
<1>2. head' \in Tag /\ tail' \in Tag /\ used' \in 0 .. ROB_SIZE
  BY RobSizeAssumption DEF Flush, Tag
<1>3. bank_even' \in [Rows -> Instr] /\ bank_odd' \in [Rows -> Instr]
  BY DEF Flush, IInv, RobTypeOK
<1>4. tail' = TagPlus(head', used')
  BY RobSizeAssumption DEF Flush, TagPlus
<1>5. \A t \in Tag : entries'[t].valid <=> TagAge(t, head') < used'
  BY RobSizeAssumption DEF Flush, EmptyEntry, TagAge, Tag
<1> QED BY <1>1, <1>2, <1>3, <1>4, <1>5 DEF IInv, RobTypeOK, ValidIsWindow

LEMMA NextStep == IInv /\ [RobNext]_robVars => IInv'
<1> SUFFICES ASSUME IInv, [RobNext]_robVars PROVE IInv'
  OBVIOUS
<1>1. CASE \E c \in Broadcasts, k \in 0 .. 2, b \in Bundle : RobCycle(c, k, b)
  BY <1>1, CycleStep
<1>2. CASE \E c \in Broadcasts, k \in 0 .. 2, br \in Tag : SquashCycle(c, k, br)
  BY <1>2, SquashStep
<1>3. CASE Flush
  BY <1>3, FlushStep
<1>4. CASE UNCHANGED robVars
  BY <1>4 DEF robVars, IInv, RobTypeOK, ValidIsWindow
<1> QED BY <1>1, <1>2, <1>3, <1>4 DEF RobNext

(* In every reachable state the registers hold legal values: in particular *)
(* the occupancy counter, recomputed on a squash and counted otherwise,    *)
(* never wraps.                                                            *)
THEOREM ReorderBufferTypeCorrect == RobSpec => []RobTypeOK
<1>1. IInv => RobTypeOK
  BY DEF IInv
<1> QED BY <1>1, InitIInv, NextStep, PTL DEF RobSpec

(* In every reachable state the valid bits are exactly the ring segment    *)
(* from head to tail, for every size of the buffer.                        *)
THEOREM ReorderBufferWindow == RobSpec => []ValidIsWindow
<1>1. IInv => ValidIsWindow
  BY DEF IInv
<1> QED BY <1>1, InitIInv, NextStep, PTL DEF RobSpec

-----------------------------------------------------------------------------
(* The ring implements the window of instructions in program order.        *)

Window == [i \in 1 .. used |-> EntryAt(i)]

(* The entry an allocation port makes of an instruction, in the window.    *)
Entering(a) == [instr |-> a.instr, done |-> a.done, result |-> NoResult]
EnteringAll(b) == [j \in 1 .. Len(b) |-> Entering(b[j])]

(* The row of a tag is a row of its bank.                                   *)
LEMMA StaticType ==
  ASSUME IInv, NEW t \in Tag
  PROVE  t \div 2 \in Rows /\ StaticOf(t) \in Instr
<1>1. t \div 2 \in Rows
  BY RobSizeAssumption, BankAssumption DEF Tag, Rows, HALF
<1> QED BY <1>1 DEF StaticOf, IInv, RobTypeOK

(* Two tags of the same parity in the same row are the same tag, and the   *)
(* next tag has the other parity, around the end of the ring as well.      *)
LEMMA RowsAndParity ==
  ASSUME NEW t \in Tag, NEW u \in Tag
  PROVE  /\ t % 2 \in {0, 1}
         /\ (t % 2 = u % 2 /\ t \div 2 = u \div 2) => t = u
         /\ TagPlus(t, 1) % 2 # t % 2
BY RobSizeAssumption, BankAssumption DEF Tag, TagPlus

(* What allocation writes into the banks is exactly the static fields of   *)
(* the one or two new tags.                                                *)
LEMMA BanksHoldBundle ==
  ASSUME IInv, NEW b \in Bundle, NEW t \in Tag,
         bank_even' = BankWrite(bank_even, 0, b),
         bank_odd' = BankWrite(bank_odd, 1, b)
  PROVE  StaticOf(t)' = IF Len(b) >= 1 /\ t = tail THEN b[1].instr
                        ELSE IF Len(b) = 2 /\ t = tail1 THEN b[2].instr
                        ELSE StaticOf(t)
<1>1. tail \in Tag /\ tail1 \in Tag
  BY TagPlusType, RobSizeAssumption DEF IInv, RobTypeOK, tail1
<1>2. /\ tail % 2 \in {0, 1} /\ tail1 % 2 \in {0, 1} /\ t % 2 \in {0, 1}
      /\ tail1 % 2 # tail % 2
      /\ t % 2 = tail % 2 /\ t \div 2 = tail \div 2 => t = tail
      /\ t % 2 = tail1 % 2 /\ t \div 2 = tail1 \div 2 => t = tail1
  BY <1>1, RowsAndParity DEF tail1
<1>3. t \div 2 \in Rows /\ tail \div 2 \in Rows /\ tail1 \div 2 \in Rows
  BY <1>1, StaticType
<1>4. bank_even \in [Rows -> Instr] /\ bank_odd \in [Rows -> Instr]
  BY DEF IInv, RobTypeOK
<1>5. StaticOf(t)' = IF t % 2 = 0 THEN bank_even'[t \div 2] ELSE bank_odd'[t \div 2]
  BY DEF StaticOf
<1>6. Len(b) \in 0 .. 2
  BY DEF Bundle
<1>7. CASE t % 2 = 0
  <2>1. StaticOf(t)' = BankWrite(bank_even, 0, b)[t \div 2] /\ StaticOf(t) = bank_even[t \div 2]
    BY <1>5, <1>7 DEF StaticOf
  <2> QED BY <1>2, <1>3, <1>4, <1>6, <1>7, <2>1 DEF BankWrite
<1>8. CASE t % 2 = 1
  <2>1. StaticOf(t)' = BankWrite(bank_odd, 1, b)[t \div 2] /\ StaticOf(t) = bank_odd[t \div 2]
    BY <1>5, <1>8 DEF StaticOf
  <2> QED BY <1>2, <1>3, <1>4, <1>6, <1>8, <2>1 DEF BankWrite
<1> QED BY <1>2, <1>7, <1>8

(* The window position of the entry of age n is n + 1, and the window is   *)
(* as long as the occupancy says.                                          *)
WindowRead ==
  /\ Window \in Seq(Abstract!InFlight) /\ Len(Window) = used
  /\ DOMAIN Window = 1 .. used
  /\ \A i \in 1 .. used : /\ Window[i] = EntryAt(i)
                          /\ TagPlus(head, i - 1) \in Tag
                          /\ TagAge(TagPlus(head, i - 1), head) = i - 1
                          /\ entries[TagPlus(head, i - 1)].valid
                          /\ EntryAt(i) \in Abstract!InFlight

LEMMA WindowType == IInv => WindowRead
<1> SUFFICES ASSUME IInv PROVE WindowRead
  OBVIOUS
<1>1. used \in Nat /\ used <= ROB_SIZE /\ ROB_SIZE \in Nat /\ head \in Tag
  BY RobSizeAssumption DEF IInv, RobTypeOK
<1>2. ASSUME NEW i \in 1 .. used
      PROVE  /\ TagPlus(head, i - 1) \in Tag
             /\ TagAge(TagPlus(head, i - 1), head) = i - 1
             /\ entries[TagPlus(head, i - 1)].valid
             /\ EntryAt(i) \in Abstract!InFlight
  <2>1. i - 1 \in 0 .. ROB_SIZE - 1 /\ i - 1 < used
    BY <1>1
  <2>2. TagPlus(head, i - 1) \in Tag /\ TagAge(TagPlus(head, i - 1), head) = i - 1
    BY <1>1, <2>1, TagPlusType, AgeOfTag
  <2>3. entries[TagPlus(head, i - 1)].valid
    BY <2>1, <2>2 DEF IInv, ValidIsWindow
  <2>4. StaticOf(TagPlus(head, i - 1)) \in Instr
    BY <2>2, StaticType
  <2>5. EntryAt(i) \in Abstract!InFlight
    BY <2>2, <2>4 DEF EntryAt, Abstract!InFlight, IInv, RobTypeOK, Entry
  <2> QED BY <2>2, <2>3, <2>5
<1> QED BY <1>1, <1>2 DEF Window, WindowRead

LEMMA WindowTypeNext == IInv' => WindowRead'
BY WindowType, PTL

(* What an allocation port takes enters the window as it dispatched.       *)
LEMMA BundleEnters ==
  ASSUME NEW b \in Bundle
  PROVE  /\ \A j \in 1 .. Len(b) : b[j] \in Alloc
         /\ EnteringAll(b) \in Abstract!Bundles
         /\ EnteringAll(b) \in Seq(Abstract!InFlight)
         /\ Len(EnteringAll(b)) = Len(b)
         /\ \A j \in 1 .. Len(b) : EnteringAll(b)[j] = Entering(b[j])
<1>1. \A a \in Alloc : Entering(a) \in Abstract!Fresh /\ Entering(a) \in Abstract!InFlight
  BY DEF Alloc, Entering, Abstract!Fresh, Abstract!InFlight
<1>2. Len(b) \in Nat /\ \A j \in 1 .. Len(b) : b[j] \in Alloc
  BY DEF Bundle
<1>3. /\ EnteringAll(b) \in Seq(Abstract!InFlight) /\ Len(EnteringAll(b)) = Len(b)
      /\ \A j \in 1 .. Len(b) : EnteringAll(b)[j] = Entering(b[j])
  <2>1. \A j \in 1 .. Len(b) : Entering(b[j]) \in Abstract!InFlight
    BY <1>1, <1>2
  <2> QED BY <1>2, <2>1 DEF EnteringAll
<1>4. EnteringAll(b) \in Abstract!Bundles
  <2>1. CASE b = <<>>
    <3>1. EnteringAll(b) = <<>>
      BY <2>1 DEF EnteringAll
    <3> QED BY <3>1 DEF Abstract!Bundles
  <2>2. ASSUME NEW a \in Alloc, b = <<a>> PROVE EnteringAll(b) \in Abstract!Bundles
    <3>1. EnteringAll(b) = <<Entering(a)>>
      BY <2>2 DEF EnteringAll
    <3> QED BY <1>1, <3>1 DEF Abstract!Bundles
  <2>3. ASSUME NEW a1 \in Alloc, NEW a2 \in Alloc, b = <<a1, a2>>
        PROVE  EnteringAll(b) \in Abstract!Bundles
    <3>1. EnteringAll(b) = <<Entering(a1), Entering(a2)>>
      BY <2>3 DEF EnteringAll
    <3> QED BY <1>1, <3>1 DEF Abstract!Bundles
  <2> QED BY <2>1, <2>2, <2>3 DEF Bundle
<1> QED BY <1>2, <1>3, <1>4

(* A sequence without its lo oldest and everything younger than hi, with b *)
(* behind it.                                                              *)
LEMMA CutAndAppend ==
  ASSUME NEW S, NEW s \in Seq(S), NEW b \in Seq(S),
         NEW hi \in 0 .. Len(s), NEW lo \in 0 .. hi,
         NEW cut, cut = SubSeq(s, lo + 1, hi) \o b
  PROVE  /\ cut \in Seq(S) /\ Len(cut) = hi - lo + Len(b)
         /\ \A i \in 1 .. hi - lo + Len(b) :
              cut[i] = IF i <= hi - lo THEN s[i + lo] ELSE b[i - (hi - lo)]
<1> DEFINE mid == SubSeq(s, lo + 1, hi)
<1>1. /\ mid \in Seq(S) /\ Len(mid) = hi - lo
      /\ \A i \in 1 .. hi - lo : mid[i] = s[i + lo]
  OBVIOUS
<1> HIDE DEF mid
<1>2. cut = mid \o b
  BY DEF mid
<1>3. /\ cut \in Seq(S) /\ Len(cut) = Len(mid) + Len(b)
      /\ \A i \in 1 .. Len(mid) + Len(b) :
           cut[i] = IF i <= Len(mid) THEN mid[i] ELSE b[i - Len(mid)]
  <2>1. b \in Seq(S)
    OBVIOUS
  <2>2. /\ mid \o b \in Seq(S) /\ Len(mid \o b) = Len(mid) + Len(b)
        /\ \A i \in 1 .. Len(mid) + Len(b) :
             (mid \o b)[i] = IF i <= Len(mid) THEN mid[i] ELSE b[i - Len(mid)]
    BY ONLY <1>1, <2>1, ConcatProperties
  <2> QED BY ONLY <1>2, <2>2
<1>4. Len(b) \in Nat /\ hi - lo \in Nat
  OBVIOUS
<1>5. ASSUME NEW i \in 1 .. hi - lo + Len(b)
      PROVE  cut[i] = IF i <= hi - lo THEN s[i + lo] ELSE b[i - (hi - lo)]
  <2>1. cut[i] = IF i <= hi - lo THEN mid[i] ELSE b[i - (hi - lo)]
    BY <1>1, <1>3
  <2>2. CASE i <= hi - lo
    <3>1. i \in 1 .. hi - lo
      BY <1>4, <2>2
    <3> QED BY <1>1, <2>1, <2>2, <3>1
  <2>3. CASE ~(i <= hi - lo)
    BY <2>1, <2>3
  <2> QED BY <2>2, <2>3
<1> QED BY <1>1, <1>3, <1>5

(* What the buses deliver, by window position.                             *)
Positions(c) == [i \in DOMAIN Window |-> c[TagPlus(head, i - 1)]]

(* Completion by tag is delivery by position: the buses of a cycle fill in *)
(* the instructions of the window they are for, and only unfinished ones.  *)
LEMMA CompletionDelivers ==
  ASSUME IInv, NEW c \in Broadcasts
  PROVE  /\ Positions(c) \in Abstract!Deliveries
         /\ Abstract!Delivered(Positions(c)) \in Seq(Abstract!InFlight)
         /\ Len(Abstract!Delivered(Positions(c))) = used
         /\ \A i \in 1 .. used :
              LET t == TagPlus(head, i - 1)
                  e == Completed(entries[t], c[t])
              IN  Abstract!Delivered(Positions(c))[i] =
                    [instr |-> StaticOf(t), done |-> e.done, result |-> e.result]
<1>0. used \in Nat /\ entries \in [Tag -> Entry]
  BY RobSizeAssumption DEF IInv, RobTypeOK
<1>1. /\ DOMAIN Window = 1 .. used /\ Len(Window) = used
      /\ \A i \in 1 .. used : /\ Window[i] = EntryAt(i)
                              /\ TagPlus(head, i - 1) \in Tag
                              /\ entries[TagPlus(head, i - 1)].valid
                              /\ EntryAt(i) \in Abstract!InFlight
  BY WindowType DEF WindowRead
<1>2. c \in [Tag -> Result \cup {NoResult}]
  BY DEF Broadcasts
<1>3. Positions(c) \in [DOMAIN Window -> Result \cup {NoResult}]
  BY <1>1, <1>2 DEF Positions
<1>4. ASSUME NEW i \in DOMAIN Window, Window[i].done
      PROVE  Positions(c)[i] = NoResult
  <2>0. i \in 1 .. used /\ EntryAt(i).done
    BY <1>1, <1>4
  <2>1. entries[TagPlus(head, i - 1)].done /\ TagPlus(head, i - 1) \in Tag
    BY <1>1, <2>0 DEF EntryAt
  <2> QED BY <1>1, <2>1 DEF Positions, Broadcasts
<1>5. Positions(c) \in Abstract!Deliveries
  BY <1>3, <1>4 DEF Abstract!Deliveries, Window
<1>6. ASSUME NEW i \in 1 .. used,
             NEW t, t = TagPlus(head, i - 1), NEW e, e = Completed(entries[t], c[t])
      PROVE  /\ Abstract!Delivered(Positions(c))[i] =
                  [instr |-> StaticOf(t), done |-> e.done, result |-> e.result]
             /\ Abstract!Delivered(Positions(c))[i] \in Abstract!InFlight
  <2>1. t \in Tag /\ entries[t].valid /\ entries[t] \in Entry /\ i \in DOMAIN Window
    BY <1>0, <1>1, <1>6
  <2>2. Window[i] = [instr |-> StaticOf(t), done |-> entries[t].done,
                     result |-> entries[t].result]
    BY <1>1, <1>6 DEF EntryAt
  <2>3. Positions(c)[i] = c[t] /\ c[t] \in Result \cup {NoResult}
    BY <1>2, <1>6, <2>1 DEF Positions
  <2>4. Abstract!Delivered(Positions(c))[i] =
          IF Positions(c)[i] = NoResult THEN Window[i]
          ELSE [instr |-> Window[i].instr, done |-> TRUE, result |-> Positions(c)[i]]
    BY <2>1 DEF Abstract!Delivered, Window
  <2>5. Window[i] \in Abstract!InFlight
    BY <1>1
  <2>6. CASE c[t] = NoResult
    BY <1>6, <2>2, <2>3, <2>4, <2>5, <2>6 DEF Completed
  <2>7. CASE c[t] # NoResult
    <3>1. e = [valid |-> TRUE, done |-> TRUE, result |-> c[t]]
      BY <1>6, <2>1, <2>7 DEF Completed
    <3>2. Abstract!Delivered(Positions(c))[i] =
            [instr |-> StaticOf(t), done |-> TRUE, result |-> c[t]]
      BY <2>2, <2>3, <2>4, <2>7
    <3> QED BY <2>2, <2>3, <2>5, <3>1, <3>2 DEF Abstract!InFlight
  <2> QED BY <2>6, <2>7
<1>7. /\ DOMAIN Abstract!Delivered(Positions(c)) = 1 .. used
      /\ Abstract!Delivered(Positions(c)) =
           [i \in 1 .. used |-> Abstract!Delivered(Positions(c))[i]]
  BY <1>1 DEF Abstract!Delivered, Window
<1>8. Abstract!Delivered(Positions(c)) \in Seq(Abstract!InFlight)
  BY <1>0, <1>6, <1>7
<1>9. Len(Abstract!Delivered(Positions(c))) = used
  BY <1>0, <1>7, <1>8
<1> QED BY <1>5, <1>6, <1>8, <1>9

(* What commit takes is finished, at the old end of the window.            *)
LEMMA CommitRetires ==
  ASSUME IInv, NEW k \in 0 .. 2, CanCommit(k)
  PROVE  Abstract!Retirable(k)
<1>1. k <= used /\ used \in Nat
  BY CommitWithinWindow DEF IInv, RobTypeOK
<1>2. Len(Window) = used /\ \A i \in 1 .. used : Window[i] = EntryAt(i)
  BY WindowType DEF WindowRead
<1>3. ASSUME NEW i \in 1 .. k PROVE Window[i].done
  <2>1. i \in 1 .. used
    BY <1>1
  <2>2. Window[i].done = entries[TagPlus(head, i - 1)].done
    BY <1>2, <2>1 DEF EntryAt
  <2>3. i = 1 => TagPlus(head, i - 1) = head
    BY RobSizeAssumption DEF TagPlus, IInv, RobTypeOK, Tag
  <2>4. i = 2 => TagPlus(head, i - 1) = head1_tag
    BY DEF head1_tag
  <2>5. i = 1 \/ (i = 2 /\ k = 2)
    OBVIOUS
  <2>6. CASE i = 1
    BY <2>2, <2>3, <2>6 DEF CanCommit, DoneVec
  <2>7. CASE i = 2 /\ k = 2
    BY <2>2, <2>4, <2>7 DEF CanCommit, DoneVec
  <2> QED BY <2>5, <2>6, <2>7
<1> QED BY <1>1, <1>2, <1>3 DEF Abstract!Retirable, Window

(* A cycle of the ring is one of the window: the k oldest leave, the buses *)
(* fill in the rest, the bundle enters at the young end.                   *)
LEMMA CycleIsAbstract ==
  ASSUME IInv, IInv', NEW c \in Broadcasts, NEW k \in 0 .. 2, NEW b \in Bundle,
         RobCycle(c, k, b)
  PROVE  Abstract!Cycle
<1> DEFINE D == Abstract!Delivered(Positions(c))
           new == EnteringAll(b)
           next == SubSeq(D, k + 1, used) \o new
<1>0. /\ ROB_SIZE \in Nat /\ ROB_SIZE >= 2
      /\ entries \in [Tag -> Entry]
      /\ head \in Tag /\ tail \in Tag /\ used \in 0 .. ROB_SIZE
      /\ tail = TagPlus(head, used)
  BY RobSizeAssumption DEF IInv, RobTypeOK, ValidIsWindow
<1>1. k <= used /\ Abstract!Retirable(k)
  BY CommitWithinWindow, CommitRetires DEF RobCycle
<1>2. /\ Positions(c) \in Abstract!Deliveries
      /\ D \in Seq(Abstract!InFlight) /\ Len(D) = used
      /\ \A i \in 1 .. used :
           LET t == TagPlus(head, i - 1)
               e == Completed(entries[t], c[t])
           IN  D[i] = [instr |-> StaticOf(t), done |-> e.done, result |-> e.result]
  BY CompletionDelivers
<1>3. PICK n \in 0 .. 2 : n = Len(b)
  BY DEF Bundle
<1>4. used + n <= ROB_SIZE
  BY <1>0, <1>3 DEF RobCycle, free_count
<1>5. head' = TagPlus(head, k) /\ used' = used + n - k
  BY <1>3 DEF RobCycle
<1>6. /\ \A j \in 1 .. n : b[j] \in Alloc
      /\ new \in Abstract!Bundles /\ new \in Seq(Abstract!InFlight) /\ Len(new) = n
      /\ \A j \in 1 .. n : new[j] = Entering(b[j])
  BY <1>3, BundleEnters
<1>7. /\ next \in Seq(Abstract!InFlight) /\ Len(next) = used - k + n
      /\ \A i \in 1 .. used - k + n :
           next[i] = IF i <= used - k THEN D[i + k] ELSE new[i - (used - k)]
  <2> HIDE DEF D, new, next
  <2>1. used \in 0 .. Len(D) /\ k \in 0 .. used /\ next = SubSeq(D, k + 1, used) \o new
    BY <1>0, <1>1, <1>2 DEF next
  <2> QED BY <1>2, <1>6, <2>1, CutAndAppend
<1>8. /\ Window' \in Seq(Abstract!InFlight) /\ Len(Window') = used'
      /\ \A i \in 1 .. used' : Window'[i] = EntryAt(i)' /\ TagPlus(head', i - 1) \in Tag
  BY WindowTypeNext DEF WindowRead
<1> HIDE DEF D, new, next
<1>9. ASSUME NEW i \in 1 .. used' PROVE Window'[i] = next[i]
  <2>0. PICK t \in Tag : t = TagPlus(head', i - 1)
    BY <1>8
  <2>1. /\ t \in Tag
        /\ Window'[i] = [instr |-> StaticOf(t)', done |-> entries'[t].done,
                         result |-> entries'[t].result]
    BY <1>8, <2>0 DEF EntryAt, StaticOf
  <2>2. t = TagPlus(head, i - 1 + k) /\ i - 1 + k < used + n
    BY <1>0, <1>1, <1>4, <1>5, <2>0 DEF TagPlus, Tag
  <2>3. entries'[t] = Allocated(Retired(Completed(entries[t], c[t]), t, k), t, b)
    BY <2>1 DEF RobCycle
  <2>4. StaticOf(t)' = IF n >= 1 /\ t = tail THEN b[1].instr
                       ELSE IF n = 2 /\ t = tail1 THEN b[2].instr
                       ELSE StaticOf(t)
    BY <1>3, <2>1, BanksHoldBundle DEF RobCycle
  <2>5. CASE i <= used - k
    <3>1. i + k \in 1 .. used /\ t = TagPlus(head, (i + k) - 1)
      BY <1>0, <1>1, <2>2, <2>5
    <3>2. ~(n >= 1 /\ t = tail) /\ ~(n = 2 /\ t = tail1)
      BY <1>0, <1>1, <1>4, <2>2, <2>5 DEF TagPlus, Tag, tail1
    <3>3. ~(k >= 1 /\ t = head) /\ ~(k = 2 /\ t = head1_tag)
      BY <1>0, <1>1, <1>4, <2>2, <2>5 DEF TagPlus, Tag, head1_tag
    <3>4. entries'[t] = Completed(entries[t], c[t]) /\ StaticOf(t)' = StaticOf(t)
      BY <1>3, <2>3, <2>4, <3>2, <3>3 DEF Allocated, Retired
    <3>5. D[i + k] = [instr |-> StaticOf(t), done |-> entries'[t].done,
                      result |-> entries'[t].result]
      BY <1>2, <3>1, <3>4
    <3>6. next[i] = D[i + k]
      BY <1>0, <1>1, <1>5, <1>7, <2>5
    <3> QED BY <2>1, <3>4, <3>5, <3>6
  <2>6. CASE ~(i <= used - k)
    <3> DEFINE j == i - (used - k)
    <3>0. j \in 1 .. n /\ i \in 1 .. used - k + n /\ i - 1 + k = used + (j - 1)
      BY <1>0, <1>1, <1>5, <2>6
    <3>1. j \in 1 .. n /\ next[i] = new[j]
      BY <1>7, <2>6, <3>0
    <3>2. new[j] = [instr |-> b[j].instr, done |-> b[j].done, result |-> NoResult]
      BY <1>6, <3>1 DEF Entering
    <3>3. j = 1 \/ (j = 2 /\ n = 2)
      BY <3>1
    <3>4. j = 1 => t = tail
      BY <1>0, <2>2, <3>0
    <3>5. j = 2 => t = tail1
      <4>1. ASSUME j = 2 PROVE t = TagPlus(head, used + 1) /\ used + 2 <= ROB_SIZE
        BY <1>0, <1>4, <2>2, <3>0, <4>1
      <4>2. ASSUME used + 2 <= ROB_SIZE
            PROVE  TagPlus(TagPlus(head, used), 1) = TagPlus(head, used + 1)
        BY <1>0, <4>2 DEF TagPlus, Tag
      <4> QED BY <1>0, <4>1, <4>2 DEF tail1
    <3>6. tail # tail1
      BY <1>0 DEF TagPlus, Tag, tail1
    <3>7. StaticOf(t)' = b[j].instr /\ entries'[t] = NewEntry(b[j])
      BY <1>3, <2>3, <2>4, <3>1, <3>3, <3>4, <3>5, <3>6 DEF Allocated
    <3> QED BY <2>1, <3>1, <3>2, <3>7 DEF NewEntry
  <2> QED BY <2>5, <2>6
<1>10. Window' = next
  BY <1>0, <1>1, <1>5, <1>7, <1>8, <1>9, SeqEqual
<1>11. Len(Window) = used
  BY WindowType DEF WindowRead
<1> QED
  BY <1>0, <1>1, <1>2, <1>4, <1>6, <1>10, <1>11 DEF Abstract!Cycle, Window, next, D

(* A squash of the ring cuts the window behind the branch.                 *)
LEMMA SquashIsAbstract ==
  ASSUME IInv, IInv', NEW c \in Broadcasts, NEW k \in 0 .. 2, NEW br \in Tag,
         SquashCycle(c, k, br)
  PROVE  Abstract!Squash
<1> DEFINE D == Abstract!Delivered(Positions(c))
           p == TagAge(br, head) + 1
           next == SubSeq(D, k + 1, p)
<1>0. /\ ROB_SIZE \in Nat /\ ROB_SIZE >= 2
      /\ entries \in [Tag -> Entry]
      /\ head \in Tag /\ used \in 0 .. ROB_SIZE
  BY RobSizeAssumption DEF IInv, RobTypeOK
<1>1. Abstract!Retirable(k)
  BY CommitRetires DEF SquashCycle
<1>2. /\ Positions(c) \in Abstract!Deliveries
      /\ D \in Seq(Abstract!InFlight) /\ Len(D) = used
      /\ \A i \in 1 .. used :
           LET t == TagPlus(head, i - 1)
               e == Completed(entries[t], c[t])
           IN  D[i] = [instr |-> StaticOf(t), done |-> e.done, result |-> e.result]
  BY CompletionDelivers
<1>3. entries[br].valid /\ ~entries[br].done /\ c[br] # NoResult
  BY DEF SquashCycle, Broadcasts
<1>4. p \in 1 .. used /\ k < p
  BY <1>0, <1>3, CommitStopsBeforeBranch, TagAgeType DEF SquashCycle
<1>5. TagPlus(head, p - 1) = br
  <2>1. p - 1 = TagAge(br, head)
    BY <1>0, TagAgeType
  <2> QED BY <1>0, <2>1, TagOfAge
<1>6. head' = TagPlus(head, k) /\ used' = p - k
  BY <1>0, TagAgeType DEF SquashCycle
<1> HIDE DEF D, p
<1>7. next \in Seq(Abstract!InFlight) /\ Len(next) = p - k
      /\ \A i \in 1 .. p - k : next[i] = D[i + k]
  BY <1>0, <1>2, <1>4
<1>8. /\ Window' \in Seq(Abstract!InFlight) /\ Len(Window') = used'
      /\ \A i \in 1 .. used' : Window'[i] = EntryAt(i)' /\ TagPlus(head', i - 1) \in Tag
  BY WindowTypeNext DEF WindowRead
<1> HIDE DEF next
<1>9. ASSUME NEW i \in 1 .. used' PROVE Window'[i] = next[i]
  <2>0. PICK t \in Tag : t = TagPlus(head', i - 1)
    BY <1>8
  <2>1. Window'[i] = [instr |-> StaticOf(t)', done |-> entries'[t].done,
                      result |-> entries'[t].result]
    BY <1>8, <2>0 DEF EntryAt, StaticOf
  <2>2. StaticOf(t)' = StaticOf(t)
    BY DEF SquashCycle, StaticOf
  <2>3. i + k \in 1 .. used /\ i + k <= p /\ t = TagPlus(head, (i + k) - 1)
    BY <1>0, <1>4, <1>6, <2>0 DEF TagPlus, Tag
  <2>4. TagAge(t, head) = (i + k) - 1
    BY <1>0, <2>3, AgeOfTag
  <2>5. ~(k >= 1 /\ t = head) /\ ~(k = 2 /\ t = head1_tag)
    BY <1>0, <2>3 DEF TagPlus, Tag, head1_tag
  <2>6. ~TagYounger(t, br, head)
    BY <1>0, <2>3, <2>4, TagAgeType DEF TagYounger, p
  <2>7. entries'[t] = Completed(entries[t], c[t])
    BY <2>5, <2>6 DEF SquashCycle, Squashed, Retired
  <2>8. D[i + k] = [instr |-> StaticOf(t), done |-> entries'[t].done,
                    result |-> entries'[t].result]
    BY <1>2, <2>3, <2>7
  <2>9. next[i] = D[i + k]
    BY <1>6, <1>7
  <2> QED BY <2>1, <2>2, <2>8, <2>9
<1>10. Window' = next
  BY <1>6, <1>7, <1>8, <1>9, SeqEqual
<1>11. /\ DOMAIN Window = 1 .. used
       /\ Window[p].done = entries[br].done
       /\ Positions(c)[p] = c[br]
  <2>1. DOMAIN Window = 1 .. used /\ Window[p] = EntryAt(p)
    BY <1>4, WindowType DEF WindowRead
  <2>2. EntryAt(p).done = entries[br].done
    BY <1>5 DEF EntryAt
  <2> QED BY <1>4, <1>5, <2>1, <2>2 DEF Positions
<1> QED
  BY <1>1, <1>2, <1>3, <1>4, <1>10, <1>11 DEF Abstract!Squash, Window, next, D

(* A flush of the ring empties the window.                                 *)
LEMMA FlushIsAbstract ==
  ASSUME IInv, IInv', Flush
  PROVE  Abstract!Flush
<1>1. Window' = <<>>
  BY DEF Flush, Window
<1>2. Window = <<>> \/ Window[1].done
  <2>1. CASE used = 0
    BY <2>1 DEF Window
  <2>2. CASE DoneVec(head)
    <3>1. 1 <= used
      <4>1. CanCommit(1)
        BY <2>2 DEF CanCommit
      <4> QED BY <4>1, CommitWithinWindow
    <3>2. 1 \in 1 .. used /\ TagPlus(head, 1 - 1) = head
      BY <3>1, RobSizeAssumption DEF IInv, RobTypeOK, Tag, TagPlus
    <3>3. Window[1] = EntryAt(1)
      BY <3>2, WindowType DEF WindowRead
    <3> QED BY <2>2, <3>2, <3>3 DEF EntryAt, DoneVec
  <2> QED BY <2>1, <2>2 DEF Flush
<1> QED BY <1>1, <1>2 DEF Abstract!Flush, Window

(* For every size of the buffer and every set of instructions and results: *)
(* the ring with its wrapping pointers, its parity banks and its           *)
(* recomputed occupancy is the sequence of instructions in program order   *)
(* that commit, recovery and the rest of the core take it for              *)
(* (ReorderBuffer.sv).                                                     *)
THEOREM ReorderBufferImplementsWindow == RobSpec => ImplementsWindow
<1>1. RobInit => Abstract!Init
  BY DEF RobInit, Abstract!Init
<1>2. IInv /\ IInv' /\ [RobNext]_robVars => [Abstract!Next]_Window
  <2> SUFFICES ASSUME IInv, IInv', [RobNext]_robVars PROVE [Abstract!Next]_Window
    OBVIOUS
  <2>1. CASE \E c \in Broadcasts, k \in 0 .. 2, b \in Bundle : RobCycle(c, k, b)
    BY <2>1, CycleIsAbstract DEF Abstract!Next
  <2>2. CASE \E c \in Broadcasts, k \in 0 .. 2, br \in Tag : SquashCycle(c, k, br)
    BY <2>2, SquashIsAbstract DEF Abstract!Next
  <2>3. CASE Flush
    BY <2>3, FlushIsAbstract DEF Abstract!Next
  <2>4. CASE UNCHANGED robVars
    BY <2>4 DEF robVars, Window, EntryAt, StaticOf
  <2> QED BY <2>1, <2>2, <2>3, <2>4 DEF RobNext
<1> QED BY <1>1, <1>2, InitIInv, NextStep, PTL DEF RobSpec, ImplementsWindow, Abstract!Spec, Window

-----------------------------------------------------------------------------
(* The arbiter of the buses.                                               *)

\* The requests ranked before i.
Before(r, h, i) ==
  {j \in Requesting(r) \ {i} :
    \/ TagAge(r[j], h) < TagAge(r[i], h)
    \/ TagAge(r[j], h) = TagAge(r[i], h) /\ j < i}

LEMMA RequesterFacts ==
  /\ IsFiniteSet(Requester)
  /\ \A i \in Requester : i \in Int
PROOF
<1>0. REQUESTERS \in Nat  BY ArbiterAssumption
<1>1. IsFiniteSet(0 .. REQUESTERS - 1)  BY <1>0, FS_Interval
<1> QED BY <1>0, <1>1 DEF Requester

(* A request ranked before another has a strictly smaller rank.            *)
LEMMA RankLess ==
  ASSUME NEW h \in Tag, NEW r \in [Requester -> Tag \cup {NoTag}],
         NEW i \in Requesting(r), NEW j \in Requesting(r),
         TagAge(r[j], h) < TagAge(r[i], h)
  PROVE  /\ Rank(r, h, j) < Rank(r, h, i)
         /\ Rank(r, h, i) \in Nat /\ Rank(r, h, j) \in Nat
PROOF
<1>1. \A k \in Requesting(r) : k \in Requester /\ r[k] \in Tag
  BY DEF Requesting
<1>2. \A k \in Requesting(r) : TagAge(r[k], h) \in Int
  BY <1>1, TagAgeType
<1>3. Before(r, h, j) \subseteq Before(r, h, i)
  BY <1>1, <1>2, RequesterFacts DEF Before
<1>4. j \in Before(r, h, i) /\ j \notin Before(r, h, j)
  BY <1>2 DEF Before
<1>5. /\ IsFiniteSet(Before(r, h, i)) /\ Cardinality(Before(r, h, i)) \in Nat
      /\ IsFiniteSet(Before(r, h, j)) /\ Cardinality(Before(r, h, j)) \in Nat
  <2>1. Before(r, h, i) \in SUBSET Requester /\ Before(r, h, j) \in SUBSET Requester
    BY <1>1 DEF Before
  <2> QED BY <2>1, RequesterFacts, FS_Subset, FS_CardinalityType
<1>6. /\ Cardinality(Before(r, h, j)) <= Cardinality(Before(r, h, i))
      /\ Cardinality(Before(r, h, j)) # Cardinality(Before(r, h, i))
  BY <1>3, <1>4, <1>5, FS_Subset
<1> QED BY <1>5, <1>6 DEF Rank, Before

(* Distinct requests have distinct ranks.                                  *)
LEMMA RankInjective ==
  ASSUME BusTypeOK, NEW i \in Requesting(req), NEW j \in Requesting(req), i # j
  PROVE  /\ TagAge(req[i], rob_head) # TagAge(req[j], rob_head)
         /\ Rank(req, rob_head, i) # Rank(req, rob_head, j)
PROOF
<1>1. /\ i \in Requester /\ j \in Requester /\ req[i] \in Tag /\ req[j] \in Tag
      /\ rob_head \in Tag /\ req[i] # req[j] /\ req \in [Requester -> Tag \cup {NoTag}]
  BY DEF BusTypeOK, Requesting
<1>2. TagAge(req[i], rob_head) # TagAge(req[j], rob_head)
  BY <1>1, TagOfAge
<1>3. TagAge(req[i], rob_head) \in Int /\ TagAge(req[j], rob_head) \in Int
  BY <1>1, TagAgeType
<1>4. CASE TagAge(req[i], rob_head) < TagAge(req[j], rob_head)
  BY <1>1, <1>2, <1>4, RankLess
<1>5. CASE TagAge(req[j], rob_head) < TagAge(req[i], rob_head)
  BY <1>1, <1>2, <1>5, RankLess
<1> QED BY <1>2, <1>3, <1>4, <1>5

(* The rank each bus carries.                                              *)
LEMMA BusRanks ==
  ASSUME NEW f \in SUBSET Bus
  PROVE  /\ RankOfBus(f, 0) = 0
         /\ RankOfBus(f, 1) = IF 0 \in f THEN 1 ELSE 0
         /\ RankOfBus(f, 2) = IF 0 \in f THEN IF 1 \in f THEN 2 ELSE 1
                              ELSE IF 1 \in f THEN 1 ELSE 0
PROOF
<1> DEFINE Below(k) == {b \in f : b < k}
<1>0. \A b : b \in f => b = 0 \/ b = 1 \/ b = 2
  BY DEF Bus
<1>1. Below(0) = {}
  <2>1. \A b \in f : ~(b < 0)  BY <1>0
  <2> QED BY <2>1
<1>2. Below(1) = IF 0 \in f THEN {0} ELSE {}
  <2>1. \A b \in f : b < 1 <=> b = 0  BY <1>0
  <2> QED BY <2>1
<1>3. Below(2) = IF 0 \in f THEN IF 1 \in f THEN {0} \cup {1} ELSE {0}
                 ELSE IF 1 \in f THEN {1} ELSE {}
  <2>1. \A b \in f : b < 2 <=> b = 0 \/ b = 1  BY <1>0
  <2>2. Below(2) = {b \in f : b = 0 \/ b = 1}  BY <2>1
  <2> HIDE DEF Below
  <2>3. CASE 0 \in f /\ 1 \in f  BY <2>2, <2>3
  <2>4. CASE 0 \in f /\ 1 \notin f  BY <2>2, <2>4
  <2>5. CASE 0 \notin f /\ 1 \in f  BY <2>2, <2>5
  <2>6. CASE 0 \notin f /\ 1 \notin f  BY <2>2, <2>6
  <2> QED BY <2>3, <2>4, <2>5, <2>6
<1>4. Cardinality({}) = 0 /\ Cardinality({0}) = 1 /\ Cardinality({1}) = 1
  BY FS_EmptySet, FS_Singleton
<1>5. Cardinality({0} \cup {1}) = 2
  <2>1. IsFiniteSet({0})  BY FS_Singleton
  <2>2. 1 \notin {0}  OBVIOUS
  <2> QED BY <1>4, <2>1, <2>2, FS_AddElement
<1>6. /\ RankOfBus(f, 0) = Cardinality(Below(0))
      /\ RankOfBus(f, 1) = Cardinality(Below(1))
      /\ RankOfBus(f, 2) = Cardinality(Below(2))
  BY DEF RankOfBus
<1> HIDE DEF Below
<1> QED BY <1>1, <1>2, <1>3, <1>4, <1>5, <1>6

(* If a free bus carries a rank, free buses carry all smaller ranks; and   *)
(* no two free buses carry the same rank.                                  *)
LEMMA LowerRankHasBus ==
  ASSUME NEW f \in SUBSET Bus, NEW b \in f, NEW n \in Nat, n < RankOfBus(f, b)
  PROVE  \E c \in f : RankOfBus(f, c) = n
BY BusRanks DEF Bus

LEMMA BusOfRankUnique ==
  ASSUME NEW f \in SUBSET Bus, NEW b \in f, NEW c \in f,
         RankOfBus(f, b) = RankOfBus(f, c)
  PROVE  b = c
BY BusRanks DEF Bus

-----------------------------------------------------------------------------
(* Heads are tags, buses and requests are what they should be, and no two  *)
(* units hold a result of the same instruction, in every reachable state.  *)
LEMMA ArrivingType ==
  ASSUME NEW k \in [Requester -> Tag \cup {NoTag}],
         \A i, j \in Requester : k[i] = k[j] => i = j \/ k[i] = NoTag,
         NEW r \in Arriving(k)
  PROVE  /\ r \in [Requester -> Tag \cup {NoTag}]
         /\ \A i, j \in Requester : r[i] = r[j] => i = j \/ r[i] = NoTag
PROOF
<1>1. CASE r = k
  BY <1>1
<1>2. CASE r # k
  <2>1. PICK i \in Requester, t \in Tag \ {k[j] : j \in Requester} :
          r = [j \in Requester |-> IF j = i THEN t ELSE k[j]]
    BY <1>2 DEF Arriving
  <2> QED BY <2>1
<1> QED BY <1>1, <1>2

LEMMA BusTypeCorrect == BusSpec => []BusTypeOK
PROOF
<1>0. ROB_SIZE \in Nat /\ ROB_SIZE >= 2  BY RobSizeAssumption
<1>1. BusInit => BusTypeOK
  BY <1>0 DEF BusInit, BusTypeOK, Tag
<1>2. BusTypeOK /\ [BusNext]_busVars => BusTypeOK'
  <2> SUFFICES ASSUME BusTypeOK, [BusNext]_busVars PROVE BusTypeOK'
    OBVIOUS
  <2>1. /\ Kept \in [Requester -> Tag \cup {NoTag}]
        /\ \A i, j \in Requester : Kept[i] = Kept[j] => i = j \/ Kept[i] = NoTag
    BY DEF BusTypeOK, Kept
  <2>2. CASE UNCHANGED busVars
    BY <2>2 DEF busVars, BusTypeOK
  <2>3. ASSUME NEW owners \in SUBSET Bus, NEW n \in 0 .. 2, BusCycle(n, owners)
        PROVE  BusTypeOK'
    <3>1. rob_head' \in Tag
      BY <2>3, <1>0, TagPlusType DEF BusCycle, BusTypeOK
    <3>2. /\ req' \in [Requester -> Tag \cup {NoTag}]
          /\ \A i, j \in Requester : req'[i] = req'[j] => i = j \/ req'[i] = NoTag
      BY <2>1, <2>3, ArrivingType DEF BusCycle
    <3> QED BY <2>3, <3>1, <3>2 DEF BusCycle, BusTypeOK
  <2>4. ASSUME NEW owners \in SUBSET Bus, NEW t \in Tag, BusRecover(t, owners)
        PROVE  BusTypeOK'
    <3> DEFINE older == [i \in Requester |->
                           IF Kept[i] # NoTag /\ TagYounger(Kept[i], t, rob_head) THEN NoTag
                           ELSE Kept[i]]
    <3>1. /\ older \in [Requester -> Tag \cup {NoTag}]
          /\ \A i, j \in Requester : older[i] = older[j] => i = j \/ older[i] = NoTag
      BY <2>1
    <3>2. req' \in Arriving(older)
      BY <2>4 DEF BusRecover
    <3> HIDE DEF older
    <3>3. /\ req' \in [Requester -> Tag \cup {NoTag}]
          /\ \A i, j \in Requester : req'[i] = req'[j] => i = j \/ req'[i] = NoTag
      BY <3>1, <3>2, ArrivingType
    <3> QED BY <2>4, <3>3 DEF BusRecover, BusTypeOK
  <2> QED BY <2>2, <2>3, <2>4 DEF BusNext
<1> QED BY <1>1, <1>2, PTL DEF BusSpec

(* The oldest requests are served first, in every reachable state.         *)
THEOREM ArbiterGrantsOldest == BusSpec => []GrantsOldest
PROOF
<1>1. BusTypeOK => GrantsOldest
  <2> SUFFICES ASSUME BusTypeOK, NEW i \in Grants, NEW j \in Requesting(req) \ Grants
               PROVE  TagAge(req[i], rob_head) < TagAge(req[j], rob_head)
    BY DEF GrantsOldest
  <2>1. PICK b \in Bus : i \in OnBus(req, rob_head, bus_free, b)
    BY DEF Grants, Granted
  <2>2. /\ i \in Requesting(req) /\ b \in bus_free
        /\ Rank(req, rob_head, i) = RankOfBus(bus_free, b)
    BY <2>1 DEF OnBus
  <2>3. /\ req[i] \in Tag /\ req[j] \in Tag /\ rob_head \in Tag
        /\ req \in [Requester -> Tag \cup {NoTag}] /\ bus_free \in SUBSET Bus
    BY <2>2 DEF BusTypeOK, Requesting
  <2>4. TagAge(req[i], rob_head) \in Int /\ TagAge(req[j], rob_head) \in Int
    BY <2>3, TagAgeType
  <2>5. TagAge(req[i], rob_head) # TagAge(req[j], rob_head)
    BY <2>2, RankInjective
  <2>6. ASSUME TagAge(req[j], rob_head) < TagAge(req[i], rob_head) PROVE FALSE
    <3>1. Rank(req, rob_head, j) < Rank(req, rob_head, i) /\ Rank(req, rob_head, j) \in Nat
      BY <2>2, <2>3, <2>6, RankLess
    <3>2. PICK c \in bus_free : RankOfBus(bus_free, c) = Rank(req, rob_head, j)
      BY <2>2, <2>3, <3>1, LowerRankHasBus
    <3> QED BY <2>3, <3>2 DEF OnBus, Grants, Granted
  <2> QED BY <2>4, <2>5, <2>6
<1> QED BY <1>1, BusTypeCorrect, PTL

(* Buses never mix two results, and no result takes two buses.             *)
THEOREM ArbiterOneResultPerBus == BusSpec => []OneResultPerBus
PROOF
<1>1. BusTypeOK => OneResultPerBus
  <2> SUFFICES ASSUME BusTypeOK PROVE OneResultPerBus
    OBVIOUS
  <2>1. \A b \in Bus, i, j \in Requester :
          i \in OnBus(req, rob_head, bus_free, b) /\ j \in OnBus(req, rob_head, bus_free, b) => i = j
    BY RankInjective DEF OnBus
  <2>2. \A b, c \in Bus, i \in Requester :
          i \in OnBus(req, rob_head, bus_free, b) /\ i \in OnBus(req, rob_head, bus_free, c) => b = c
    BY BusOfRankUnique DEF OnBus, BusTypeOK
  <2> QED BY <2>1, <2>2 DEF OneResultPerBus
<1> QED BY <1>1, BusTypeCorrect, PTL

-----------------------------------------------------------------------------
(* The ranks of n requests are the numbers below n, each of them once.     *)
LEMMA RankTaken ==
  ASSUME BusTypeOK, NEW j \in Requesting(req), NEW n \in Nat, n <= Rank(req, rob_head, j)
  PROVE  \E i \in Requesting(req) : Rank(req, rob_head, i) = n
PROOF
<1> DEFINE R == Requesting(req)
           N == Cardinality(R)
           rank == [i \in R |-> Rank(req, rob_head, i)]
<1>1. IsFiniteSet(R) /\ N \in Nat
  <2>1. R \in SUBSET Requester
    BY DEF Requesting
  <2> QED BY <2>1, RequesterFacts, FS_Subset, FS_CardinalityType
<1>2. ASSUME NEW i \in R PROVE Rank(req, rob_head, i) \in 0 .. N - 1
  <2>1. Before(req, rob_head, i) \in SUBSET (R \ {i})
    BY DEF Before
  <2>2. IsFiniteSet(R \ {i}) /\ Cardinality(R \ {i}) = N - 1
    BY <1>1, FS_RemoveElement
  <2> HIDE DEF R, N
  <2>3. Cardinality(Before(req, rob_head, i)) \in Nat /\ Cardinality(Before(req, rob_head, i)) <= N - 1
    BY <2>1, <2>2, FS_Subset, FS_CardinalityType
  <2>4. Rank(req, rob_head, i) = Cardinality(Before(req, rob_head, i))
    BY DEF Rank, Before
  <2> QED BY <1>1, <2>3, <2>4
<1>3. rank \in Injection(R, 0 .. N - 1)
  <2>1. \A a, b \in R : rank[a] = rank[b] => a = b
    BY RankInjective
  <2> HIDE DEF R, N
  <2> QED BY <1>2, <2>1 DEF Injection, IsInjective
<1>4. IsFiniteSet(0 .. N - 1) /\ Cardinality(0 .. N - 1) = N
  <2> HIDE DEF N
  <2>1. 0 \in Int /\ N - 1 \in Int /\ (0 > N - 1 => N = 0) /\ N - 1 - 0 + 1 = N
    BY <1>1
  <2>2. /\ IsFiniteSet(0 .. N - 1)
        /\ Cardinality(0 .. N - 1) = IF 0 > N - 1 THEN 0 ELSE N - 1 - 0 + 1
    BY <2>1, FS_Interval
  <2> QED BY <2>1, <2>2
<1>5. rank \in Surjection(R, 0 .. N - 1)
  <2> HIDE DEF R, rank
  <2>1. Cardinality(R) = Cardinality(0 .. N - 1)
    BY <1>4
  <2> QED BY <1>3, <1>4, <2>1, FS_Injection
<1>6. n \in 0 .. N - 1
  BY <1>1, <1>2
<1>7. PICK i \in R : rank[i] = n
  <2> HIDE DEF R, rank, N
  <2> QED BY <1>5, <1>6 DEF Surjection
<1> QED BY <1>7

(* A request without a bus has a rank that no free bus carries: every free *)
(* bus carries a lower one.                                                *)
LEMMA RefusedIsBeyond ==
  ASSUME BusTypeOK, NEW j \in Requesting(req) \ Grants, NEW b \in bus_free
  PROVE  /\ RankOfBus(bus_free, b) \in Nat
         /\ RankOfBus(bus_free, b) < Rank(req, rob_head, j)
PROOF
<1>1. bus_free \in SUBSET Bus
  BY DEF BusTypeOK
<1>2. RankOfBus(bus_free, b) \in Nat
  BY <1>1, BusRanks DEF Bus
<1>3. Rank(req, rob_head, j) \in Nat
  <2>1. Before(req, rob_head, j) \in SUBSET Requester
    BY DEF Before, Requesting
  <2>2. Cardinality(Before(req, rob_head, j)) \in Nat
    BY <2>1, RequesterFacts, FS_Subset, FS_CardinalityType
  <2> QED BY <2>2 DEF Rank, Before
<1>4. \A c \in bus_free : RankOfBus(bus_free, c) # Rank(req, rob_head, j)
  BY <1>1 DEF Grants, Granted, OnBus
<1>5. ~ (Rank(req, rob_head, j) < RankOfBus(bus_free, b))
  BY <1>1, <1>3, <1>4, LowerRankHasBus
<1> QED BY <1>2, <1>3, <1>4, <1>5

(* No bus is left idle while a request waits, in every reachable state: a  *)
(* unit is refused only when as many are served as buses are free          *)
(* (CdbArbiter.sv, the rank of a request against that of a bus).           *)
THEOREM ArbiterNoIdleBus == BusSpec => []NoIdleBus
PROOF
<1>1. BusTypeOK => NoIdleBus
  <2> SUFFICES ASSUME BusTypeOK, NEW j \in Requesting(req) \ Grants
               PROVE  Cardinality(Grants) = Cardinality(bus_free)
    BY DEF NoIdleBus, Grants, Granted, OnBus
  <2> DEFINE Served(b) == CHOOSE i \in Requesting(req) : Rank(req, rob_head, i) = RankOfBus(bus_free, b)
             served == [b \in bus_free |-> Served(b)]
  <2>1. bus_free \in SUBSET Bus /\ IsFiniteSet(bus_free)
    <3>1. IsFiniteSet(Bus)
      <4>1. 0 \in Int /\ 2 \in Int
        OBVIOUS
      <4> QED BY <4>1, FS_Interval DEF Bus
    <3>2. bus_free \in SUBSET Bus
      BY DEF BusTypeOK
    <3> QED BY <3>1, <3>2, FS_Subset
  <2>2. ASSUME NEW b \in bus_free
        PROVE  Served(b) \in Requesting(req) /\ Rank(req, rob_head, Served(b)) = RankOfBus(bus_free, b)
    <3>1. RankOfBus(bus_free, b) \in Nat /\ RankOfBus(bus_free, b) <= Rank(req, rob_head, j)
      <4>1. Rank(req, rob_head, j) \in Int
        <5>1. Before(req, rob_head, j) \in SUBSET Requester
          BY DEF Before, Requesting
        <5>2. Cardinality(Before(req, rob_head, j)) \in Nat
          BY <5>1, RequesterFacts, FS_Subset, FS_CardinalityType
        <5> QED BY <5>2 DEF Rank, Before
      <4> QED BY <4>1, RefusedIsBeyond
    <3>2. \E i \in Requesting(req) : Rank(req, rob_head, i) = RankOfBus(bus_free, b)
      BY <3>1, RankTaken
    <3> QED BY <3>2
  <2>3. \A b \in bus_free : Served(b) \in Grants
    BY <2>1, <2>2 DEF Grants, Granted, OnBus
  <2>4. \A i \in Grants : \E b \in bus_free : Rank(req, rob_head, i) = RankOfBus(bus_free, b)
    BY DEF Grants, Granted, OnBus
  <2>5. \A i \in Grants : i \in Requesting(req)
    BY DEF Grants, Granted, OnBus
  <2> HIDE DEF Served
  <2>6. \A i \in Grants : \E b \in bus_free : Served(b) = i
    BY <2>2, <2>4, <2>5, RankInjective
  <2>7. \A b, c \in bus_free : Served(b) = Served(c) => b = c
    <3> SUFFICES ASSUME NEW b \in bus_free, NEW c \in bus_free, Served(b) = Served(c) PROVE b = c
      OBVIOUS
    <3>1. RankOfBus(bus_free, b) = RankOfBus(bus_free, c)
      BY <2>2
    <3> QED BY <2>1, <3>1, BusOfRankUnique
  <2>8. served \in Bijection(bus_free, Grants)
    BY <2>3, <2>6, <2>7 DEF Bijection, Injection, IsInjective, Surjection
  <2>9. ExistsBijection(bus_free, Grants)
    BY <2>8 DEF ExistsBijection
  <2> QED BY <2>1, <2>9, FS_Bijection
<1> QED BY <1>1, BusTypeCorrect, PTL

=============================================================================
