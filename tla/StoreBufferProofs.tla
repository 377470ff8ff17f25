-------------------------- MODULE StoreBufferProofs --------------------------
(***************************************************************************)
(* The store buffer, for every depth: its pointers stay in range and agree *)
(* with its occupancy, its forwarding is exact, and it is a bounded queue. *)
(***************************************************************************)
EXTENDS StoreBuffer, SequenceTheorems, WellFoundedInduction, TLAPS

(* phys_index finds a slot of the ring for every store it is asked for     *)
(* (StoreBuffer.sv:75-86), so a lookup reads no slot outside the array.    *)
LEMMA PhysIndexInRange ==
  ASSUME BufferTypeOK, NEW i \in 0 .. DEPTH - 1
  PROVE  phys_index(i) \in Slot
BY DepthAssumption DEF BufferTypeOK, Slot, phys_index

(* NextSlot steps around the ring.                                         *)
LEMMA NextSlotWraps ==
  ASSUME NEW h \in Slot, NEW n \in 0 .. DEPTH,
         NEW t \in Slot, t = IF h + n >= DEPTH THEN h + n - DEPTH ELSE h + n
  PROVE  /\ NextSlot(h) \in Slot /\ NextSlot(t) \in Slot
         /\ n < DEPTH =>
              NextSlot(t) = IF h + n + 1 >= DEPTH THEN h + n + 1 - DEPTH ELSE h + n + 1
         /\ n > 0 =>
              t = IF NextSlot(h) + (n - 1) >= DEPTH THEN NextSlot(h) + (n - 1) - DEPTH
                  ELSE NextSlot(h) + (n - 1)
         /\ NextSlot(t) = IF NextSlot(h) + n >= DEPTH THEN NextSlot(h) + n - DEPTH
                          ELSE NextSlot(h) + n
BY DepthAssumption DEF Slot, NextSlot

LEMMA InitTypeCorrect == BufferInit => BufferTypeOK
<1> SUFFICES ASSUME BufferInit PROVE BufferTypeOK
  OBVIOUS
<1>1. slots \in [Slot -> Store]
  BY DEF BufferInit
<1>2. head_q = 0 /\ tail_q = 0 /\ count_q = 0
  BY DEF BufferInit
<1> QED BY <1>1, <1>2, DepthAssumption DEF BufferTypeOK, Slot

(* One cycle with any combination of a store entering and one leaving.     *)
LEMMA CycleTypeCorrect ==
  ASSUME BufferTypeOK,
         NEW enqueue_valid \in BOOLEAN, NEW drain_accept \in BOOLEAN, NEW store \in Store,
         BufferCycle(enqueue_valid, store, drain_accept)
  PROVE  BufferTypeOK'
<1> DEFINE enq == enqueue_valid /\ ~full
           deq == drain_accept /\ ~empty
<1>1. head_q \in Slot /\ tail_q \in Slot /\ count_q \in 0 .. DEPTH
  BY DEF BufferTypeOK
<1>2. tail_q = IF head_q + count_q >= DEPTH THEN head_q + count_q - DEPTH
               ELSE head_q + count_q
  BY DEF BufferTypeOK
<1>3. slots' \in [Slot -> Store]
  BY DEF BufferTypeOK, BufferCycle
<1>4. tail_q' = IF enq THEN NextSlot(tail_q) ELSE tail_q
  BY DEF BufferCycle
<1>5. head_q' = IF deq THEN NextSlot(head_q) ELSE head_q
  BY DEF BufferCycle
<1>6. count_q' = IF enq /\ ~deq THEN count_q + 1
              ELSE IF deq /\ ~enq THEN count_q - 1
              ELSE count_q
  BY DEF BufferCycle, CountAfter
<1>7. (enq => count_q < DEPTH) /\ (deq => count_q > 0)
  BY <1>1, DepthAssumption DEF full, empty
<1>8. /\ NextSlot(head_q) \in Slot /\ NextSlot(tail_q) \in Slot
      /\ count_q < DEPTH =>
           NextSlot(tail_q) = IF head_q + count_q + 1 >= DEPTH
                              THEN head_q + count_q + 1 - DEPTH ELSE head_q + count_q + 1
      /\ count_q > 0 =>
           tail_q = IF NextSlot(head_q) + (count_q - 1) >= DEPTH
                    THEN NextSlot(head_q) + (count_q - 1) - DEPTH
                    ELSE NextSlot(head_q) + (count_q - 1)
      /\ NextSlot(tail_q) = IF NextSlot(head_q) + count_q >= DEPTH
                            THEN NextSlot(head_q) + count_q - DEPTH
                            ELSE NextSlot(head_q) + count_q
  BY <1>1, <1>2, NextSlotWraps
<1> HIDE DEF enq, deq
<1>9. CASE enq /\ deq
  <2>1. head_q' = NextSlot(head_q) /\ tail_q' = NextSlot(tail_q) /\ count_q' = count_q
    BY <1>9, <1>4, <1>5, <1>6
  <2> QED BY <2>1, <1>1, <1>3, <1>8 DEF BufferTypeOK, Slot
<1>10. CASE enq /\ ~deq
  <2>1. head_q' = head_q /\ tail_q' = NextSlot(tail_q) /\ count_q' = count_q + 1
    BY <1>10, <1>4, <1>5, <1>6
  <2>2. count_q < DEPTH
    BY <1>10, <1>7
  <2> QED BY <2>1, <2>2, <1>1, <1>3, <1>8, DepthAssumption DEF BufferTypeOK, Slot
<1>11. CASE ~enq /\ deq
  <2>1. head_q' = NextSlot(head_q) /\ tail_q' = tail_q /\ count_q' = count_q - 1
    BY <1>11, <1>4, <1>5, <1>6
  <2>2. count_q > 0
    BY <1>11, <1>7
  <2> QED BY <2>1, <2>2, <1>1, <1>3, <1>8, DepthAssumption DEF BufferTypeOK, Slot
<1>12. CASE ~enq /\ ~deq
  <2>1. head_q' = head_q /\ tail_q' = tail_q /\ count_q' = count_q
    BY <1>12, <1>4, <1>5, <1>6
  <2> QED BY <2>1, <1>1, <1>2, <1>3 DEF BufferTypeOK
<1> QED BY <1>9, <1>10, <1>11, <1>12

(* Whatever enters and leaves in whichever cycle, head, tail and occupancy *)
(* of the store buffer agree (StoreBuffer.sv:97-141), for every depth.     *)
THEOREM StoreBufferTypeCorrect == BufferSpec => []BufferTypeOK
<1>1. BufferInit => BufferTypeOK
  BY InitTypeCorrect
<1>2. BufferTypeOK /\ [BufferNext]_bufferVars => BufferTypeOK'
  <2> SUFFICES ASSUME BufferTypeOK, [BufferNext]_bufferVars PROVE BufferTypeOK'
    OBVIOUS
  <2>1. CASE BufferNext
    BY <2>1, CycleTypeCorrect DEF BufferNext
  <2>2. CASE UNCHANGED bufferVars
    BY <2>2 DEF bufferVars, BufferTypeOK
  <2> QED BY <2>1, <2>2
<1> QED BY <1>1, <1>2, PTL DEF BufferSpec

-----------------------------------------------------------------------------
\* Every set of numbers has a least one.
LEMMA SetHasMin ==
  ASSUME NEW T \in SUBSET Nat, T # {}
  PROVE  \E x \in T : \A y \in T : x <= y
<1> DEFINE R == OpToRel(<, Nat)
<1>1. IsWellFoundedOn(R, Nat)
  BY NatLessThanWellFounded
<1>2. PICK x \in T : \A y \in T : ~ (<<y, x>> \in R)
  <2> HIDE DEF R
  <2> QED BY <1>1, WFMin
<1>3. \A y \in T : <<y, x>> \in R <=> y < x
  BY DEF OpToRel
<1>4. \A y \in T : ~ (y < x)
  <2> HIDE DEF R
  <2> QED BY <1>2, <1>3, Zenon
<1> HIDE DEF R
<1> QED BY <1>4

\* Every set of positions has a last one.
LEMMA SetHasMax ==
  ASSUME NEW n \in Nat, NEW S \in SUBSET (1 .. n), S # {}
  PROVE  \E x \in S : \A y \in S : y <= x
<1> DEFINE T == {n - i : i \in S}
<1>1. T \in SUBSET Nat /\ T # {}
  <2>1. \A i \in S : n - i \in Nat
    OBVIOUS
  <2> QED BY <2>1
<1>2. PICK t \in T : \A u \in T : t <= u
  <2> HIDE DEF T
  <2> QED BY <1>1, SetHasMin
<1>3. PICK x \in S : t = n - x
  BY <1>2
<1>4. \A y \in S : t <= n - y
  BY <1>2
<1> QED BY <1>3, <1>4

\* The youngest overlapping store, where there is one.
LEMMA YoungestExists ==
  ASSUME BufferTypeOK, NEW word, NEW mask,
         NEW found, found = {i \in DOMAIN BufferHeld : Overlaps(BufferHeld[i], word, mask)},
         NEW y, y = YoungestOverlap(BufferHeld, word, mask)
  PROVE  IF found = {} THEN y = 0
         ELSE y # 0 /\ y \in found /\ \A j \in found : j <= y
<1>1. found \in SUBSET (1 .. count_q) /\ count_q \in Nat
  BY DepthAssumption DEF BufferTypeOK, BufferHeld
<1>2. CASE found = {}
  BY <1>2 DEF YoungestOverlap
<1>3. CASE found # {}
  <2>1. \E x \in found : \A j \in found : j <= x
    BY <1>1, <1>3, SetHasMax
  <2>2. y = CHOOSE i \in found : \A j \in found : j <= i
    BY <1>3 DEF YoungestOverlap
  <2>3. y \in found /\ \A j \in found : j <= y
    BY <2>1, <2>2
  <2> QED BY <1>1, <1>3, <2>3
<1> QED BY <1>2, <1>3

\* Positions that are last in a set are equal.
LEMMA LastUnique ==
  ASSUME NEW S \in SUBSET Int, NEW x \in S, \A j \in S : j <= x
  PROVE  (CHOOSE i \in S : \A j \in S : j <= i) = x
<1>1. \A i \in S : (\A j \in S : j <= i) <=> i = x
  OBVIOUS
<1> QED BY <1>1

(* For every depth, set of stores and set of lookups: what the buffer      *)
(* answers a load with is, byte for byte, what memory will hold once the   *)
(* buffer has drained, and a load it lets through reads bytes that no held *)
(* store writes (StoreBuffer.sv:144-192).                                  *)
THEOREM StoreBufferForwardExact == BufferSpec => []ForwardExact
<1>1. BufferTypeOK => ForwardExact
  <2> SUFFICES ASSUME BufferTypeOK, NEW q \in Query
               PROVE  LET memory == [w \in {q.word} |-> [l \in q.mask |-> "memory"]]
                          image  == Image(memory, BufferHeld)
                      IN  /\ forward_hit(q) => image[q.word] = forward_data_word(q)
                          /\ ~forward_hit(q) /\ ~forward_conflict(q) => image = memory
    BY DEF ForwardExact
  <2> DEFINE memory == [w \in {q.word} |-> [l \in q.mask |-> "memory"]]
             image  == Image(memory, BufferHeld)
             found == {i \in DOMAIN BufferHeld : Overlaps(BufferHeld[i], q.word, q.mask)}
             y == YoungestOverlap(BufferHeld, q.word, q.mask)
             Writers(l) == {i \in DOMAIN BufferHeld : BufferHeld[i].word = q.word /\ l \in Lanes(BufferHeld[i])}
             Byte(l) == IF Writers(l) = {} THEN "memory"
                        ELSE BufferHeld[CHOOSE i \in Writers(l) : \A j \in Writers(l) : j <= i].data[l]
  <2>1. image = [w \in {q.word} |-> [l \in q.mask |-> Byte(l)]]
    <3>1. DOMAIN memory = {q.word} /\ memory[q.word] = [l \in q.mask |-> "memory"]
      OBVIOUS
    <3>2. \A l \in q.mask : memory[q.word][l] = "memory"
      OBVIOUS
    <3> DEFINE Cell(w, l) ==
          LET writers == {i \in DOMAIN BufferHeld : BufferHeld[i].word = w /\ l \in Lanes(BufferHeld[i])}
          IN  IF writers = {} THEN memory[w][l]
              ELSE BufferHeld[CHOOSE i \in writers : \A j \in writers : j <= i].data[l]
    <3>3. \A l \in q.mask : Cell(q.word, l) = Byte(l)
      OBVIOUS
    <3> HIDE DEF memory, Byte
    <3>4. image = [w \in DOMAIN memory |-> [l \in DOMAIN memory[w] |-> Cell(w, l)]]
      BY DEF Image
    <3> HIDE DEF image, Cell
    <3> QED BY <3>1, <3>3, <3>4
  <2>2. IF found = {} THEN y = 0 ELSE y # 0 /\ y \in found /\ \A j \in found : j <= y
    BY YoungestExists
  <2>3. \A l \in q.mask : Writers(l) \subseteq found
    BY DEF Overlaps
  <2>4. found \in SUBSET Int
    BY DepthAssumption DEF BufferTypeOK, BufferHeld
  <2>5. ASSUME forward_hit(q) PROVE image[q.word] = forward_data_word(q)
    <3>1. y # 0 /\ q.mask \subseteq Lanes(BufferHeld[y])
      BY <2>5 DEF forward_hit, ForwardHit, Covers
    <3>2. y \in found /\ \A j \in found : j <= y
      BY <2>2, <3>1
    <3>3. \A l \in q.mask : Byte(l) = BufferHeld[y].data[l]
      <4> SUFFICES ASSUME NEW l \in q.mask PROVE Byte(l) = BufferHeld[y].data[l]
        OBVIOUS
      <4>1. y \in Writers(l)
        BY <3>1, <3>2 DEF Overlaps
      <4>2. Writers(l) \in SUBSET Int /\ \A j \in Writers(l) : j <= y
        BY <2>3, <2>4, <3>2
      <4> HIDE DEF Writers, y, found
      <4>3. (CHOOSE i \in Writers(l) : \A j \in Writers(l) : j <= i) = y
        BY <4>1, <4>2, LastUnique
      <4> QED BY <4>1, <4>3
    <3>4. forward_data_word(q) = [l \in q.mask |-> BufferHeld[y].data[l]]
      BY DEF forward_data_word, Forwarded
    <3> HIDE DEF Byte, y, image
    <3> QED BY <2>1, <3>3, <3>4
  <2>6. ASSUME ~forward_hit(q), ~forward_conflict(q) PROVE image = memory
    <3>1. found = {}
      BY <2>2, <2>6 DEF forward_hit, forward_conflict, ForwardConflict
    <3>2. \A l \in q.mask : Byte(l) = "memory"
      BY <2>3, <3>1
    <3> HIDE DEF Byte, image
    <3> QED BY <2>1, <3>2
  <2> QED BY <2>5, <2>6
<1> QED BY <1>1, StoreBufferTypeCorrect, PTL

-----------------------------------------------------------------------------
\* A slot some steps on, around the ring.
LEMMA SlotAround ==
  ASSUME NEW h \in Slot, NEW k \in 0 .. DEPTH - 1
  PROVE  (IF h + k >= DEPTH THEN h + k - DEPTH ELSE h + k) \in Slot
BY DepthAssumption DEF Slot

\* The held stores are a sequence as long as the occupancy says.
LEMMA HeldType ==
  ASSUME BufferTypeOK
  PROVE  /\ BufferHeld \in Seq(Store) /\ Len(BufferHeld) = count_q
         /\ \A i \in 1 .. count_q : BufferHeld[i] = slots[phys_index(i - 1)]
<1>1. count_q \in Nat
  BY DepthAssumption DEF BufferTypeOK
<1>2. \A i \in 1 .. count_q : slots[phys_index(i - 1)] \in Store
  <2> SUFFICES ASSUME NEW i \in 1 .. count_q PROVE slots[phys_index(i - 1)] \in Store
    OBVIOUS
  <2>1. i - 1 \in 0 .. DEPTH - 1
    BY DepthAssumption DEF BufferTypeOK
  <2> QED BY <2>1, PhysIndexInRange DEF BufferTypeOK
<1> QED BY <1>1, <1>2 DEF BufferHeld

\* The slots the ring uses are not the one the next store enters.
LEMMA TailIsFree ==
  ASSUME BufferTypeOK, count_q < DEPTH
  PROVE  /\ phys_index(count_q) = tail_q
         /\ \A k \in 0 .. count_q - 1 : phys_index(k) # tail_q
BY DepthAssumption DEF BufferTypeOK, Slot, phys_index

\* A sequence is known by its length and its elements.
LEMMA SeqExtensional ==
  ASSUME NEW S, NEW s \in Seq(S), NEW t \in Seq(S), Len(s) = Len(t),
         \A i \in 1 .. Len(s) : s[i] = t[i]
  PROVE  s = t
BY SeqEqual

\* One cycle of the ring is one of the queue.
LEMMA CycleIsFifo ==
  ASSUME BufferTypeOK, BufferTypeOK',
         NEW enqueue_valid \in BOOLEAN, NEW drain_accept \in BOOLEAN, NEW store \in Store,
         BufferCycle(enqueue_valid, store, drain_accept)
  PROVE  Fifo!Cycle
<1> DEFINE enq == enqueue_valid /\ ~full
           deq == drain_accept /\ ~empty
           leave == IF deq THEN 1 ELSE 0
           enter == IF enq THEN <<store>> ELSE <<>>
           rest == SubSeq(BufferHeld, leave + 1, Len(BufferHeld))
           next == rest \o enter
<1>1. /\ BufferHeld \in Seq(Store) /\ Len(BufferHeld) = count_q
      /\ \A i \in 1 .. count_q : BufferHeld[i] = slots[phys_index(i - 1)]
  BY HeldType
<1>2. /\ BufferHeld' \in Seq(Store) /\ Len(BufferHeld') = count_q'
      /\ \A i \in 1 .. count_q' : BufferHeld'[i] = slots'[phys_index(i - 1)']
  <2>1. count_q' \in Nat /\ count_q' <= DEPTH
    BY DepthAssumption DEF BufferTypeOK
  <2>2. ASSUME NEW i \in 1 .. count_q' PROVE slots'[phys_index(i - 1)'] \in Store
    <3>1. slots' \in [Slot -> Store] /\ head_q' \in Slot
      BY DEF BufferTypeOK, Slot
    <3>2. phys_index(i - 1)' = IF head_q' + (i - 1) >= DEPTH THEN head_q' + (i - 1) - DEPTH
                               ELSE head_q' + (i - 1)
      BY DEF phys_index
    <3>3. i - 1 \in 0 .. DEPTH - 1
      BY <2>1, DepthAssumption
    <3>4. phys_index(i - 1)' \in Slot
      BY <3>1, <3>2, <3>3, SlotAround
    <3> QED BY <3>1, <3>4
  <2> QED BY <2>1, <2>2 DEF BufferHeld
<1>3. /\ count_q \in 0 .. DEPTH /\ head_q \in Slot /\ tail_q \in Slot /\ DEPTH \in Nat \ {0}
      /\ slots \in [Slot -> Store]
  BY DepthAssumption DEF BufferTypeOK
<1>4. leave \in {0, 1} /\ leave <= count_q /\ (enq => count_q < DEPTH)
  BY <1>3 DEF full, empty
<1>5. count_q' = count_q - leave + (IF enq THEN 1 ELSE 0)
  BY <1>3 DEF BufferCycle, CountAfter
<1>6. \A k \in 0 .. count_q' - 1 : phys_index(k)' = phys_index(k + leave)
  BY <1>3, <1>4, <1>5 DEF BufferCycle, phys_index, NextSlot, Slot
<1>7. \A p \in Slot : slots'[p] = IF enq /\ p = tail_q THEN store ELSE slots[p]
  BY <1>3 DEF BufferCycle
<1>8. /\ rest \in Seq(Store) /\ Len(rest) = count_q - leave
      /\ \A i \in 1 .. count_q - leave : rest[i] = BufferHeld[i + leave]
  BY <1>1, <1>3, <1>4
<1>9. /\ next \in Seq(Store) /\ Len(next) = count_q'
      /\ \A i \in 1 .. count_q' :
           next[i] = IF i <= count_q - leave THEN BufferHeld[i + leave] ELSE store
  <2>1. enter \in Seq(Store) /\ Len(enter) = IF enq THEN 1 ELSE 0
    OBVIOUS
  <2>2. enq => enter[1] = store
    OBVIOUS
  <2>3. leave \in Int /\ count_q \in Int
    BY <1>3
  <2> HIDE DEF rest, enter, leave, enq
  <2>4. /\ next \in Seq(Store) /\ Len(next) = Len(rest) + Len(enter)
        /\ \A i \in 1 .. Len(rest) + Len(enter) :
             next[i] = IF i <= Len(rest) THEN rest[i] ELSE enter[i - Len(rest)]
    BY <1>8, <2>1, ConcatProperties
  <2> HIDE DEF next
  <2>5. Len(next) = count_q' /\ Len(rest) + Len(enter) = count_q'
    BY <1>5, <1>8, <2>1, <2>3, <2>4
  <2>6. \A i \in 1 .. count_q' : ~(i <= count_q - leave) => enq /\ i - (count_q - leave) = 1
    BY <1>5, <2>3
  <2>7. ASSUME NEW i \in 1 .. count_q'
        PROVE  next[i] = IF i <= count_q - leave THEN BufferHeld[i + leave] ELSE store
    <3>1. next[i] = IF i <= count_q - leave THEN rest[i] ELSE enter[i - (count_q - leave)]
      BY <1>8, <2>4, <2>5
    <3>2. CASE i <= count_q - leave
      <4>1. i \in 1 .. count_q - leave
        BY <2>3, <3>2
      <4> QED BY <1>8, <3>1, <3>2, <4>1
    <3>3. CASE ~(i <= count_q - leave)
      BY <2>2, <2>6, <3>1, <3>3
    <3> QED BY <3>2, <3>3
  <2> QED BY <2>4, <2>5, <2>7
<1>10. \A i \in 1 .. count_q' : BufferHeld'[i] = next[i]
  <2> SUFFICES ASSUME NEW i \in 1 .. count_q' PROVE BufferHeld'[i] = next[i]
    OBVIOUS
  <2> DEFINE k == i - 1 + leave
  <2>1. i - 1 \in 0 .. count_q' - 1 /\ k \in 0 .. DEPTH - 1 /\ k \in 0 .. count_q
    BY <1>3, <1>4, <1>5
  <2>2. BufferHeld'[i] = slots'[phys_index(k)] /\ phys_index(k) \in Slot
    BY <1>2, <1>6, <2>1, PhysIndexInRange
  <2>3. CASE i <= count_q - leave
    <3>1. /\ k \in 0 .. count_q - 1 /\ i + leave \in 1 .. count_q
          /\ i + leave - 1 = k
      BY <1>3, <1>4, <2>3
    <3>2. enq => phys_index(k) # tail_q
      BY <1>4, <3>1, TailIsFree
    <3>3. BufferHeld'[i] = slots[phys_index(k)]
      BY <1>7, <2>2, <3>2
    <3>4. slots[phys_index(k)] = BufferHeld[i + leave]
      BY <1>1, <3>1
    <3>5. next[i] = BufferHeld[i + leave]
      BY <1>9, <2>3
    <3> HIDE DEF k, leave, next
    <3> QED BY <3>3, <3>4, <3>5
  <2>4. CASE ~(i <= count_q - leave)
    <3>1. enq /\ k = count_q
      BY <1>3, <1>4, <1>5, <2>4
    <3>2. phys_index(k) = tail_q
      BY <1>4, <3>1, TailIsFree
    <3> HIDE DEF k, leave, next, enq
    <3> QED BY <1>7, <1>9, <2>2, <2>4, <3>1, <3>2
  <2> QED BY <2>3, <2>4
<1>11. BufferHeld' = next
  <2> HIDE DEF next
  <2> QED BY <1>2, <1>9, <1>10, SeqExtensional
<1>12. Len(BufferHeld) = DEPTH => enter = <<>>
  BY <1>1, <1>3 DEF full
<1>13. enter \in {<<>>} \cup {<<s>> : s \in Store}
  OBVIOUS
<1> HIDE DEF enter, leave
<1> QED BY <1>1, <1>4, <1>11, <1>12, <1>13 DEF Fifo!Cycle

(* For every depth, the ring with its two wrapping pointers and its        *)
(* occupancy counter is a bounded first-in first-out queue: nothing is     *)
(* lost, repeated or passed on its way to memory (StoreBuffer.sv:75-141).  *)
THEOREM StoreBufferImplementsFifo == BufferSpec => ImplementsFifo
<1>1. BufferInit => Fifo!Init
  <2> SUFFICES ASSUME BufferInit PROVE BufferHeld = <<>>
    BY DEF Fifo!Init
  <2>1. BufferTypeOK /\ count_q = 0
    BY InitTypeCorrect DEF BufferInit
  <2> QED BY <2>1, HeldType
<1>2. BufferTypeOK /\ BufferTypeOK' /\ [BufferNext]_bufferVars => [Fifo!Cycle]_BufferHeld
  <2> SUFFICES ASSUME BufferTypeOK, BufferTypeOK', [BufferNext]_bufferVars PROVE [Fifo!Cycle]_BufferHeld
    OBVIOUS
  <2>1. CASE BufferNext
    BY <2>1, CycleIsFifo DEF BufferNext
  <2>2. CASE UNCHANGED bufferVars
    BY <2>2 DEF bufferVars, BufferHeld, phys_index
  <2> QED BY <2>1, <2>2
<1> QED BY <1>1, <1>2, StoreBufferTypeCorrect, PTL DEF BufferSpec, ImplementsFifo, Fifo!Spec

=============================================================================
