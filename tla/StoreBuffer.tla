----------------------------- MODULE StoreBuffer ----------------------------
(***************************************************************************)
(* The store buffer (StoreBuffer.sv): a ring of committed stores between   *)
(* commit and the memory port.  One step is one clock cycle, in which a    *)
(* store may enter, the oldest may leave, and a load may look its bytes up.*)
(***************************************************************************)
EXTENDS StoreForwarding, FiniteSets

CONSTANTS DEPTH,    \* entries
          Store,    \* stores that may be committed
          Query     \* lookups: [word, mask]

ASSUME DepthAssumption == DEPTH \in Nat \ {0} /\ Store # {}

Slot == 0 .. DEPTH - 1

VARIABLES slots,    \* [Slot -> Store]: addr_q, data_q and mask_q
          head_q, tail_q, count_q

bufferVars == <<slots, head_q, tail_q, count_q>>

full == count_q = DEPTH
empty == count_q = 0

NextSlot(p) == IF p = DEPTH - 1 THEN 0 ELSE p + 1

\* Mutated: no wrap around.
phys_indexStuck(i) == IF head_q + i >= DEPTH THEN DEPTH - 1 ELSE head_q + i

\* The slot of the i-th oldest store (phys_index_from_head).
phys_index(i) == IF head_q + i >= DEPTH THEN head_q + i - DEPTH ELSE head_q + i

BufferHeld == [i \in 1 .. count_q |-> slots[phys_index(i - 1)]]

forward_hit(q) == ForwardHit(BufferHeld, q.word, q.mask)
forward_conflict(q) == ForwardConflict(BufferHeld, q.word, q.mask)
forward_data_word(q) == Forwarded(BufferHeld, q.word, q.mask)

BufferInit ==
  /\ slots \in {[p \in Slot |-> s] : s \in Store}
  /\ head_q = 0 /\ tail_q = 0 /\ count_q = 0

\* Mutated: a store that leaves as another enters is still counted.
CountAfterForgetful(do_enqueue, do_dequeue) ==
  IF do_enqueue THEN count_q + 1 ELSE IF do_dequeue THEN count_q - 1 ELSE count_q

CountAfter(do_enqueue, do_dequeue) ==
  IF do_enqueue /\ ~do_dequeue THEN count_q + 1
  ELSE IF do_dequeue /\ ~do_enqueue THEN count_q - 1
  ELSE count_q

\* A store that is offered to a full buffer is not taken, even if one leaves.
BufferCycle(enqueue_valid, store, drain_accept) ==
  LET do_enqueue == enqueue_valid /\ ~full
      do_dequeue == drain_accept /\ ~empty
  IN  /\ slots' = [p \in Slot |-> IF do_enqueue /\ p = tail_q THEN store ELSE slots[p]]
      /\ tail_q' = IF do_enqueue THEN NextSlot(tail_q) ELSE tail_q
      /\ head_q' = IF do_dequeue THEN NextSlot(head_q) ELSE head_q
      /\ count_q' = CountAfter(do_enqueue, do_dequeue)

BufferNext ==
  \E enqueue_valid, drain_accept \in BOOLEAN, store \in Store :
    BufferCycle(enqueue_valid, store, drain_accept)

BufferSpec == BufferInit /\ [][BufferNext]_bufferVars

-----------------------------------------------------------------------------
(* The occupancy counter and both pointers keep their ranges and agree:    *)
(* tail is head plus occupancy, wrapped at a depth that need not be a      *)
(* power of two.                                                           *)
BufferTypeOK ==
  /\ slots \in [Slot -> Store]
  /\ head_q \in Slot /\ tail_q \in Slot
  /\ count_q \in 0 .. DEPTH
  /\ tail_q = IF head_q + count_q >= DEPTH THEN head_q + count_q - DEPTH
                                          ELSE head_q + count_q

(* A load that the buffer answers gets, in each of its bytes, what memory  *)
(* will hold once the buffer has drained, although all its bytes come from *)
(* one entry; a load it neither answers nor delays finds all its bytes in  *)
(* memory.                                                                 *)
ForwardExact ==
  \A q \in Query :
    LET memory == [w \in {q.word} |-> [l \in q.mask |-> "memory"]]
        image  == Image(memory, BufferHeld)
    IN  /\ forward_hit(q) => image[q.word] = forward_data_word(q)
        /\ ~forward_hit(q) /\ ~forward_conflict(q) => image = memory

(* The ring implements a bounded queue.                                    *)
Fifo == INSTANCE PendingStores WITH Depth <- DEPTH, pending <- BufferHeld
ImplementsFifo == Fifo!Spec

=============================================================================
