--------------------------- MODULE StoreForwarding --------------------------
(***************************************************************************)
(* Stores on their way to memory, and the loads that look for them: the    *)
(* lookup that the store queue (LoadStoreUnit.sv) and the store buffer     *)
(* (StoreBuffer.sv) share.                                                 *)
(*                                                                         *)
(* A store is [word, data], data being a function on the byte lanes it     *)
(* writes: the code keeps packed data beside a lane mask and spreads it    *)
(* when it is used.  A sequence of stores is oldest first.                 *)
(***************************************************************************)
EXTENDS Integers, Sequences

Lanes(s) == DOMAIN s.data

Overlaps(s, word, mask) == s.word = word /\ Lanes(s) \cap mask # {}

\* Mutated: the oldest store decides.
OldestOverlap(q, word, mask) ==
  LET found == {i \in DOMAIN q : Overlaps(q[i], word, mask)}
  IN  IF found = {} THEN 0 ELSE CHOOSE i \in found : \A j \in found : j >= i

\* Position of the youngest store that writes a byte of the load, 0 if none.
YoungestOverlap(q, word, mask) ==
  LET found == {i \in DOMAIN q : Overlaps(q[i], word, mask)}
  IN  IF found = {} THEN 0 ELSE CHOOSE i \in found : \A j \in found : j <= i

Covers(q, i, mask) == i # 0 /\ mask \subseteq Lanes(q[i])

\* The youngest overlapping store decides: it forwards if it has every byte
\* of the load, otherwise the load must wait.
ForwardHit(q, word, mask) == Covers(q, YoungestOverlap(q, word, mask), mask)

ForwardConflict(q, word, mask) ==
  /\ YoungestOverlap(q, word, mask) # 0
  /\ ~ForwardHit(q, word, mask)

Forwarded(q, word, mask) ==
  [l \in mask |-> q[YoungestOverlap(q, word, mask)].data[l]]

Merged(cell, data) == [l \in DOMAIN cell |-> IF l \in DOMAIN data THEN data[l] ELSE cell[l]]

Written(memory, s) == [memory EXCEPT ![s.word] = Merged(@, s.data)]

\* What memory will hold once the stores of q have been written, byte by byte.
Image(memory, q) ==
  [w \in DOMAIN memory |-> [l \in DOMAIN memory[w] |->
     LET writers == {i \in DOMAIN q : q[i].word = w /\ l \in Lanes(q[i])}
     IN  IF writers = {} THEN memory[w][l]
         ELSE q[CHOOSE i \in writers : \A j \in writers : j <= i].data[l]]]

=============================================================================
