---------------------------- MODULE PendingStores ---------------------------
(***************************************************************************)
(* What the store buffer promises: committed stores leave for memory in    *)
(* the order they came, none lost, none twice, none invented.              *)
(***************************************************************************)
EXTENDS Sequences, Integers

CONSTANTS Store, Depth

VARIABLE pending        \* Seq(Store), oldest first

Init == pending = <<>>

\* One cycle: the oldest may leave, and a store may enter if there was room.
Cycle ==
  \E leave \in {0, 1}, enter \in {<<>>} \cup {<<s>> : s \in Store} :
    /\ leave <= Len(pending)
    /\ Len(pending) = Depth => enter = <<>>
    /\ pending' = SubSeq(pending, leave + 1, Len(pending)) \o enter

Spec == Init /\ [][Cycle]_pending

=============================================================================
