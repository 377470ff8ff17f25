-------------------------------- MODULE Tags --------------------------------
(***************************************************************************)
(* Rename tags.  The reorder-buffer index is the rename tag, so tags live  *)
(* on a ring of ROB_SIZE slots and only have an order relative to the      *)
(* current head (ooo_pkg.sv).  The hardware computes on TAG_BITS-wide      *)
(* words; the wrap is written out here as a comparison, which is what the  *)
(* truncated adder does for operands that are tags.                        *)
(***************************************************************************)
EXTENDS Integers

CONSTANT ROB_SIZE   \* entries of the reorder buffer (16 in ooo_pkg.sv)

ASSUME RobSizeAssumption == ROB_SIZE \in Nat /\ ROB_SIZE >= 2

Tag == 0 .. ROB_SIZE - 1

\* The tag k places after t, for k no larger than ROB_SIZE.
TagPlus(t, k) == IF t + k >= ROB_SIZE THEN t + k - ROB_SIZE ELSE t + k

\* Age of a tag relative to the head: 0 is the oldest in flight.
TagAge(t, h) == IF t >= h THEN t - h ELSE t - h + ROB_SIZE

\* t is younger than b, both in flight.
TagYounger(t, b, h) == TagAge(t, h) > TagAge(b, h)

=============================================================================
