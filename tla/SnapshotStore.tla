---------------------------- MODULE SnapshotStore ----------------------------
(***************************************************************************)
(* What docs/perf_history.json promises (tools/perf_snapshot.py): for each *)
(* label the last snapshot recorded under it, and nothing recorded under   *)
(* one label touches another one.  A snapshot is recorded whole: all its   *)
(* workloads passed, and all were run on the same core.                    *)
(*                                                                         *)
(* The fragile store keeps the same promise until it is lost, and is never *)
(* silently begun anew.                                                    *)
(***************************************************************************)
CONSTANTS
    Labels,     \* the names of snapshots
    Snapshots,  \* the sound ones
    NoSnapshot,
    NoStore     \* all snapshots are lost

VARIABLE store  \* label |-> its snapshot, if it has one

Init == store = [l \in Labels |-> NoSnapshot]

Record(l) == \E s \in Snapshots : store' = [store EXCEPT ![l] = s]

Next == \E l \in Labels : Record(l)

Spec == Init /\ [][Next]_store

Lose == store' = NoStore

FragileNext == store # NoStore /\ (Next \/ Lose)

FragileSpec == Init /\ [][FragileNext]_store
=============================================================================
