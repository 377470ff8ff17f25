----------------------------- MODULE CdbArbiter -----------------------------
(***************************************************************************)
(* The arbiter of the common data buses (CdbArbiter.sv).  ALU 0, ALU 1 and *)
(* the branch unit own buses 0, 1 and 2 in any cycle they execute; the     *)
(* other units request a bus by tag and the oldest get the free ones.      *)
(* req maps a requester to its tag, or to NoTag; free is the set of buses  *)
(* whose owner is not driving.                                             *)
(***************************************************************************)
EXTENDS Tags, FiniteSets

CONSTANTS REQUESTERS, NoTag

ASSUME ArbiterAssumption == REQUESTERS \in Nat \ {0} /\ NoTag \notin Tag

Requester == 0 .. REQUESTERS - 1
Bus == 0 .. 2

Requesting(req) == {i \in Requester : req[i] # NoTag}

\* Mutated: the lowest index wins.
RankByIndex(req, h, i) == Cardinality({j \in Requesting(req) : j < i})

\* How many requests are older; equal ages go to the lower index.
Rank(req, h, i) ==
  Cardinality({j \in Requesting(req) \ {i} :
    \/ TagAge(req[j], h) < TagAge(req[i], h)
    \/ TagAge(req[j], h) = TagAge(req[i], h) /\ j < i})

\* Mutated: bus j always carries rank j, or buses 1 and 2 both carry rank 1.
RankOfBusFixed(free, j) == j
RankOfBusTwice(free, j) == IF j = 2 THEN 1 ELSE Cardinality({b \in free : b < j})

\* Free buses are filled in order: the rank a bus carries is the number of
\* free buses below it.
RankOfBus(free, j) == Cardinality({b \in free : b < j})

\* The requests put on bus j (at most one).
OnBus(req, h, free, j) ==
  {i \in Requesting(req) : j \in free /\ Rank(req, h, i) = RankOfBus(free, j)}

Granted(req, h, free) == UNION {OnBus(req, h, free, j) : j \in Bus}

=============================================================================
