---------------------------- MODULE BusArbitration --------------------------
(***************************************************************************)
(* The common data buses and the units that share them (CdbArbiter.sv, and *)
(* the grant wiring of otter_mcu_ooo.sv): a unit that is refused a bus     *)
(* holds its result and asks again, and a squash withdraws the requests of *)
(* younger instructions.                                                   *)
(***************************************************************************)
EXTENDS CdbArbiter

VARIABLES rob_head,
          req,         \* [Requester -> tag of the result it holds, or NoTag]
          bus_free     \* buses whose owner does not drive them

busVars == <<rob_head, req, bus_free>>

Held == {req[i] : i \in Requesting(req)}
Grants == Granted(req, rob_head, bus_free)

\* A unit that holds no result may finish one, of an instruction no other
\* unit holds (one unit per cycle, the others may follow in the next); a unit
\* that was refused keeps its own.
Arriving(kept) ==
  {kept} \cup {[k \in Requester |-> IF k = i THEN t ELSE kept[k]] :
              i \in {k \in Requester : kept[k] = NoTag},
              t \in Tag \ {kept[k] : k \in Requester}}

Kept == [i \in Requester |-> IF i \in Grants THEN NoTag ELSE req[i]]

BusInit ==
  /\ rob_head = 0
  /\ req = [i \in Requester |-> NoTag]
  /\ bus_free = Bus

\* The head only passes instructions that have finished: none that holds a
\* result and is still to broadcast it, and none granted this very cycle.
Commit(n) == \A i \in Requesting(req) : TagAge(req[i], rob_head) >= n

BusCycle(n, owners) ==
  /\ Commit(n)
  /\ rob_head' = TagPlus(rob_head, n)
  /\ req' \in Arriving(Kept)
  /\ bus_free' = Bus \ owners

\* A recovery withdraws what is younger than the branch t, which is on bus 2.
BusRecover(t, owners) ==
  /\ 2 \notin bus_free /\ t \notin Held
  /\ rob_head' = rob_head
  /\ LET older == [i \in Requester |->
                     IF Kept[i] # NoTag /\ TagYounger(Kept[i], t, rob_head) THEN NoTag
                     ELSE Kept[i]]
     IN  req' \in Arriving(older)
  /\ bus_free' = Bus \ owners

BusNext ==
  \E owners \in SUBSET Bus :
    \/ \E n \in 0 .. 2 : BusCycle(n, owners)
    \/ \E t \in Tag : BusRecover(t, owners)

BusSpec == BusInit /\ [][BusNext]_busVars

-----------------------------------------------------------------------------
BusTypeOK ==
  /\ rob_head \in Tag /\ bus_free \subseteq Bus
  /\ req \in [Requester -> Tag \cup {NoTag}]
  /\ \A i, j \in Requester : req[i] = req[j] => i = j \/ req[i] = NoTag

(* No younger request is served while an older one is refused.             *)
GrantsOldest ==
  \A i \in Grants, j \in Requesting(req) \ Grants :
    TagAge(req[i], rob_head) < TagAge(req[j], rob_head)

(* A bus carries at most one result, and a result is on at most one bus:   *)
(* the AND-OR of the granted records never mixes two.                      *)
OneResultPerBus ==
  /\ \A b \in Bus, i, j \in Requester :
       /\ i \in OnBus(req, rob_head, bus_free, b)
       /\ j \in OnBus(req, rob_head, bus_free, b)
       => i = j
  /\ \A b, c \in Bus, i \in Requester :
       /\ i \in OnBus(req, rob_head, bus_free, b)
       /\ i \in OnBus(req, rob_head, bus_free, c)
       => b = c

(* No bus idles while a request is refused: as many are granted as there   *)
(* are free buses, or all of them.                                         *)
NoIdleBus ==
  \/ Requesting(req) = Grants
  \/ Cardinality(Grants) = Cardinality(bus_free)

=============================================================================
