-------------------------- MODULE ReservationStation ------------------------
(***************************************************************************)
(* The reservation station shared by the execution units                   *)
(* (ReservationStation.sv), as operators on a set of waiting entries.      *)
(*                                                                         *)
(* An operand is a value, or waits for the tag of its producer, or has     *)
(* been woken by tag only ("spec"): its producer was selected by an ALU in *)
(* the cycle before and drives the value on a data bus in this one.        *)
(*   cdb   set of [tag, val]: the data buses in this cycle                 *)
(*   wk    set of tags the ALUs select in this cycle (SPEC_WAKE stations)  *)
(***************************************************************************)
EXTENDS Tags, FiniteSets

CONSTANTS NoTag, Garbage   \* Garbage: an operand field never written

Value(v) == [st |-> "val", tag |-> NoTag, val |-> v]
Wait(t)  == [st |-> "wait", tag |-> t, val |-> Garbage]

Carried(cdb, t) == \E c \in cdb : c.tag = t
ValueOn(cdb, t) == (CHOOSE c \in cdb : c.tag = t).val

\* Value wake-up, which also completes a speculative one, then the tag-only
\* wake-up.
Woken(o, cdb, wk) ==
  IF o.st # "val" /\ Carried(cdb, o.tag) THEN Value(ValueOn(cdb, o.tag))
  ELSE IF o.st = "wait" /\ o.tag \in wk THEN [st |-> "spec", tag |-> o.tag, val |-> o.val]
  ELSE o

WokenEntry(e, cdb, wk) ==
  [tag |-> e.tag, pred |-> e.pred, o1 |-> Woken(e.o1, cdb, wk), o2 |-> Woken(e.o2, cdb, wk)]

Ready(e) == e.o1.st # "wait" /\ e.o2.st # "wait"

OlderReady(station, h, e) ==
  {f \in station : Ready(f) /\ TagAge(f.tag, h) < TagAge(e.tag, h)}

\* The ready entry of rank n, if any: n = 0 on the first issue port, n = 1 on
\* the second.
Offered(station, h, n) ==
  {e \in station : Ready(e) /\ Cardinality(OlderReady(station, h, e)) = n}

\* The operand value an offered entry leaves with.
Resolved(o, cdb) ==
  IF o.st = "spec"
  THEN IF Carried(cdb, o.tag) THEN ValueOn(cdb, o.tag) ELSE Garbage
  ELSE o.val

=============================================================================
