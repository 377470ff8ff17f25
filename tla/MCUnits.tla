------------------------------- MODULE MCUnits ------------------------------
(***************************************************************************)
(* The branch predictor and the arbiter of the data buses, with those who  *)
(* ask them.  They share no state here: each runs on its own while the     *)
(* other is at reset, so that the states add up.                           *)
(***************************************************************************)
EXTENDS BranchPrediction, BusArbitration, TLC

I(kind, link, back, to, next, goes) ==
  [kind |-> kind, link |-> link, back |-> back, to |-> to, next |-> next, goes |-> goes]

\* Halfword addresses 0 to 3, as the sets of their ones.
a0 == {}
a1 == {0}
a2 == {1}
a3 == {0, 1}
MCPC == {a0, a1, a2, a3}

\* A loop branch, two calls, and a return to the first of them.
MixedCode ==
  (a0 :> I("branch", FALSE, TRUE, a1, a3, {a1, NoPC})) @@
  (a1 :> I("jal", TRUE, FALSE, a2, a1, {a2})) @@
  (a2 :> I("return", FALSE, FALSE, a0, a3, {a1})) @@
  (a3 :> I("jal", TRUE, FALSE, a2, a2, {a2}))

-----------------------------------------------------------------------------
UnitsInit == BranchInit /\ BusInit
UnitsNext ==
  \/ BusInit /\ BranchNext /\ UNCHANGED busVars
  \/ BranchInit /\ BusNext /\ UNCHANGED branchVars
UnitsSpec == UnitsInit /\ [][UnitsNext]_<<branchVars, busVars>>

=============================================================================
