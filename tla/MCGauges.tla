------------------------------ MODULE MCGauges ------------------------------
(* A small instance of Gauges for TLC: ann has two connections, bob one.   *)
EXTENDS Gauges, TLC

CONSTANTS c1, c2, c3, ann, bob

TwoTabs == (c1 :> ann @@ c2 :> ann @@ c3 :> bob)
=============================================================================
