-------------------------- MODULE MCWeightRoundRobin --------------------------
(***************************************************************************)
(* Model-checking instance of WeightRoundRobin: three connections, one     *)
(* caller of all and one whose filter leaves out the first.                *)
(***************************************************************************)
EXTENDS WeightRoundRobin, TLC

CONSTANTS g1, g2

TwoOneOne == 1 :> 2 @@ 2 :> 1 @@ 3 :> 1
Groups    == g1 :> {1, 2, 3} @@ g2 :> {2, 3}
=============================================================================
