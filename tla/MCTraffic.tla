------------------------------- MODULE MCTraffic -------------------------------
(***************************************************************************)
(* Model-checking instance of Balancers and Limiters: which server a call  *)
(* goes to, and whether the server lets it in.  The two share nothing, so  *)
(* in a behaviour only one of them, `part`, moves.  Calls name no group, a *)
(* string or a value of another type; one connection carries no group.     *)
(***************************************************************************)
EXTENDS Balancers, Limiters, TLC

CONSTANTS g1, g2

TwoOneOne   == 1 :> 2 @@ 2 :> 1 @@ 3 :> 1
AllOrTwo    == g1 :> {1, 2, 3} @@ g2 :> {2, 3}
NoneThenB   == 1 :> Nil @@ 2 :> "b" @@ 3 :> "b"

VARIABLE part

TrafficInit ==
    /\ part \in {"balancers", "limiters"}
    /\ AnyInit /\ LimiterInit
    /\ part = "balancers" => limiter = "fix"
    /\ part = "limiters" => kind = "robin" /\ len = 0 /\ filter = "none"

BalancersNext ==
    part = "balancers" /\ AnyNext /\ UNCHANGED <<part, limiterVars>>
LimitersNext ==
    part = "limiters" /\ LimiterNext /\ UNCHANGED <<part, allVars>>

TrafficNext == BalancersNext \/ LimitersNext

TrafficSpec == TrafficInit /\ [][TrafficNext]_<<part, allVars, limiterVars>>

\* Requests are interchangeable, and no property here is a liveness property.
Symmetry == Permutations(Requests)

(* The properties are those of the two modules. *)
=============================================================================
