------------------------------- MODULE Balancers -------------------------------
(***************************************************************************)
(* The pickers of loadbalance together: `kind` is the one that a client    *)
(* was dialed with.  P2C is extended, the others are instances; those that *)
(* have a filter share it, and the results of their picks.                 *)
(***************************************************************************)
EXTENDS P2C, Filters, Weights

CONSTANTS
    Wanted,    \* what the filter leaves of Conns for a caller of WeightPicker
    MaxPicks   \* bound: picks of the round robin picker

ASSUME WantedAssumption == Wanted \in [Callers -> SUBSET Conns]
ASSUME PicksAssumption  == MaxPicks \in Nat

VARIABLES
    kind,
    currentWeight, efficientWeight, step, at, total, best, base, solo,
    picker, filter, cnt, mutex, call, index, result, series

Weighted == INSTANCE WeightRoundRobin WITH pc <- step
Robin    == INSTANCE RoundRobin
Random   == INSTANCE RandomPickers

weightVars == <<currentWeight, efficientWeight, step, at, total, best, base, solo>>
robinVars  == <<cnt, mutex, call, index, series>>
choiceVars == <<filter, result>>
allVars    == <<kind, vars, weightVars, robinVars, choiceVars, picker>>

AnyInit ==
    /\ kind \in {"p2c", "weighted", "robin", "random"}
    /\ Init /\ Weighted!Init /\ Robin!Init /\ Random!Init
    /\ kind # "p2c" => len = 0
    /\ kind # "random" => picker = "hash"
    /\ kind \notin {"robin", "random"} => filter = "none"

P2CNext ==
    kind = "p2c" /\ Next
      /\ UNCHANGED <<kind, weightVars, robinVars, choiceVars, picker>>
WeightedNext ==
    kind = "weighted" /\ Weighted!Next
      /\ UNCHANGED <<kind, vars, robinVars, choiceVars, picker>>
RobinNext ==
    kind = "robin" /\ Robin!Next
      /\ UNCHANGED <<kind, vars, weightVars, picker>>
RandomNext ==
    kind = "random" /\ Random!Next
      /\ UNCHANGED <<kind, vars, weightVars, robinVars>>

AnyNext == P2CNext \/ WeightedNext \/ RobinNext \/ RandomNext

AnySpec == AnyInit /\ [][AnyNext]_allVars

\* The type invariants of the modules.
TypesOK == TypeOK /\ Weighted!TypeOK /\ Robin!TypeOK

\* P2C: NoneStarves is that module's own.

\* WeightRoundRobin: weight is neither made nor lost
\* (roundrobin/weight_picker.go:72-85).
Conserved == Weighted!Conserved

\* WeightRoundRobin: a pick that nobody disturbs is the sequential algorithm
\* (roundrobin/weight_picker.go:68-79).
SoloIsSequential == Weighted!SoloIsSequential

\* WeightRoundRobin: a successful call never lowers a weight
\* (roundrobin/weight_picker.go:97, 127).
SuccessNeverLowers == Weighted!SuccessNeverLowers

\* RoundRobin: strict polling among the same candidates
\* (roundrobin/picker.go:55-57).
Even == Robin!Even

(***************************************************************************)
(* A call that names a group, with a string, is given a connection of that *)
(* group, and an error only when there is none: whichever filter the       *)
(* picker was built with, whoever picked before, and whatever the weights. *)
(* About types.go:10-36 and the loops of roundrobin/picker.go:64-74,       *)
(* random/picker.go:55-70 and random/weight_picker.go:61-84.  (hash and    *)
(* p2c do not ask their filter.)                                           *)
(***************************************************************************)
OwnGroup == (kind = "robin" => Robin!OwnGroup) /\ Random!OwnGroup
=============================================================================
