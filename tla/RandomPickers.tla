---------------------------- MODULE RandomPickers ----------------------------
(***************************************************************************)
(* The pickers that keep no state: loadbalance/random (plain and by        *)
(* weight) and loadbalance/hash (Picker and ConsistentPicker, which are    *)
(* the same: the first connection, filtered or not).  A random number is   *)
(* a choice of the model.                                                  *)
(***************************************************************************)
EXTENDS Functions, Filters, Weights

VARIABLES
    picker,    \* "random", "weight", "hash", "consistent"
    filter,    \* the PickerBuilder's: "none", "group" or "built"
    result     \* result[g]: the outcome of g's last pick

vars == <<picker, filter, result>>

\* The Build of each PickerBuilder: every ready connection, the weight of its
\* address where one is needed (its absence panics, and is left out), and the
\* builder's filter.
RandomBuild(f)     == picker = "random" /\ filter = f
WeightBuild(f)     == picker = "weight" /\ filter = f
HashBuild(f)       == picker = "hash" /\ filter = f
ConsistentBuild(f) == picker = "consistent" /\ filter = f

Init ==
    /\ \E f \in {"none", "group", "built"} :
          RandomBuild(f) \/ WeightBuild(f) \/ HashBuild(f) \/ ConsistentBuild(f)
    /\ result = [g \in Callers |-> NoResult]

Return(g, group, c) ==
    /\ result' = [result EXCEPT ![g] = Result(group, c)]
    /\ UNCHANGED <<picker, filter>>

RandomPick(g, group) ==
    LET left == Candidates(filter, group)
    IN  /\ picker = "random"
        /\ \/ left = {} /\ Return(g, group, 0)
           \/ \E c \in left : Return(g, group, c)

\* The uint32 sum of the candidates' weights wraps around.
TotalWeight(left) == SumFunctionOnSet(Weight, left) % Word

\* Mutant of Spent: the filter is forgotten when the weights are spent.
Spent_All(left, val) == {c \in Conns : SumFunctionOnSet(Weight, 1 .. c) >= val}

\* The connections at which val, less the weights up to there, is not positive.
Spent(left, val) ==
    {c \in left : SumFunctionOnSet(Weight, {d \in left : d <= c}) >= val}

\* val is one of TotalWeight + 1 numbers, 0 among them.
WeightPick(g, group) ==
    LET left == Candidates(filter, group)
    IN  /\ picker = "weight"
        /\ \E val \in 0 .. TotalWeight(left) :
              \/ Spent(left, val) = {} /\ Return(g, group, 0)
              \/ \E c \in Spent(left, val) :
                    /\ \A d \in Spent(left, val) : c <= d
                    /\ Return(g, group, c)

HashPick(g, group) ==
    picker = "hash" /\ Return(g, group, IF NConns = 0 THEN 0 ELSE 1)

ConsistentPick(g, group) ==
    picker = "consistent" /\ Return(g, group, IF NConns = 0 THEN 0 ELSE 1)

Next ==
    \E g \in Callers, group \in Groups :
        \/ RandomPick(g, group) \/ WeightPick(g, group)
        \/ HashPick(g, group) \/ ConsistentPick(g, group)

Spec == Init /\ [][Next]_vars

-----------------------------------------------------------------------------
(***************************************************************************)
(* A call that names a group gets a connection of it from the random       *)
(* pickers, whatever the number drawn and the weights, one of 0 and sums   *)
(* that wrap around included.  About random/picker.go:55-70 and            *)
(* random/weight_picker.go:61-84; hash does not ask its filter.            *)
(***************************************************************************)
OwnGroup ==
    picker \in {"random", "weight"} /\ filter # "none" =>
        \A g \in Callers : OfItsGroup(result[g])
=============================================================================
