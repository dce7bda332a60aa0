--------------------------- MODULE WeightRoundRobin ---------------------------
(***************************************************************************)
(* WeightPicker (loadbalance/roundrobin/weight_picker.go): smooth weighted *)
(* round robin.  gRPC calls Pick from many goroutines, and the Done of the *)
(* result when the call has ended.  Every connection has a mutex of its    *)
(* own; nothing guards a pick as a whole.  All weights are uint32, here    *)
(* numbers modulo Word.                                                    *)
(*                                                                         *)
(* A Pick that finds no connection returns ErrNoSubConnAvailable and       *)
(* changes nothing.                                                        *)
(***************************************************************************)
EXTENDS Functions, Weights

CONSTANT Wanted   \* Wanted[g]: what the filter leaves of Conns for g's calls

VARIABLES
    currentWeight, efficientWeight,   \* of each connection
    pc,     \* "idle", "add", "compare" (holding at's mutex), "subtract",
            \* "call": picked, Done not yet called
    at,     \* the connection the loop has come to
    total,  \* totalWeight so far
    best,   \* maxWeightConn, 0 when nil
    \* History variables: no action reads them.
    base,   \* base[g]: currentWeight when g's pick began
    solo    \* solo[g]: since then only g has changed weights

weights == <<currentWeight, efficientWeight>>
local   == <<at, total, best>>
vars    == <<currentWeight, efficientWeight, pc, at, total, best, base, solo>>

Weights == 0 .. Word - 1
Picking(g) == pc[g] \in {"add", "compare", "subtract"}

TypeOK ==
    /\ currentWeight \in [Conns -> Weights]
    /\ efficientWeight \in [Conns -> Weights]
    /\ pc \in [Callers -> {"idle", "add", "compare", "subtract", "call"}]
    /\ at \in [Callers -> Conns \cup {0}]
    /\ total \in [Callers -> Weights]
    /\ best \in [Callers -> Conns \cup {0}]
    /\ base \in [Callers -> [Conns -> Weights]]
    /\ solo \in [Callers -> BOOLEAN]

First(S) == CHOOSE c \in S : \A d \in S : c <= d

Goto(g, l) == pc' = [pc EXCEPT ![g] = l]

Locked(c) == \E g \in Callers : pc[g] = "compare" /\ at[g] = c

NoBase == [c \in Conns |-> 0]

\* g has changed a weight: nobody else is solo any more.
Disturb(g) ==
    /\ solo' = [h \in Callers |-> h = g /\ solo[h]]
    /\ base' = [h \in Callers |-> IF h = g THEN base[h] ELSE NoBase]

-----------------------------------------------------------------------------
Init ==
    /\ currentWeight = Weight
    /\ efficientWeight = Weight
    /\ pc = [g \in Callers |-> "idle"]
    /\ at = [g \in Callers |-> 0]
    /\ total = [g \in Callers |-> 0]
    /\ best = [g \in Callers |-> 0]
    /\ base = [g \in Callers |-> NoBase]
    /\ solo = [g \in Callers |-> FALSE]

Pick(g) ==
    /\ pc[g] = "idle" /\ Wanted[g] # {}
    /\ at' = [at EXCEPT ![g] = First(Wanted[g])]
    /\ base' = [base EXCEPT ![g] = currentWeight]
    /\ solo' = [solo EXCEPT ![g] = TRUE]
    /\ Goto(g, "add")
    /\ UNCHANGED <<weights, total, best>>

\* Mutant of Add: the weight as configured goes to currentWeight, the
\* effective one to the total.
Add_Initial(g) ==
    /\ pc[g] = "add" /\ ~Locked(at[g])
    /\ total' = [total EXCEPT ![g] = (@ + efficientWeight[at[g]]) % Word]
    /\ currentWeight' = [currentWeight EXCEPT ![at[g]] = (@ + Weight[at[g]]) % Word]
    /\ Goto(g, "compare")
    /\ Disturb(g)
    /\ UNCHANGED <<efficientWeight, at, best>>

\* con.mutex.Lock and the two additions.
Add(g) ==
    /\ pc[g] = "add" /\ ~Locked(at[g])
    /\ total' = [total EXCEPT ![g] = (@ + efficientWeight[at[g]]) % Word]
    /\ currentWeight' = [currentWeight EXCEPT
                           ![at[g]] = (@ + efficientWeight[at[g]]) % Word]
    /\ Goto(g, "compare")
    /\ Disturb(g)
    /\ UNCHANGED <<efficientWeight, at, best>>

\* Mutant of Heavier: a connection as heavy as the best one replaces it.
Heavier_Last(g) ==
    best[g] = 0 \/ currentWeight[best[g]] <= currentWeight[at[g]]

\* The best one's currentWeight is read without its mutex.
Heavier(g) ==
    best[g] = 0 \/ currentWeight[best[g]] < currentWeight[at[g]]

\* The comparison and con.mutex.Unlock; the loop goes on or ends.
Compare(g) ==
    LET rest == {c \in Wanted[g] : c > at[g]}
    IN  /\ pc[g] = "compare"
        /\ best' = [best EXCEPT ![g] = IF Heavier(g) THEN at[g] ELSE @]
        /\ at' = [at EXCEPT ![g] = IF rest = {} THEN 0 ELSE First(rest)]
        /\ Goto(g, IF rest = {} THEN "subtract" ELSE "add")
        /\ UNCHANGED <<weights, total, base, solo>>

Subtract(g) ==
    /\ pc[g] = "subtract" /\ ~Locked(best[g])
    /\ currentWeight' = [currentWeight EXCEPT ![best[g]] = (@ - total[g]) % Word]
    /\ total' = [total EXCEPT ![g] = 0]
    /\ Goto(g, "call")
    /\ solo' = [h \in Callers |-> FALSE]
    /\ base' = [h \in Callers |-> NoBase]
    /\ UNCHANGED <<efficientWeight, at, best>>

\* Done of a call: the effective weight becomes w.
Done(g, w) ==
    /\ pc[g] = "call" /\ ~Locked(best[g])
    /\ efficientWeight' = [efficientWeight EXCEPT ![best[g]] = w]
    /\ best' = [best EXCEPT ![g] = 0]
    /\ Goto(g, "idle")
    /\ Disturb(g)
    /\ UNCHANGED <<currentWeight, at, total>>

\* Mutant of Raised: no look at math.MaxUint32.
Raised_Unguarded(c) == (efficientWeight[c] + 1) % Word

Raised(c) ==
    IF efficientWeight[c] = Word - 1 THEN efficientWeight[c]
                                     ELSE efficientWeight[c] + 1

\* Mutant of Lowered: a weight of type int.
Lowered_Signed(c) ==
    IF Weight[c] = 0 THEN efficientWeight[c] ELSE efficientWeight[c] - 1

\* The guard looks at the configured weight.
Lowered(c) ==
    IF Weight[c] = 0 THEN efficientWeight[c]
                     ELSE (efficientWeight[c] - 1) % Word

Succeed(g) == Done(g, Raised(best[g]))
Fail(g)    == Done(g, Lowered(best[g]))

Next ==
    \E g \in Callers :
        Pick(g) \/ Add(g) \/ Compare(g) \/ Subtract(g) \/ Succeed(g) \/ Fail(g)

Spec == Init /\ [][Next]_vars

-----------------------------------------------------------------------------
(***************************************************************************)
(* However picks and callbacks interleave, weight is neither made nor      *)
(* lost: the current weights add up to the configured ones and what the    *)
(* picks under way have added and not yet taken back, modulo the word.     *)
(* About the pair of additions under one mutex and the subtraction under   *)
(* another (weight_picker.go:72-85), with callbacks changing what is added *)
(* in between.                                                             *)
(***************************************************************************)
Conserved ==
    SumFunction(currentWeight) % Word
      = (SumFunction(Weight) + SumFunction(total)) % Word

(***************************************************************************)
(* A pick that nobody disturbs is the sequential algorithm: it takes the   *)
(* first of the connections whose currentWeight, once every effective      *)
(* weight is added, is largest, and will take back what it added.  About   *)
(* the loop (weight_picker.go:68-79).                                      *)
(***************************************************************************)
SoloIsSequential ==
    \A g \in Callers :
        pc[g] = "subtract" /\ solo[g] =>
            LET then == [c \in Wanted[g] |->
                           (base[g][c] + efficientWeight[c]) % Word]
            IN  /\ best[g] = First({c \in Wanted[g] :
                                \A d \in Wanted[g] : then[c] >= then[d]})
                /\ total[g]
                     = SumFunctionOnSet(efficientWeight, Wanted[g]) % Word

(***************************************************************************)
(* A successful call never lowers a weight: weight_picker.go:97, the       *)
(* largest number plus one must not become the smallest (:127).            *)
(***************************************************************************)
SuccessNeverLowers ==
    [][(\E g \in Callers : Succeed(g)) =>
         \A c \in Conns : efficientWeight'[c] >= efficientWeight[c]]_vars

(***************************************************************************)
(* A failed call never raises a weight: weight_picker.go:95-96, a node     *)
(* that fails and fails must not end up with the largest weight.  The code *)
(* violates it (:124).                                                     *)
(***************************************************************************)
FailureNeverRaises ==
    [][(\E g \in Callers : Fail(g)) =>
         \A c \in Conns : efficientWeight'[c] <= efficientWeight[c]]_vars
=============================================================================
