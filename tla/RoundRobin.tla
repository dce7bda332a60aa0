------------------------------ MODULE RoundRobin ------------------------------
(***************************************************************************)
(* Picker of loadbalance/roundrobin/picker.go: one counter, whatever the   *)
(* filter leaves, and one mutex around a whole Pick.  gRPC calls Pick from *)
(* many goroutines; its Done does nothing.                                 *)
(***************************************************************************)
EXTENDS FiniteSets, Filters

CONSTANT MaxPicks   \* bound: picks until the model stops (cnt is a uint64)

VARIABLES
    filter,    \* the PickerBuilder's: "none", "group" or "built"
    cnt,
    mutex,     \* the callers that hold it
    call,      \* call[g]: the group of the pick g is in
    index,     \* index[g]: where among its candidates, -1 outside Pick
    result,    \* result[g]: the outcome of g's last pick
    \* History variable: no action reads it.
    series     \* the picks since the candidates last were others: among, of
               \* which candidates, and how many times each was picked

vars == <<filter, cnt, mutex, call, index, result, series>>

\* The element of S that has i smaller ones.
Nth(S, i) == CHOOSE c \in S : Cardinality({d \in S : d < c}) = i

TypeOK ==
    /\ filter \in {"none", "group", "built"}
    /\ cnt \in 0 .. MaxPicks
    /\ mutex \in SUBSET Callers
    /\ call \in [Callers -> Groups]
    /\ index \in [Callers -> -1 .. NConns - 1]
    /\ result \in [Callers -> [group : Groups, conn : -1 .. NConns]]
    /\ series.times \in [series.among -> 0 .. MaxPicks]

Init ==
    /\ filter \in {"none", "group", "built"}
    /\ cnt = 0
    /\ mutex = {}
    /\ call = [g \in Callers |-> Nil]
    /\ index = [g \in Callers |-> -1]
    /\ result = [g \in Callers |-> NoResult]
    /\ series = [among |-> {}, times |-> [c \in {} |-> 0]]

\* Mutant of Locked: nobody waits for the mutex.
Locked_Never == FALSE

Locked == mutex # {}

\* p.mutex.Lock, and the index among the candidates.
Pick(g, group) ==
    LET left == Candidates(filter, group)
    IN  /\ ~Locked /\ index[g] = -1
        /\ left # {} /\ cnt < MaxPicks
        /\ mutex' = mutex \cup {g}
        /\ call' = [call EXCEPT ![g] = group]
        /\ index' = [index EXCEPT ![g] = cnt % Cardinality(left)]
        /\ UNCHANGED <<filter, cnt, result, series>>

PickNone(g, group) ==
    /\ ~Locked /\ index[g] = -1
    /\ Candidates(filter, group) = {}
    /\ result' = [result EXCEPT ![g] = Result(group, 0)]
    /\ UNCHANGED <<filter, cnt, mutex, call, index, series>>

\* One pick of c more among S.
Counted(S, c) ==
    LET before == IF series.among = S THEN series.times
                                      ELSE [d \in S |-> 0]
    IN  [among |-> S, times |-> [before EXCEPT ![c] = @ + 1]]

\* p.cnt += 1, the result and the deferred unlock.
Return(g) ==
    /\ g \in mutex
    /\ cnt' = cnt + 1
    /\ LET left == Candidates(filter, call[g])
           c == Nth(left, index[g])
       IN  /\ result' = [result EXCEPT ![g] = Result(call[g], c)]
           /\ series' = Counted(left, c)
    /\ call' = [call EXCEPT ![g] = Nil]
    /\ index' = [index EXCEPT ![g] = -1]
    /\ mutex' = mutex \ {g}
    /\ UNCHANGED filter

Next ==
    \E g \in Callers :
        Return(g) \/ \E group \in Groups : Pick(g, group) \/ PickNone(g, group)

Spec == Init /\ [][Next]_vars

-----------------------------------------------------------------------------
(***************************************************************************)
(* As long as the picks have the same candidates, each candidate is picked *)
(* as often as any other or once more or less, whichever goroutines pick   *)
(* and however their picks overlap: picker.go:55-57, the mutex is there    *)
(* for strict polling.  Picks among other candidates in between do break   *)
(* it, since they move the one counter.                                    *)
(***************************************************************************)
Even ==
    \A c, d \in series.among : series.times[c] <= series.times[d] + 1

(***************************************************************************)
(* A call that names a group gets a connection of it, whichever filter the *)
(* picker was built with and whoever picked before.  About the loop over   *)
(* the connections and the index into what it leaves (picker.go:64-74).    *)
(***************************************************************************)
OwnGroup == filter # "none" => \A g \in Callers : OfItsGroup(result[g])
=============================================================================
