-------------------------------- MODULE Bucket --------------------------------
(***************************************************************************)
(* What the bucket limiters promise: every firing of the ticker earns at   *)
(* most one credit, at most Capacity of them are kept, and a request is    *)
(* let through for one.                                                    *)
(***************************************************************************)
EXTENDS Integers

CONSTANTS
    Capacity,  \* how many credits can wait
    Horizon    \* bound on the firings counted

VARIABLES
    fired,    \* firings of the ticker since the observer began to count
    credit,   \* credits that wait
    granted   \* requests let through since the observer began to count

vars == <<fired, credit, granted>>

TypeOK ==
    /\ fired \in 0 .. Horizon
    /\ credit \in 0 .. Capacity
    /\ granted \in Nat

Init == fired = 0 /\ credit = 0 /\ granted = 0

\* The interval is over; a full bucket, or one that was closed, earns nothing.
Fire ==
    /\ fired < Horizon
    /\ fired' = fired + 1
    /\ credit' \in {credit, credit + 1} /\ credit' <= Capacity
    /\ UNCHANGED granted

Grant ==
    /\ credit > 0
    /\ credit' = credit - 1
    /\ granted' = granted + 1
    /\ UNCHANGED fired

\* A credit that finds no room is lost.
Spill ==
    /\ credit > 0
    /\ credit' = credit - 1
    /\ UNCHANGED <<fired, granted>>

\* An observer may begin to count at any moment.
Observe ==
    /\ fired' = 0 /\ granted' = 0
    /\ UNCHANGED credit

Next == Fire \/ Grant \/ Spill \/ Observe

Spec == Init /\ [][Next]_vars

(***************************************************************************)
(* In any stretch of time the requests let through are at most Capacity    *)
(* more than the ticker fired in it: the burst is bounded whatever came    *)
(* before.  About the channels that hold the tokens                        *)
(* (token_bucket.go:24-39, leaky_bucket.go:20,37).                         *)
(***************************************************************************)
BurstBounded == granted <= fired + Capacity
=============================================================================
