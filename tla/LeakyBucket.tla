----------------------------- MODULE LeakyBucket -----------------------------
(***************************************************************************)
(* LeakyBucketLimiter (ratelimit/leaky_bucket.go): requests wait for the   *)
(* next tick of a ticker, whoever gets it.                                 *)
(***************************************************************************)
EXTENDS Integers

CONSTANTS
    Requests,  \* goroutines that run the interceptor, again and again
    Horizon    \* bound on the firings counted

VARIABLES
    fired,    \* firings of the ticker (history, since Observe)
    tick,     \* producer.C holds a tick: its channel has room for one
    closing,  \* "no", "closed": l.close is closed, "stopped": the ticker too
    pc,       \* a request: "idle", "wait" in the select
    granted   \* requests handed to the handler (history, since Observe)

vars == <<fired, tick, closing, pc, granted>>

TypeOK ==
    /\ fired \in 0 .. Horizon
    /\ tick \in BOOLEAN
    /\ closing \in {"no", "closed", "stopped"}
    /\ pc \in [Requests -> {"idle", "wait"}]
    /\ granted \in Nat

Init ==
    /\ fired = 0 /\ granted = 0
    /\ tick = FALSE
    /\ closing = "no"
    /\ pc = [r \in Requests |-> "idle"]

Fire ==
    /\ fired < Horizon
    /\ fired' = fired + 1
    /\ tick' = (tick \/ closing # "stopped")
    /\ UNCHANGED <<closing, pc, granted>>

Arrive(r) ==
    /\ pc[r] = "idle"
    /\ pc' = [pc EXCEPT ![r] = "wait"]
    /\ UNCHANGED <<fired, tick, closing, granted>>

\* Mutant of TakeTick: the request looks for a tick and does not receive it.
TakeTick_Peek(r) ==
    /\ pc[r] = "wait" /\ tick
    /\ granted' = granted + 1
    /\ pc' = [pc EXCEPT ![r] = "idle"]
    /\ UNCHANGED <<fired, tick, closing>>

\* A tick that was waiting still lets a request through after Close.
TakeTick(r) ==
    /\ pc[r] = "wait" /\ tick
    /\ tick' = FALSE
    /\ granted' = granted + 1
    /\ pc' = [pc EXCEPT ![r] = "idle"]
    /\ UNCHANGED <<fired, closing>>

\* The request's ctx is done, which it may be at any time, or l.close closed.
GiveUp(r) ==
    /\ pc[r] = "wait"
    /\ pc' = [pc EXCEPT ![r] = "idle"]
    /\ UNCHANGED <<fired, tick, closing, granted>>

\* A second Close would panic; the user sees to it that there is none.
CloseChannel ==
    /\ closing = "no"
    /\ closing' = "closed"
    /\ UNCHANGED <<fired, tick, pc, granted>>

StopTicker ==
    /\ closing = "closed"
    /\ closing' = "stopped"
    /\ UNCHANGED <<fired, tick, pc, granted>>

\* An observer begins to count the firings and the requests let through.
Observe ==
    /\ fired' = 0 /\ granted' = 0
    /\ UNCHANGED <<tick, closing, pc>>

Next ==
    \/ Fire \/ CloseChannel \/ StopTicker \/ Observe
    \/ \E r \in Requests : Arrive(r) \/ TakeTick(r) \/ GiveUp(r)

Spec == Init /\ [][Next]_vars

-----------------------------------------------------------------------------
AsBucket == INSTANCE Bucket WITH Capacity <- 1,
                                 credit <- IF tick THEN 1 ELSE 0

(***************************************************************************)
(* The leaky bucket is a bucket of one: however many requests wait, and    *)
(* also after Close, two of them share no tick.  About the select on       *)
(* producer.C (leaky_bucket.go:26-38).                                     *)
(***************************************************************************)
IsBucket == AsBucket!Spec
=============================================================================
