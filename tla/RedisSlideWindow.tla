--------------------------- MODULE RedisSlideWindow ---------------------------
(***************************************************************************)
(* RedisSlideWindowLimiter (ratelimit/redis_slide_window.go and            *)
(* lua/slide_window.lua): a sorted set in Redis holds the time stamps of   *)
(* the admitted requests.  A time stamp is read from the server's own      *)
(* clock, which is ahead of or behind Redis' clock by up to Skew, and      *)
(* reaches Redis some time later.  Calls may be lost and sent again, with  *)
(* the same time stamp.                                                    *)
(***************************************************************************)
EXTENDS RateLimit

VARIABLES
    now,       \* Redis' clock
    pc,        \* "idle", "sent", then the script's answer: "limit" or "pass"
    retries,   \* how often a call was sent again
    stamp,     \* a request's time stamp, the script's now
    zset,      \* the sorted set: member and score are the time stamp
    lastAdd,   \* when PEXPIRE was last called
    stamps     \* every time stamp ever added (history)

vars == <<now, pc, retries, stamp, zset, lastAdd, stamps>>

Stamps == -Skew .. Horizon + Skew

TypeOK ==
    /\ now \in Times
    /\ pc \in [Requests -> {"idle", "sent", "limit", "pass"}]
    /\ retries \in [Requests -> 0 .. MaxRetries]
    /\ stamp \in [Requests -> Stamps]
    /\ zset \subseteq stamps
    /\ lastAdd \in Times
    /\ stamps \subseteq Stamps

-----------------------------------------------------------------------------
Init ==
    /\ now = 0
    /\ pc = [r \in Requests |-> "idle"]
    /\ retries = [r \in Requests |-> 0]
    /\ stamp = [r \in Requests |-> 0]
    /\ zset = {}
    /\ lastAdd = 0
    /\ stamps = {}

\* Time passes; the key expires interval after it was last added to.
Tick ==
    /\ now < Horizon
    /\ now' = now + 1
    /\ IF now' > lastAdd + Interval
         THEN zset' = {} /\ lastAdd' = 0
         ELSE UNCHANGED <<zset, lastAdd>>
    /\ UNCHANGED <<pc, retries, stamp, stamps>>

Eval(r) ==
    /\ pc[r] = "idle"
    /\ \E s \in now - Skew .. now + Skew : stamp' = [stamp EXCEPT ![r] = s]
    /\ pc' = [pc EXCEPT ![r] = "sent"]
    /\ UNCHANGED <<now, retries, zset, lastAdd, stamps>>

\* A plausible bug: the range to remove is one too long.
Window_Short(z, s) == {u \in z : u > s - Interval + 1}

\* What ZREMRANGEBYSCORE leaves of the set.
Window(z, s) == {u \in z : u > s - Interval}

\* slide_window.lua, run by Redis in one step.
Script(r) ==
    LET z == Window(zset, stamp[r])
    IN  /\ pc[r] = "sent"
        /\ \/ /\ Cardinality(z) >= MaxRate
              /\ zset' = z
              /\ pc' = [pc EXCEPT ![r] = "limit"]
              /\ UNCHANGED <<lastAdd, stamps>>
           \/ /\ Cardinality(z) < MaxRate
              /\ zset' = z \cup {stamp[r]}
              /\ lastAdd' = now
              /\ stamps' = stamps \cup {stamp[r]}
              /\ pc' = [pc EXCEPT ![r] = "pass"]
        /\ UNCHANGED <<now, retries, stamp>>

Forget(r) ==
    /\ pc' = [pc EXCEPT ![r] = "idle"]
    /\ retries' = [retries EXCEPT ![r] = 0]
    /\ stamp' = [stamp EXCEPT ![r] = 0]

\* The answer arrives: the handler or onReject runs, outside the limiter.
Return(r) ==
    /\ pc[r] \in {"limit", "pass"}
    /\ Forget(r)
    /\ UNCHANGED <<now, zset, lastAdd, stamps>>

\* The call or its answer is lost: the client sends it again, or gives up
\* and the interceptor returns the error.
NoAnswer(r) ==
    /\ pc[r] # "idle"
    /\ IF retries[r] < MaxRetries
         THEN /\ pc' = [pc EXCEPT ![r] = "sent"]
              /\ retries' = [retries EXCEPT ![r] = @ + 1]
              /\ UNCHANGED stamp
         ELSE Forget(r)
    /\ UNCHANGED <<now, zset, lastAdd, stamps>>

Next ==
    \/ Tick
    \/ \E r \in Requests : Eval(r) \/ Script(r) \/ Return(r) \/ NoAnswer(r)

Spec == Init /\ [][Next]_vars

-----------------------------------------------------------------------------
(***************************************************************************)
(* At any moment the different time stamps of the requests admitted within *)
(* the last interval, less the servers' clock skew, are at most maxRate,   *)
(* whatever is delayed, lost or sent again and whoever evicts: neither an  *)
(* eviction by a clock that is ahead nor the expiry of the whole key frees *)
(* a member earlier.  About slide_window.lua:8-27.  What this bounds is    *)
(* the milliseconds with an admitted request, not the requests: see        *)
(* RequestsPerWindow.                                                      *)
(***************************************************************************)
StampsPerWindow ==
    Cardinality({s \in stamps : s > now + Skew - Interval}) <= MaxRate

(***************************************************************************)
(* At most maxRate of the requests that the script has let pass have a     *)
(* time stamp within the last interval: redis_slide_window.go:16 calls     *)
(* maxRate the threshold of the traffic in a window.  The code violates    *)
(* it: ZADD gives requests of one millisecond one and the same member      *)
(* (slide_window.lua:22), which counts once, so that all of them pass.     *)
(***************************************************************************)
RequestsPerWindow ==
    Cardinality({r \in Requests :
        pc[r] = "pass" /\ stamp[r] > now - Interval}) <= MaxRate
=============================================================================
