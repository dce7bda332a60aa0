---------------------------- MODULE RedisFixWindow ----------------------------
(***************************************************************************)
(* RedisFixWindowLimiter (ratelimit/redis_fix_window.go and                *)
(* lua/fix_window.lua): a counter in Redis, which expires interval after   *)
(* it was made, shared by every server that uses the key.  The script is   *)
(* one step of Redis; the call travels there and its answer back.  The     *)
(* Redis client sends a script again when the answer does not come         *)
(* (external: go-redis, MaxRetries), so a call may take several slots.     *)
(***************************************************************************)
EXTENDS RateLimit

VARIABLES
    now,       \* Redis' clock
    pc,        \* "idle", "sent", then the script's answer: "limit" or "pass"
    retries,   \* how often a call was sent again
    val,       \* the key's value, 0 when there is no key
    expireAt,  \* when the key expires
    granted    \* how many slots were given at a time (history)

vars == <<now, pc, retries, val, expireAt, granted>>

TypeOK ==
    /\ now \in Times
    /\ pc \in [Requests -> {"idle", "sent", "limit", "pass"}]
    /\ retries \in [Requests -> 0 .. MaxRetries]
    /\ val \in 0 .. MaxRate
    /\ expireAt \in 0 .. Horizon + Interval
    /\ granted \in [Times -> 0 .. MaxRate * 2]

-----------------------------------------------------------------------------
Init ==
    /\ now = 0
    /\ pc = [r \in Requests |-> "idle"]
    /\ retries = [r \in Requests |-> 0]
    /\ val = 0
    /\ expireAt = 0
    /\ granted = [t \in Times |-> 0]

\* Time passes, and a key whose time has passed is gone.
Tick ==
    /\ now < Horizon
    /\ now' = now + 1
    /\ IF val # 0 /\ now' > expireAt
         THEN val' = 0 /\ expireAt' = 0
         ELSE UNCHANGED <<val, expireAt>>
    /\ UNCHANGED <<pc, retries, granted>>

Eval(r) ==
    /\ pc[r] = "idle"
    /\ pc' = [pc EXCEPT ![r] = "sent"]
    /\ UNCHANGED <<now, retries, val, expireAt, granted>>

Grant(r) ==
    /\ pc' = [pc EXCEPT ![r] = "pass"]
    /\ granted' = [granted EXCEPT ![now] = @ + 1]

Limit(r) ==
    /\ pc' = [pc EXCEPT ![r] = "limit"]
    /\ UNCHANGED <<val, expireAt, granted>>

\* A plausible bug: <= for <.
Script_OneMore(r) ==
    /\ pc[r] = "sent"
    /\ \/ /\ val = 0
          /\ val' = 1
          /\ expireAt' = now + Interval
          /\ Grant(r)
       \/ /\ val \in 1 .. MaxRate
          /\ val' = val + 1
          /\ Grant(r)
          /\ UNCHANGED expireAt
       \/ val > MaxRate /\ Limit(r)
    /\ UNCHANGED <<now, retries>>

\* A plausible bug: every call sets the expiry again.
Script_Renews(r) ==
    /\ pc[r] = "sent"
    /\ expireAt' = now + Interval
    /\ \/ val < MaxRate /\ val' = val + 1 /\ Grant(r)
       \/ /\ val >= MaxRate
          /\ pc' = [pc EXCEPT ![r] = "limit"]
          /\ UNCHANGED <<val, granted>>
    /\ UNCHANGED <<now, retries>>

\* fix_window.lua, run by Redis in one step.
Script(r) ==
    /\ pc[r] = "sent"
    /\ \/ /\ val = 0 /\ MaxRate >= 1
          /\ val' = 1
          /\ expireAt' = now + Interval
          /\ Grant(r)
       \/ /\ val # 0 /\ val < MaxRate
          /\ val' = val + 1
          /\ Grant(r)
          /\ UNCHANGED expireAt
       \/ val >= MaxRate /\ Limit(r)
    /\ UNCHANGED <<now, retries>>

\* The answer arrives: the handler or onReject runs, outside the limiter.
Return(r) ==
    /\ pc[r] \in {"limit", "pass"}
    /\ pc' = [pc EXCEPT ![r] = "idle"]
    /\ retries' = [retries EXCEPT ![r] = 0]
    /\ UNCHANGED <<now, val, expireAt, granted>>

\* The call or its answer is lost: the client sends the script again, or
\* gives up and the interceptor returns the error.
NoAnswer(r) ==
    /\ pc[r] # "idle"
    /\ IF retries[r] < MaxRetries
         THEN /\ pc' = [pc EXCEPT ![r] = "sent"]
              /\ retries' = [retries EXCEPT ![r] = @ + 1]
         ELSE /\ pc' = [pc EXCEPT ![r] = "idle"]
              /\ retries' = [retries EXCEPT ![r] = 0]
    /\ UNCHANGED <<now, val, expireAt, granted>>

Next ==
    \/ Tick
    \/ \E r \in Requests : Eval(r) \/ Script(r) \/ Return(r) \/ NoAnswer(r)

Spec == Init /\ [][Next]_vars

-----------------------------------------------------------------------------
\* Slots given from time t up to time u.
Between(t, u) == Counted(granted, {x \in Times : t <= x /\ x <= u})

(***************************************************************************)
(* Whatever is lost and sent again, no stretch of interval lets more than  *)
(* twice maxRate requests through, wherever it starts: the end of one key  *)
(* and the start of the next.  About fix_window.lua:3-21 and the expiry    *)
(* that is set once, with the key.                                         *)
(***************************************************************************)
BurstAtBoundary ==
    \A t \in Times : Between(t, t + Interval) <= 2 * MaxRate

LimitsRightly ==
    \A r \in Requests :
        pc[r] = "sent" /\ pc'[r] = "limit"
        => Between(now - Interval, now) >= MaxRate

(***************************************************************************)
(* A request is limited only if maxRate slots were given within the last   *)
(* interval: a key never outlives its window, whoever keeps asking.  About *)
(* 'PX' in fix_window.lua:9 and incr, which leaves the expiry alone.       *)
(***************************************************************************)
LimitedIsFull ==
    [][LimitsRightly]_vars
=============================================================================
