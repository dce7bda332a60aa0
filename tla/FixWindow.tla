------------------------------ MODULE FixWindow ------------------------------
(***************************************************************************)
(* FixWindowLimiter (ratelimit/fix_window.go): a lock-free limiter that    *)
(* admits maxRate requests per window.  Concurrent requests run the        *)
(* interceptor; each of its atomic operations is a step.                   *)
(*                                                                         *)
(* The limiter's clock is time.Now().Nanosecond(), the nanoseconds WITHIN  *)
(* the current second: it starts again at 0 with every second.  A tick of  *)
(* `now` is an arbitrary fraction of a second, Second ticks make one.      *)
(***************************************************************************)
EXTENDS RateLimit

VARIABLES
    now,          \* what time.Now().Nanosecond() returns
    pc,           \* where a request is: the atomic operation it does next
    current,      \* a request's current
    start,        \* a request's windowStart
    windowStart,  \* latestWindowStartTimestamp
    cnt,          \* cnt, kept at MaxRate + 1 from there on: only
                  \* cnt > maxRate is ever asked
    opened,       \* windows opened so far (history)
    admitted      \* requests admitted so far (history)

vars == <<now, pc, current, start, windowStart, cnt, opened, admitted>>

PCs == {"idle", "load", "cas", "store", "take"}

TypeOK ==
    /\ now \in 0 .. Second - 1
    /\ pc \in [Requests -> PCs]
    /\ current \in [Requests -> 0 .. Second - 1]
    /\ start \in [Requests -> 0 .. Second - 1]
    /\ windowStart \in 0 .. Second - 1
    /\ cnt \in 0 .. MaxRate + 1
    /\ opened \in Nat
    /\ admitted \in Nat

Goto(r, l) == pc' = [pc EXCEPT ![r] = l]

-----------------------------------------------------------------------------
Init ==
    /\ now = 0
    /\ pc = [r \in Requests |-> "idle"]
    /\ current = [r \in Requests |-> 0]
    /\ start = [r \in Requests |-> 0]
    /\ windowStart = 0
    /\ cnt = 0
    /\ opened = 0
    /\ admitted = 0

Tick ==
    /\ now' = (now + 1) % Second
    /\ UNCHANGED <<pc, current, start, windowStart, cnt, opened, admitted>>

Arrive(r) ==
    /\ pc[r] = "idle"
    /\ current' = [current EXCEPT ![r] = now]
    /\ Goto(r, "load")
    /\ UNCHANGED <<now, start, windowStart, cnt, opened, admitted>>

\* Load windowStart, and decide whether its window is over.
Load(r) ==
    /\ pc[r] = "load"
    /\ start' = [start EXCEPT ![r] = windowStart]
    /\ Goto(r, IF windowStart + Interval < current[r] THEN "cas" ELSE "take")
    /\ UNCHANGED <<now, current, windowStart, cnt, opened, admitted>>

\* A plausible bug: the result of the CAS is not looked at, and every loser
\* resets cnt as well.
CompareAndSwap_Unchecked(r) ==
    /\ pc[r] = "cas"
    /\ windowStart' = IF windowStart = start[r] THEN current[r] ELSE windowStart
    /\ opened' = IF windowStart = start[r] THEN opened + 1 ELSE opened
    /\ Goto(r, "store")
    /\ UNCHANGED <<now, current, start, cnt, admitted>>

\* A plausible bug: a plain store instead of the CAS.
CompareAndSwap_Blind(r) ==
    /\ pc[r] = "cas"
    /\ windowStart' = current[r]
    /\ opened' = opened + 1
    /\ Goto(r, "store")
    /\ UNCHANGED <<now, current, start, cnt, admitted>>

CompareAndSwap(r) ==
    /\ pc[r] = "cas"
    /\ \/ /\ windowStart = start[r]
          /\ windowStart' = current[r]
          /\ opened' = opened + 1
          /\ Goto(r, "store")
       \/ /\ windowStart # start[r]
          /\ Goto(r, "take")
          /\ UNCHANGED <<windowStart, opened>>
    /\ UNCHANGED <<now, current, start, cnt, admitted>>

Store(r) ==
    /\ pc[r] = "store"
    /\ cnt' = 0
    /\ Goto(r, "take")
    /\ UNCHANGED <<now, current, start, windowStart, opened, admitted>>

\* Take a number; up to maxRate it admits, above it rejects.
Take(r) ==
    /\ pc[r] = "take"
    /\ \/ /\ cnt < MaxRate
          /\ cnt' = cnt + 1
          /\ admitted' = admitted + 1
       \/ /\ cnt >= MaxRate
          /\ cnt' = MaxRate + 1
          /\ UNCHANGED admitted
    /\ Goto(r, "idle")
    /\ current' = [current EXCEPT ![r] = 0]
    /\ start' = [start EXCEPT ![r] = 0]
    /\ UNCHANGED <<now, windowStart, opened>>

Serve(r) ==
    Arrive(r) \/ Load(r) \/ CompareAndSwap(r) \/ Store(r) \/ Take(r)

Next == Tick \/ \E r \in Requests : Serve(r)

Spec == Init /\ [][Next]_vars

\* Goroutines are scheduled, time passes, and requests keep coming at every
\* moment of the second.
FairSpec ==
    /\ Spec
    /\ WF_vars(Tick)
    /\ \A r \in Requests : WF_vars(pc[r] # "idle" /\ Serve(r))
    /\ \A t \in 0 .. Second - 1 :
         SF_vars(now = t /\ \E r \in Requests : Arrive(r))

-----------------------------------------------------------------------------
(***************************************************************************)
(* However requests interleave, every window that was opened, and the      *)
(* first one, lets at most maxRate requests through: a late Store(cnt, 0)  *)
(* may move admissions to another window but gives nobody a second set of  *)
(* numbers.  About the CAS that only one request per window start wins     *)
(* (fix_window.go:50-57).                                                  *)
(***************************************************************************)
RatePerWindow == admitted <= MaxRate * (opened + 1)

(***************************************************************************)
(* A window is replaced only by one that starts more than interval later,  *)
(* even by a request whose reading of the clock is old.  About the check   *)
(* and the CAS on the window start the check has read (fix_window.go:46-55).*)
(***************************************************************************)
WindowsSpaced ==
    [][windowStart' # windowStart => windowStart' > windowStart + Interval]_vars

(***************************************************************************)
(* A window that is full is followed by another one: as                    *)
(* fix_window_test.go:30-34 says, once the interval has passed a request   *)
(* is admitted again.  The code violates it.                               *)
(***************************************************************************)
FullWindowEnds == cnt >= MaxRate ~> cnt < MaxRate
=============================================================================
