----------------------------- MODULE SlideWindow -----------------------------
(***************************************************************************)
(* SlideWindowLimiter (ratelimit/slide_window.go): the time stamps of the  *)
(* admitted requests wait in a queue under a mutex.  A request reads the   *)
(* clock BEFORE it takes the mutex, so requests may pass the mutex in      *)
(* another order than that of their time stamps.                           *)
(***************************************************************************)
EXTENDS RateLimit, Sequences

VARIABLES
    now,       \* the clock
    pc,        \* "idle", or "lock": before mutex.Lock
    current,   \* a request's time stamp
    queue,     \* queue: time stamps in the order of their admission
    latest,    \* the largest time stamp that passed the mutex (history)
    served,    \* how many requests with a time stamp were admitted (history)
    passed     \* how many were admitted at a time of the clock (history)

vars == <<now, pc, current, queue, latest, served, passed>>

TypeOK ==
    /\ now \in Times
    /\ pc \in [Requests -> {"idle", "lock"}]
    /\ current \in [Requests -> Times]
    /\ queue \in Seq(Times) /\ Len(queue) <= MaxRate + 1
    /\ latest \in Times
    /\ served \in [Times -> Nat] /\ passed \in [Times -> Nat]

\* A plausible bug: every time stamp that is not younger than the window's
\* start is evicted.
Evict_All(q, t) == SelectSeq(q, LAMBDA u : u > t)

\* A plausible bug: eviction starts at queue.Back.
Evict_Back(q, t) ==
    LET kept == {i \in DOMAIN q : q[i] >= t}
    IN  IF kept = {} THEN <<>>
        ELSE SubSeq(q, 1, CHOOSE i \in kept : \A j \in kept : i >= j)

\* What is left of q when all time stamps before t are removed from its
\* front, up to the first one that is not.
Evict(q, t) ==
    LET kept == {i \in DOMAIN q : q[i] >= t}
    IN  IF kept = {} THEN <<>>
        ELSE SubSeq(q, CHOOSE i \in kept : \A j \in kept : i <= j, Len(q))

-----------------------------------------------------------------------------
Init ==
    /\ now = 0
    /\ pc = [r \in Requests |-> "idle"]
    /\ current = [r \in Requests |-> 0]
    /\ queue = <<>>
    /\ latest = 0
    /\ served = [t \in Times |-> 0] /\ passed = [t \in Times |-> 0]

Tick ==
    /\ now < Horizon
    /\ now' = now + 1
    /\ UNCHANGED <<pc, current, queue, latest, served, passed>>

Arrive(r) ==
    /\ pc[r] = "idle"
    /\ current' = [current EXCEPT ![r] = now]
    /\ pc' = [pc EXCEPT ![r] = "lock"]
    /\ UNCHANGED <<now, queue, latest, served, passed>>

Admit(r, q) ==
    /\ queue' = Append(q, current[r])
    /\ served' = [served EXCEPT ![current[r]] = @ + 1]
    /\ passed' = [passed EXCEPT ![now] = @ + 1]

Reject(r, q) ==
    /\ queue' = q
    /\ UNCHANGED <<served, passed>>

Leave(r) ==
    /\ pc' = [pc EXCEPT ![r] = "idle"]
    /\ current' = [current EXCEPT ![r] = 0]
    /\ latest' = IF current[r] > latest THEN current[r] ELSE latest
    /\ UNCHANGED now

\* The critical section: the fast path does not look at the time stamps.
FastPath(r) ==
    /\ pc[r] = "lock"
    /\ Len(queue) < MaxRate
    /\ Admit(r, queue)
    /\ Leave(r)

SlowPath(r) ==
    LET q == Evict(queue, current[r] - Interval)
    IN  /\ pc[r] = "lock"
        /\ Len(queue) >= MaxRate
        /\ IF Len(q) > MaxRate THEN Reject(r, q) ELSE Admit(r, q)
        /\ Leave(r)

Next == Tick \/ \E r \in Requests : Arrive(r) \/ FastPath(r) \/ SlowPath(r)

Spec == Init /\ [][Next]_vars

-----------------------------------------------------------------------------
\* How many requests were admitted with a time stamp from t on.
Since(t) == Counted(served, {u \in Times : u >= t})

(***************************************************************************)
(* The window that ends with the newest time stamp the limiter has seen    *)
(* holds at most maxRate + 1 requests, although requests pass the mutex    *)
(* out of order: what that window still needs is not evicted.  About the   *)
(* eviction and the comparison after it (slide_window.go:41-54); the one   *)
(* request too many is the comparison's.                                   *)
(***************************************************************************)
NewestWindow == Since(latest - Interval) <= MaxRate + 1

(***************************************************************************)
(* ... holds at most maxRate: slide_window_test.go:15-28 lets one request  *)
(* pass and expects the next one rejected.  The code violates it.          *)
(***************************************************************************)
AtMostMaxRate == Since(latest - Interval) <= MaxRate

(***************************************************************************)
(* A request is rejected only if more than maxRate requests were admitted  *)
(* since the beginning of its own window, in whatever order time stamps    *)
(* reach the mutex: a queue that is out of order keeps stamps that are     *)
(* older than the window, but their requests came through after it had     *)
(* begun.  About slide_window.go:41-51, where eviction looks only at the   *)
(* front of the queue.                                                     *)
(***************************************************************************)
RejectedIsFull ==
    [][\A r \in Requests :
         pc[r] = "lock" /\ pc'[r] = "idle" /\ passed' = passed
         => Counted(passed, {t \in Times : t >= current[r] - Interval})
              > MaxRate]_vars
=============================================================================
