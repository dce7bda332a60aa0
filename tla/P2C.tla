--------------------------------- MODULE P2C ---------------------------------
(***************************************************************************)
(* Picker of loadbalance/p2c/picker.go: the power of two choices, by load  *)
(* (a moving average of latencies and the calls in flight), but for a      *)
(* connection that was not picked for forcePick.  Pick holds the picker's  *)
(* lock; the Done of a call runs without it, field by field, until its     *)
(* logStats.  No builder sets logFunc, so logStats panics, and stamp       *)
(* starts at 0: the first Done logs.  The goroutine may be slow to come to *)
(* it, and all others go on until it does.                                 *)
(*                                                                         *)
(* Left out: the filter, which Pick never asks; requests, which is only    *)
(* logged; and the rate of success: Pick draws another pair while one of   *)
(* it is unhealthy, but three times at most, so any pair may still come.   *)
(* Time is in readings of the clock that differ.                           *)
(***************************************************************************)
EXTENDS Connections, FiniteSets

CONSTANTS
    ForcePick,    \* forcePick, a second in the code
    LogInterval,  \* logInterval, a minute in the code
    MaxTime       \* bound: how long the model runs

ASSUME P2CAssumption ==
    /\ ForcePick \in Nat /\ LogInterval \in Nat
    /\ ForcePick < LogInterval
    /\ IsFiniteSet(Callers)
    /\ MaxTime \in Nat

\* Long enough after 0, the value all times have in a new Picker: xtime.Now
\* counts from more than a year before the program started.
Start == LogInterval

VARIABLES
    len,        \* len(p.connections)
    now,        \* xtime.Now()
    stamp,      \* p.stamp: when stats were logged last
    panicked,
    latency, inflight, last, pick,   \* of each connection
    pc,      \* "idle"; "choose": in Pick, with the lock; "call": picked, Done
             \* not yet called; "swap", "load", "store", "stamp", "cas", "log":
             \* in Done, before that step
    pair,    \* the two connections to choose from, the second 0 for nil;
             \* <<0, 0>> outside Pick
    load1,   \* the load of the first, when it was read
    chosen,
    start,   \* when choose began, or the call
    end,     \* when Done began
    td,      \* the time between this Done and the one before
    old,     \* oldLatency; then the stamp that was loaded
    \* History variables: no action reads them.
    latest,  \* when choose began in the last pick, 0 before
    picks,   \* how many picks there were, no more than 2
    slow     \* a pick came more than ForcePick after the one before

conns == <<latency, inflight, last, pick>>
local == <<pair, load1, chosen, start, end, td, old>>
seen  == <<latest, picks, slow>>
vars  == <<len, now, stamp, panicked, conns, pc, local, seen>>

Readings == 0 .. Start + MaxTime

TypeOK ==
    /\ len \in 0 .. NConns
    /\ now \in Start .. Start + MaxTime
    /\ stamp \in Readings
    /\ panicked \in BOOLEAN
    /\ latency \in [Conns -> Nat]
    /\ inflight \in [Conns -> 0 .. Cardinality(Callers)]
    /\ last \in [Conns -> Readings]
    /\ pick \in [Conns -> Readings]
    /\ pc \in [Callers -> {"idle", "choose", "call", "swap", "load", "store",
                           "stamp", "cas", "log"}]
    /\ pair \in [Callers -> (Conns \cup {0}) \X (Conns \cup {0})]
    /\ load1 \in [Callers -> Nat]
    /\ chosen \in [Callers -> Conns \cup {0}]
    /\ start \in [Callers -> Readings]
    /\ end \in [Callers -> Readings]
    /\ td \in [Callers -> Readings]
    /\ old \in [Callers -> Nat]

\* Every Done that has begun has taken its call from inflight.
Holds(g, c) == pc[g] = "call" /\ chosen[g] = c

Goto(g, l) == pc' = [pc EXCEPT ![g] = l]

Root(n) == CHOOSE r \in 0 .. n : r * r <= n /\ n < (r + 1) * (r + 1)

\* With the 1 under the root the load is never 0, and penalty never applies.
Load(c) == Root(latency[c] + 1) * (inflight[c] + 1)

Locked == \E g \in Callers : pc[g] = "choose"

\* With two connections the pair is fixed, with more any is drawn.
Pairs ==
    IF len <= 2 THEN {<<1, IF len = 1 THEN 0 ELSE 2>>}
    ELSE {p \in (1 .. len) \X (1 .. len) : p[1] # p[2]}

-----------------------------------------------------------------------------
Init ==
    /\ len \in 0 .. NConns
    /\ now = Start /\ stamp = 0 /\ panicked = FALSE
    /\ latency = [c \in Conns |-> 0] /\ inflight = [c \in Conns |-> 0]
    /\ last = [c \in Conns |-> 0] /\ pick = [c \in Conns |-> 0]
    /\ pc = [g \in Callers |-> "idle"]
    /\ pair = [g \in Callers |-> <<0, 0>>]
    /\ load1 = [g \in Callers |-> 0] /\ chosen = [g \in Callers |-> 0]
    /\ start = [g \in Callers |-> 0] /\ end = [g \in Callers |-> 0]
    /\ td = [g \in Callers |-> 0] /\ old = [g \in Callers |-> 0]
    /\ latest = 0 /\ picks = 0 /\ slow = FALSE

Tick ==
    /\ now < Start + MaxTime
    /\ now' = now + 1
    /\ UNCHANGED <<len, stamp, panicked, conns, pc, local, seen>>

\* Pick as far as the load of the first of the pair; without connections it
\* returns ErrNoSubConnAvailable.
Pick(g) ==
    /\ pc[g] = "idle" /\ ~Locked /\ len > 0
    /\ \E p \in Pairs :
          /\ pair' = [pair EXCEPT ![g] = p]
          /\ load1' = [load1 EXCEPT ![g] = IF p[2] = 0 THEN 0 ELSE Load(p[1])]
    /\ start' = [start EXCEPT ![g] = now]
    /\ Goto(g, "choose")
    /\ UNCHANGED <<len, now, stamp, panicked, conns, chosen, end, td, old, seen>>

\* The one of less load, and the one of more, in this order.
ByLoad(g) ==
    LET a == pair[g][1]  b == pair[g][2]
    IN  IF load1[g] > Load(b) THEN <<b, a>> ELSE <<a, b>>


\* Mutant of Overdue: the end of a call is taken for its pick.
Overdue_Last(g, c) == start[g] - last[c] > ForcePick

\* Only Pick changes pick, under the lock: the CompareAndSwap succeeds.
Overdue(g, c) == start[g] - pick[c] > ForcePick

Chosen(g) ==
    IF pair[g][2] = 0 THEN pair[g][1]
    ELSE LET less == ByLoad(g)[1]  more == ByLoad(g)[2]
         IN  IF Overdue(g, more) THEN more ELSE less

\* choose as of the second load; then buildCallback and the unlock.
Choose(g) ==
    /\ pc[g] = "choose"
    /\ LET c == Chosen(g)
       IN  /\ pick' = [pick EXCEPT ![c] = start[g]]
           /\ inflight' = [inflight EXCEPT ![c] = @ + 1]
           /\ chosen' = [chosen EXCEPT ![g] = c]
    /\ start' = [start EXCEPT ![g] = now]
    /\ pair' = [pair EXCEPT ![g] = <<0, 0>>]
    /\ load1' = [load1 EXCEPT ![g] = 0]
    /\ Goto(g, "call")
    /\ latest' = start[g]
    /\ picks' = IF picks = 2 THEN 2 ELSE picks + 1
    /\ slow' = (slow \/ (picks > 0 /\ start[g] - latest > ForcePick))
    /\ UNCHANGED <<len, now, stamp, panicked, latency, last, end, td, old>>

-----------------------------------------------------------------------------
\* Done: the call leaves inflight, and the clock is read.
Done(g) ==
    /\ pc[g] = "call"
    /\ inflight' = [inflight EXCEPT ![chosen[g]] = @ - 1]
    /\ end' = [end EXCEPT ![g] = now]
    /\ Goto(g, "swap")
    /\ UNCHANGED <<len, now, stamp, panicked, latency, last, pick, pair, load1,
                   chosen, start, td, old, seen>>

SwapLast(g) ==
    /\ pc[g] = "swap"
    /\ last' = [last EXCEPT ![chosen[g]] = end[g]]
    /\ LET gap == end[g] - last[chosen[g]]
       IN  td' = [td EXCEPT ![g] = IF gap < 0 THEN 0 ELSE gap]
    /\ Goto(g, "load")
    /\ UNCHANGED <<len, now, stamp, panicked, latency, inflight, pick, pair,
                   load1, chosen, start, end, old, seen>>

LoadLatency(g) ==
    /\ pc[g] = "load"
    /\ old' = [old EXCEPT ![g] = latency[chosen[g]]]
    /\ Goto(g, "store")
    /\ UNCHANGED <<len, now, stamp, panicked, conns, pair, load1, chosen, start,
                   end, td, seen>>

\* What the average of o and l may be: w is 0 without an old latency, 1 when
\* no time has passed, and otherwise in between; rounding, then truncation,
\* may lose 1.
Averages(o, l, t) ==
    IF o = 0 THEN {l}
    ELSE IF t = 0 THEN {o}
    ELSE {n \in 0 .. o + l : /\ n <= o \/ n <= l
                             /\ n >= o - 1 \/ n >= l - 1}

\* By now another Done may have stored an average: it is lost.
StoreLatency(g) ==
    /\ pc[g] = "store"
    /\ \E n \in Averages(old[g], end[g] - start[g], td[g]) :
          latency' = [latency EXCEPT ![chosen[g]] = n]
    /\ old' = [old EXCEPT ![g] = 0] /\ td' = [td EXCEPT ![g] = 0]
    /\ start' = [start EXCEPT ![g] = 0]
    /\ chosen' = [chosen EXCEPT ![g] = 0]
    /\ Goto(g, "stamp")
    /\ UNCHANGED <<len, now, stamp, panicked, inflight, last, pick, pair, load1,
                   end, seen>>

\* now - stamp >= logInterval, and the CompareAndSwap after it.
LoadStamp(g) ==
    /\ pc[g] = "stamp"
    /\ IF end[g] - stamp >= LogInterval
          THEN Goto(g, "cas") /\ old' = [old EXCEPT ![g] = stamp] /\ UNCHANGED end
          ELSE Goto(g, "idle") /\ end' = [end EXCEPT ![g] = 0] /\ UNCHANGED old
    /\ UNCHANGED <<len, now, stamp, panicked, conns, pair, load1, chosen, start,
                   td, seen>>

SwapStamp(g) ==
    /\ pc[g] = "cas"
    /\ IF stamp = old[g] THEN stamp' = end[g] /\ Goto(g, "log")
                         ELSE Goto(g, "idle") /\ UNCHANGED stamp
    /\ old' = [old EXCEPT ![g] = 0] /\ end' = [end EXCEPT ![g] = 0]
    /\ UNCHANGED <<len, now, panicked, conns, pair, load1, chosen, start, td,
                   seen>>

\* logStats: a nil function is called.
LogStats(g) ==
    /\ pc[g] = "log" /\ ~Locked
    /\ panicked' = TRUE
    /\ UNCHANGED <<len, now, stamp, conns, pc, local, seen>>

Next ==
    /\ ~panicked
    /\ \/ Tick
       \/ \E g \in Callers :
             \/ Pick(g) \/ Choose(g)
             \/ Done(g) \/ SwapLast(g) \/ LoadLatency(g) \/ StoreLatency(g)
             \/ LoadStamp(g) \/ SwapStamp(g) \/ LogStats(g)

Spec == Init /\ [][Next]_vars

-----------------------------------------------------------------------------
(***************************************************************************)
(* The calls in flight on a connection are those that were given it and    *)
(* are not done, in whatever order picks and callbacks run.  It makes      *)
(* every load positive.  About the additions of picker.go:147 and 150.     *)
(***************************************************************************)
InflightCounts ==
    \A c \in Conns : inflight[c] = Cardinality({g \in Callers : Holds(g, c)})

(***************************************************************************)
(* Of two connections neither is passed over for more than forcePick, as   *)
(* long as picks come no further apart than that: picker.go:132-133, the   *)
(* one of more load is forced to be picked once.  (When picks come further *)
(* apart, the one of more load is always overdue, and picked every time.)  *)
(***************************************************************************)
NoneStarves ==
    len = 2 /\ picks = 2 /\ ~slow =>
        \A c, d \in {1, 2} : pick[c] - pick[d] <= ForcePick
=============================================================================
