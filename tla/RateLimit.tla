------------------------------ MODULE RateLimit ------------------------------
(***************************************************************************)
(* What the limiters of package ratelimit share: goroutines that run an    *)
(* interceptor, a clock that moves in ticks, and the two numbers every     *)
(* constructor takes.                                                      *)
(***************************************************************************)
EXTENDS Integers, FiniteSets

CONSTANTS
    Requests,   \* goroutines that run the interceptor, again and again
    Interval,   \* interval, in ticks
    MaxRate,    \* maxRate: how many requests an interval may let through
    Horizon,    \* bound on the clock, where it does not start again
    Second,     \* ticks in a second
    Buffer,     \* buffer: how many tokens the token bucket holds
    MaxRetries, \* how often the Redis client sends a call again
    Skew        \* how far a server's clock may be from Redis', in ticks

ASSUME RequestsAssumption == IsFiniteSet(Requests)
ASSUME IntervalAssumption == Interval \in Nat
ASSUME RateAssumption     == MaxRate \in Nat
ASSUME HorizonAssumption  == Horizon \in Nat
ASSUME SecondAssumption   == Second \in Nat \ {0}
ASSUME BufferAssumption   == Buffer \in Nat
ASSUME RetryAssumption    == MaxRetries \in Nat
ASSUME SkewAssumption     == Skew \in Nat

Times == 0 .. Horizon

\* How many requests the history f counts at the times of T.
Counted(f, T) == Cardinality(UNION {{t} \X (1 .. f[t]) : t \in T})
=============================================================================
