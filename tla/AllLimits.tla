------------------------------ MODULE AllLimits ------------------------------
(* What the limiters taken together are parameterised by. *)
EXTENDS RateLimit

CONSTANT StampRate   \* maxRate of the Redis sliding window

ASSUME StampRateAssumption == StampRate \in Nat
=============================================================================
