------------------------------- MODULE Weights -------------------------------
(***************************************************************************)
(* The weight in the address attributes of a connection, a uint32: numbers *)
(* modulo Word.                                                            *)
(***************************************************************************)
EXTENDS Connections

CONSTANTS
    Weight,   \* Weight[c]: the weight that c's server is registered with
    Word      \* how many numbers a weight can be, 2^32 in the code

ASSUME WeightsAssumption ==
    /\ Word \in Nat \ {0}
    /\ Weight \in [Conns -> 0 .. Word - 1]
=============================================================================
