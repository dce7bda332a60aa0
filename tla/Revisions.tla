------------------------------ MODULE Revisions ------------------------------
(***************************************************************************)
(* What the models of the resolver are parameterised by.                   *)
(***************************************************************************)
EXTENDS Naturals

CONSTANTS
    MaxRev,      \* bound: revisions of the listing that are explored
    CloseChan    \* what grpcResolver.close holds once the resolver is built

\* Build never makes the channel ("nil"); resolver_test.go passes one ("open").
ASSUME CloseChanAssumption == CloseChan \in {"nil", "open"}
ASSUME MaxRevAssumption == MaxRev \in Nat \ {0}
=============================================================================
