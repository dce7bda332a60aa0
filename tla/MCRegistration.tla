--------------------------- MODULE MCRegistration ---------------------------
(***************************************************************************)
(* Model-checking instances of Registration: p1 and p2 follow each other   *)
(* at one address; q has an address of its own and no registry.            *)
(***************************************************************************)
EXTENDS Registration

CONSTANTS p1, p2, q, a, b

SameAddress == [p \in Procs |-> IF p = q THEN b ELSE a]
=============================================================================
