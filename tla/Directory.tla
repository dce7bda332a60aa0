------------------------------ MODULE Directory ------------------------------
(***************************************************************************)
(* What service discovery promises to a client, without saying how.  The   *)
(* directory of a service is the history of its listings; the client       *)
(* balances over one of them.  The listing it shows is always one the      *)
(* directory really had, and it moves forward only, with one reservation:  *)
(* a refresh that was under way together with another one ("racing") may   *)
(* take the client back to an older listing.                               *)
(***************************************************************************)
EXTENDS Naturals, Sequences

CONSTANT Listings   \* the listings a service can have

VARIABLES
    log,      \* the listings of the service, oldest first
    shown,    \* index in log of the listing the client uses; 0: none yet
    racing    \* the listing in use was installed by a racing refresh

vars == <<log, shown, racing>>

Init == log \in {<<l>> : l \in Listings} /\ shown = 0 /\ racing = FALSE

\* The service changes: listings are added at the end, none is rewritten.
Publish == /\ \E listing \in Listings : log' = Append(log, listing)
           /\ UNCHANGED <<shown, racing>>

\* The client installs a listing.
Refresh == /\ racing' \in BOOLEAN
           /\ shown' \in 1 .. Len(log)
           /\ racing' \/ shown' >= shown
           /\ UNCHANGED log

Next == Publish \/ Refresh

Spec == Init /\ [][Next]_vars
=============================================================================
