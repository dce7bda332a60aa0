----------------------------- MODULE MCDiscovery -----------------------------
(***************************************************************************)
(* Model-checking instance of Discovery, with every process at one         *)
(* address, and of its client by itself: `part` says which of the two a    *)
(* behaviour is of.  To the client by itself, which may be closed too,     *)
(* instances come and go as they will.                                     *)
(***************************************************************************)
EXTENDS Discovery

CONSTANT a

VARIABLE part

OneAddress == [p \in Procs |-> a]

PartInit ==
    \/ part = "both" /\ Init
    \/ part = "client" /\ Reg!Init /\ Res!Init

BothNext   == part = "both" /\ Next /\ UNCHANGED part
ClientNext == part = "client" /\ Res!Next /\ UNCHANGED <<part, servers>>

\* The fairness is Discovery's, that of the client alone Resolution's.
PartSpec ==
    /\ PartInit /\ [][BothNext \/ ClientNext]_<<part, vars>>
    /\ Res!Fairness
    /\ \A p \in Procs : WF_vars(LeaseEnds(p))
    /\ SF_vars(part = "both" /\ ListingAnswers)
    /\ WF_vars(part = "both" /\ BalancerAsks)

\* Liveness of the resolver (resolver.go:58-152), as Resolution states it.
EventuallyFresh == Res!EventuallyFresh
ForwarderEnds   == Res!ForwarderEnds
CloseReturns    == Res!CloseReturns

\* DeadDropped, where there are servers (resolver.go:65-69).
DeadLeaves == <>[](part = "both" => DeadShown = {})
=============================================================================
