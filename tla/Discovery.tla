------------------------------ MODULE Discovery ------------------------------
(***************************************************************************)
(* Servers and a client together: the etcd of Registration is the one      *)
(* Resolution reads and watches.  What a client sees of an instance is its *)
(* address, that is, its key.                                              *)
(***************************************************************************)
EXTENDS Revisions, Sequences

CONSTANTS Procs, WithRegistry, Ports, Port, Keys, Key, None, MaxTries

\* As in Registration.
ASSUME ServersAssumption ==
    /\ WithRegistry \subseteq Procs
    /\ Port \in [Procs -> Ports] /\ Key \in [Procs -> Keys]
    /\ \A p, q \in Procs : Port[p] = Port[q] => Key[p] = Key[q]
    /\ None \notin Procs
    /\ MaxTries \in Nat

VARIABLES
    start, close, tries, put, del, inst, bound, stopped, crashed, lease,
    store, strays, late,
    early,     \* Registration's raced: closed before Start reached Serve
    log, watch, subRev, pending, fwd, held, events, ctxDone, pc, snap, view,
    closeCh, solo, raced, failed

Reg == INSTANCE Registration WITH raced <- early
Res == INSTANCE Resolution WITH Instances <- Keys

servers == <<start, close, tries, put, del, inst, bound, stopped, crashed,
             lease, store, strays, late, early>>
client  == <<log, watch, subRev, pending, fwd, held, events, ctxDone, pc, snap,
             view, closeCh, solo, raced, failed>>
vars    == <<servers, client>>

Listing == {k \in Keys : store[k] # None}

\* Every write that changes a key makes a revision and an event.  A process
\* puts its key once, so a write that changes nothing is a Delete of nothing.
Publish ==
    IF store' = store
      THEN UNCHANGED client
      ELSE Res!Publish(IF Listing' \subseteq Listing /\ Listing' # Listing
                         THEN "DELETE" ELSE "PUT", Listing')

-----------------------------------------------------------------------------
\* One etcd, with no key yet; a client that is built later is one whose first
\* listing (Res!List) comes later.
Init == Reg!Init /\ Res!Init /\ log = <<Listing>>

ServerStep == Reg!Next /\ Publish

\* The client is not closed here: that is Resolution's subject.
ClientStep ==
    /\ \/ Res!Subscribe \/ Res!FwdReceive \/ Res!Deliver \/ Res!ResolveNow
       \/ \E t \in Res!Threads : Res!Resolve(t)
    /\ UNCHANGED servers
WatchLost  == Res!WatchLost /\ UNCHANGED servers

Next == ServerStep \/ ClientStep \/ WatchLost

Spec == Init /\ [][Next]_vars

-----------------------------------------------------------------------------
\* The addresses the client balances over, and those with an open port.
Shown == IF view = 0 THEN {} ELSE log[view]
Open  == {Key[p] : p \in {p \in Procs : bound[p]}}

\* gRPC's balancer asks for a new resolution when a connection fails.
BalancerAsks == Shown \ Open # {} /\ Res!ResolveNow /\ UNCHANGED servers

LeaseEnds(p) == crashed[p] /\ Reg!LeaseExpire(p) /\ Publish
ListingAnswers == Res!List("grpc") /\ UNCHANGED servers

(* As in the two parts, and: the balancer asks as long as it is shown a    *)
(* closed port; a registry asked again and again answers now and then.     *)
FairSpec ==
    /\ Spec /\ Res!Fairness
    /\ \A p \in Procs : WF_vars(LeaseEnds(p))
    /\ SF_vars(ListingAnswers)
    /\ WF_vars(BalancerAsks)

-----------------------------------------------------------------------------
\* Shown without an open port, and not left by a Close that overtook Start.
DeadShown == {k \in Shown \ Open : store[k] \notin early}

\* The client's types (resolver.go, registry/etcd/registry.go).
TypeOK == Res!TypeOK

\* Resolution: a settled client's view is current (resolver.go:120-126).
Fresh == Res!Fresh

\* Resolution: the view is always a listing that etcd had, and moves forward
\* only, races excepted (resolver.go:71-89).
Implements == Res!Implements

(***************************************************************************)
(* An address without an open port does not stay in the client's view,     *)
(* whatever events were missed, lost with the watch or overtaken: failing  *)
(* connections make the balancer ask again.  Only an instance left         *)
(* registered by a Close that overtook Start stays.  About ResolveNow      *)
(* (resolver.go:65-69) and the lease (etcd/registry.go:55).                *)
(***************************************************************************)
DeadDropped == <>[](DeadShown = {})

(***************************************************************************)
(* When a server that served has been closed without an error, and the     *)
(* client has settled without a race or a failure, the client shows the    *)
(* server's address only if another process has registered there.  About   *)
(* Server.Close, etcd's event for the Delete and the resolver's handling.  *)
(***************************************************************************)
ClosedNotShown ==
    \A p \in Procs :
        /\ close[p] = "done" /\ start[p] = "stopped" /\ p \notin early
        /\ Res!Quiescent /\ ~raced /\ ~failed
        /\ Key[p] \in Shown
        => \E q \in Procs \ {p} : store[Key[p]] = q
=============================================================================
