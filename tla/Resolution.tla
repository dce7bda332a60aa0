----------------------------- MODULE Resolution -----------------------------
(***************************************************************************)
(* Service discovery on the client: grpcResolver (resolver.go) over the    *)
(* etcd registry (registry/etcd/registry.go).                              *)
(*                                                                         *)
(* Two goroutines run resolve(), each as a read of etcd (List) followed by *)
(* a write to the ClientConn (Update): "grpc", which stands for the calls  *)
(* gRPC makes on the resolver one at a time (Build, ResolveNow, Close),    *)
(* and "watch", the goroutine Build starts.  A third one, started by       *)
(* Subscribe, forwards etcd's watch events over an unbuffered channel.     *)
(*                                                                         *)
(* etcd keeps every revision of the listing; a listing is named by its     *)
(* revision, its index in log.                                             *)
(***************************************************************************)
EXTENDS Revisions, Sequences, SequencesExt

CONSTANT Instances   \* instances that may be registered for the service

VARIABLES
    log,       \* etcd: the listing at every revision, the last one current
    watch,     \* etcd: the watch of Subscribe, "none", "live" or "lost"
    subRev,    \* etcd: the revision at which the watch was created
    pending,   \* etcd: watch events not yet received by the forwarder
    fwd,       \* forwarder: "none", "recv", "send" (holding an event), "done"
    held,      \* forwarder: the registry.Event it is sending
    events,    \* the channel Subscribe returned, "open" or "closed"
    ctxDone,   \* the context of the watch has been cancelled
    pc,        \* where the two resolving goroutines are
    snap,      \* revision each of them read in its resolve()
    view,      \* revision last handed to ClientConn.UpdateState; 0: none
    closeCh,   \* grpcResolver.close: "nil", "open" or "closed"
    \* History variables: no action reads them.
    solo,      \* solo[t]: the resolve of t has been the only one so far
    raced,     \* the view was installed by a resolve that was not solo
    failed     \* the last resolve to finish ended in an error

etcd    == <<log, watch, subRev, pending>>
forward == <<fwd, held, events, ctxDone>>
history == <<solo, raced, failed>>
vars    == <<log, watch, subRev, pending, fwd, held, events, ctxDone,
             pc, snap, view, closeCh, solo, raced, failed>>

Threads == {"grpc", "watch"}
Other(t) == IF t = "grpc" THEN "watch" ELSE "grpc"

InFlight(t) == pc[t] \in {"list", "update"}
Closing     == pc["grpc"] \in {"closing", "closed"}
Panicked    == pc["watch"] = "panicked"

NoEvent == [src |-> "none", type |-> "Unknown", error |-> FALSE]
EventRecords == {NoEvent,
                 [src |-> "PUT", type |-> "Add", error |-> FALSE],
                 [src |-> "DELETE", type |-> "Unknown", error |-> TRUE]}

\* Mutant of Decoded: typesMap is consulted although the value is missing.
Decoded_Typed(e) ==
    IF e = "DELETE" THEN [src |-> e, type |-> "Delete", error |-> TRUE]
                    ELSE [src |-> e, type |-> "Add", error |-> FALSE]

\* What Subscribe makes of an etcd event.  The value of a DELETE event is
\* empty, so json.Unmarshal fails and the Event carries nothing but an error;
\* its type is the zero EventType.
Decoded(e) ==
    IF e = "DELETE" THEN [src |-> e, type |-> "Unknown", error |-> TRUE]
                    ELSE [src |-> e, type |-> "Add", error |-> FALSE]

-----------------------------------------------------------------------------
(* Initially Build is in its resolve() and the watch goroutine does not    *)
(* exist yet.                                                              *)
Init ==
    /\ log \in {<<s>> : s \in SUBSET Instances}
    /\ watch = "none" /\ subRev = 0 /\ pending = <<>>
    /\ fwd = "none" /\ held = NoEvent /\ events = "open"
    /\ ctxDone = FALSE
    /\ pc = [t \in Threads |-> IF t = "grpc" THEN "list" ELSE "new"]
    /\ snap = [t \in Threads |-> 0]
    /\ view = 0
    /\ closeCh = CloseChan
    /\ solo = [t \in Threads |-> t = "grpc"]
    /\ raced = FALSE /\ failed = FALSE

-----------------------------------------------------------------------------
(* etcd.                                                                   *)

\* A listing takes effect; a live watch is told of it.
Publish(e, listing) ==
    /\ Len(log) < MaxRev
    /\ log' = Append(log, listing)
    /\ pending' = IF watch = "live" THEN Append(pending, e) ELSE pending
    /\ UNCHANGED <<watch, subRev, pc, snap, view, closeCh>>
    /\ UNCHANGED forward /\ UNCHANGED history

\* Register of some server: a Put, of a new key or of one already there.
PublishPut == \E i \in Instances : Publish("PUT", Last(log) \cup {i})

\* Unregister of some server, or the end of its lease.  Deleting a key that
\* is not there makes no revision.
PublishDelete == \E i \in Last(log) : Publish("DELETE", Last(log) \ {i})

\* etcd gives up the watch (no leader, compaction).  Events not yet sent are
\* lost with it.  The forwarder sees one error response and then reads zero
\* responses of a closed channel: it goes round its loop, changing nothing.
WatchLost ==
    /\ watch = "live"
    /\ watch' = "lost"
    /\ \E n \in 0 .. Len(pending) : pending' = SubSeq(pending, 1, n)
    /\ UNCHANGED <<log, subRev, pc, snap, view, closeCh>>
    /\ UNCHANGED forward /\ UNCHANGED history

-----------------------------------------------------------------------------
(* Registry.Subscribe, its forwarding goroutine, and Registry.Close.       *)

\* clientv3.Watch returns when etcd has created the watch: later revisions
\* are delivered, earlier ones are not.  With this registry Subscribe returns
\* no error.
Subscribe ==
    /\ pc["watch"] = "subscribe"
    /\ pc' = [pc EXCEPT !["watch"] = "select"]
    /\ watch' = "live" /\ subRev' = Len(log)
    /\ fwd' = "recv"
    /\ UNCHANGED <<log, pending, held, events, ctxDone,
                   snap, view, closeCh>>
    /\ UNCHANGED history

\* Mutant of FwdReceive: an event that does not decode is skipped.
FwdReceive_Skips ==
    /\ fwd = "recv" /\ pending # <<>>
    /\ fwd' = (IF Head(pending) = "DELETE" THEN "recv" ELSE "send")
    /\ held' = Decoded(Head(pending))
    /\ pending' = Tail(pending)
    /\ UNCHANGED <<log, watch, subRev, events, ctxDone,
                   pc, snap, view, closeCh>>
    /\ UNCHANGED history

FwdReceive ==
    /\ fwd = "recv" /\ pending # <<>>
    /\ fwd' = "send" /\ held' = Decoded(Head(pending))
    /\ pending' = Tail(pending)
    /\ UNCHANGED <<log, watch, subRev, events, ctxDone,
                   pc, snap, view, closeCh>>
    /\ UNCHANGED history

\* ctx.Done while an event is being sent: the channel is closed.
FwdAbort ==
    /\ fwd = "send" /\ ctxDone
    /\ fwd' = "done" /\ held' = NoEvent /\ events' = "closed"
    /\ UNCHANGED <<ctxDone, pc, snap, view, closeCh>>
    /\ UNCHANGED etcd /\ UNCHANGED history

\* Mutant of FwdStop: cancellation is noticed only beside an event.
FwdStop_Busy ==
    /\ fwd = "recv" /\ ctxDone /\ pending # <<>>
    /\ fwd' = "done"
    /\ UNCHANGED <<held, events, ctxDone, pc, snap, view, closeCh>>
    /\ UNCHANGED etcd /\ UNCHANGED history

\* ctx.Done while waiting for etcd: the channel is left open.
FwdStop ==
    /\ fwd = "recv" /\ ctxDone
    /\ fwd' = "done"
    /\ UNCHANGED <<held, events, ctxDone, pc, snap, view, closeCh>>
    /\ UNCHANGED etcd /\ UNCHANGED history

\* Close takes the cancel functions, so only a watch that exists is cancelled
\* and a second Close cancels nothing.
RegistryClose ==
    /\ fwd # "none" /\ ~ctxDone
    /\ ctxDone' = TRUE
    /\ watch' = "lost"
    /\ \E n \in 0 .. Len(pending) : pending' = SubSeq(pending, 1, n)
    /\ UNCHANGED <<log, subRev, fwd, held, events,
                   pc, snap, view, closeCh>>
    /\ UNCHANGED history

-----------------------------------------------------------------------------
(* grpcResolver.resolve.                                                   *)

\* Effect on the history variables of t starting a resolve.
Start(t) ==
    /\ solo' = IF InFlight(Other(t)) THEN [u \in Threads |-> FALSE]
                                     ELSE [solo EXCEPT ![t] = TRUE]
    /\ UNCHANGED <<raced, failed>>

\* Where t goes when its resolve returns.  Build then starts the watch.
Returned(t) ==
    [u \in Threads |->
        IF u = t THEN (IF t = "grpc" THEN "idle" ELSE "select")
        ELSE IF pc[u] = "new" THEN "subscribe" ELSE pc[u]]

\* Mutant of List: the read is served by a member of etcd that lags behind.
List_Stale(t) ==
    /\ pc[t] = "list"
    /\ pc' = [pc EXCEPT ![t] = "update"]
    /\ \E r \in 1 .. Len(log) : snap' = [snap EXCEPT ![t] = r]
    /\ UNCHANGED <<view, closeCh>>
    /\ UNCHANGED etcd /\ UNCHANGED forward /\ UNCHANGED history

\* One Get of all keys under the service's: the listing as it is now.
ListServices == Len(log)

\* ListServices answers.
List(t) ==
    /\ pc[t] = "list"
    /\ pc' = [pc EXCEPT ![t] = "update"]
    /\ snap' = [snap EXCEPT ![t] = ListServices]
    /\ UNCHANGED <<view, closeCh>>
    /\ UNCHANGED etcd /\ UNCHANGED forward /\ UNCHANGED history

\* ListServices fails: timeout, etcd error, or a value that does not decode.
\* (What ReportError tells the ClientConn is not kept.)
ListFail(t) ==
    /\ pc[t] = "list"
    /\ pc' = Returned(t)
    /\ solo' = [solo EXCEPT ![t] = FALSE]
    /\ failed' = TRUE
    /\ UNCHANGED <<snap, view, closeCh, raced>>
    /\ UNCHANGED etcd /\ UNCHANGED forward

\* Mutant of Update: an empty listing leaves the old addresses in place.
Update_KeepsOld(t) ==
    /\ pc[t] = "update"
    /\ pc' = Returned(t)
    /\ IF Closing
         THEN UNCHANGED <<view, raced, failed>>
         ELSE /\ view' = IF log[snap[t]] = {} THEN view ELSE snap[t]
              /\ raced' = ~solo[t]
              /\ failed' = FALSE
    /\ snap' = [snap EXCEPT ![t] = 0] /\ solo' = [solo EXCEPT ![t] = FALSE]
    /\ UNCHANGED closeCh
    /\ UNCHANGED etcd /\ UNCHANGED forward

\* UpdateState.  The balancer takes the addresses; it rejects an empty list
\* with an error, but after taking it.  A closing ClientConn takes nothing.
Update(t) ==
    /\ pc[t] = "update"
    /\ pc' = Returned(t)
    /\ IF Closing
         THEN UNCHANGED <<view, raced, failed>>
         ELSE /\ view' = snap[t]
              /\ raced' = ~solo[t]
              /\ failed' = FALSE
    /\ snap' = [snap EXCEPT ![t] = 0] /\ solo' = [solo EXCEPT ![t] = FALSE]
    /\ UNCHANGED closeCh
    /\ UNCHANGED etcd /\ UNCHANGED forward

-----------------------------------------------------------------------------
(* The watch goroutine's select, and the calls gRPC makes.                 *)

\* case <-events, with the forwarder sending.
Deliver ==
    /\ pc["watch"] = "select" /\ fwd = "send"
    /\ pc' = [pc EXCEPT !["watch"] = "list"]
    /\ fwd' = "recv" /\ held' = NoEvent
    /\ Start("watch")
    /\ UNCHANGED <<events, ctxDone, snap, view, closeCh>>
    /\ UNCHANGED etcd

\* Mutant of DrainClosed: the loop returns when the channel is closed.
DrainClosed_Exits ==
    /\ pc["watch"] = "select" /\ events = "closed"
    /\ pc' = [pc EXCEPT !["watch"] = "exited"]
    /\ UNCHANGED <<snap, view, closeCh>>
    /\ UNCHANGED etcd /\ UNCHANGED forward /\ UNCHANGED history

\* case <-events, on a channel that Subscribe's goroutine has closed.
DrainClosed ==
    /\ pc["watch"] = "select" /\ events = "closed"
    /\ pc' = [pc EXCEPT !["watch"] = "list"]
    /\ Start("watch")
    /\ UNCHANGED <<snap, view, closeCh>>
    /\ UNCHANGED etcd /\ UNCHANGED forward

\* Mutant of ResolveNow: the hint is ignored.
ResolveNow_Ignored ==
    /\ pc["grpc"] = "idle"
    /\ UNCHANGED <<pc, snap, view, closeCh>>
    /\ UNCHANGED etcd /\ UNCHANGED forward /\ UNCHANGED history

ResolveNow ==
    /\ pc["grpc"] = "idle"
    /\ pc' = [pc EXCEPT !["grpc"] = "list"]
    /\ Start("grpc")
    /\ UNCHANGED <<snap, view, closeCh>>
    /\ UNCHANGED etcd /\ UNCHANGED forward

\* Close: sends on the channel, and blocks until the send is received.
Close ==
    /\ pc["grpc"] = "idle"
    /\ pc' = [pc EXCEPT !["grpc"] = "closing"]
    /\ UNCHANGED <<snap, view, closeCh>>
    /\ UNCHANGED etcd /\ UNCHANGED forward /\ UNCHANGED history

\* case <-r.close, with Close sending: both go on, and the channel is closed.
\* The loop does not return.
WatchClose ==
    /\ pc["watch"] = "select" /\ pc["grpc"] = "closing" /\ closeCh = "open"
    /\ closeCh' = "closed"
    /\ pc' = [pc EXCEPT !["grpc"] = "closed"]
    /\ UNCHANGED <<snap, view>>
    /\ UNCHANGED etcd /\ UNCHANGED forward /\ UNCHANGED history

\* case <-r.close, on the closed channel: close of a closed channel panics.
WatchCloseAgain ==
    /\ pc["watch"] = "select" /\ closeCh = "closed"
    /\ pc' = [pc EXCEPT !["watch"] = "panicked"]
    /\ UNCHANGED <<snap, view, closeCh>>
    /\ UNCHANGED etcd /\ UNCHANGED forward /\ UNCHANGED history

-----------------------------------------------------------------------------
EtcdStep   == PublishPut \/ PublishDelete \/ WatchLost
FwdStep    == FwdReceive \/ FwdAbort \/ FwdStop
Resolve(t) == List(t) \/ ListFail(t) \/ Update(t)
Select     == Deliver \/ DrainClosed \/ WatchClose \/ WatchCloseAgain

\* A panic ends the client's process; etcd goes on without it.
ClientStep == \/ Subscribe \/ FwdStep \/ RegistryClose \/ ResolveNow \/ Close
              \/ Select
              \/ \E t \in Threads : Resolve(t)

Next == EtcdStep \/ (~Panicked /\ ClientStep)

Spec == Init /\ [][Next]_vars

(* The goroutines are scheduled, ListServices answers or times out, and    *)
(* Go's select, which picks at random, does not pass over a case for ever. *)
(* Nothing is assumed of the servers, of gRPC's calls, or of etcd.         *)
Fairness ==
    /\ WF_vars(~Panicked /\ Subscribe)
    /\ WF_vars(~Panicked /\ FwdReceive)
    /\ WF_vars(~Panicked /\ FwdAbort)
    /\ WF_vars(~Panicked /\ FwdStop)
    /\ \A t \in Threads : WF_vars(~Panicked /\ Resolve(t))
    /\ WF_vars(~Panicked /\ (Deliver \/ DrainClosed))
    /\ SF_vars(~Panicked /\ WatchClose)

FairSpec == Spec /\ Fairness

-----------------------------------------------------------------------------
(* Properties.                                                             *)

TypeOK ==
    /\ log \in Seq(SUBSET Instances) /\ Len(log) \in 1 .. MaxRev
    /\ watch \in {"none", "live", "lost"}
    /\ subRev \in Nat
    /\ pending \in Seq({"PUT", "DELETE"})
    /\ fwd \in {"none", "recv", "send", "done"}
    /\ held \in EventRecords
    /\ events \in {"open", "closed"}
    /\ ctxDone \in BOOLEAN
    /\ pc \in [Threads -> {"new", "subscribe", "select", "list", "update",
                           "panicked", "idle", "closing", "closed"}]
    /\ snap \in [Threads -> Nat]
    /\ view \in Nat
    /\ closeCh \in {"nil", "open", "closed"}
    /\ solo \in [Threads -> BOOLEAN]
    /\ raced \in BOOLEAN /\ failed \in BOOLEAN

\* Nothing is on its way: every revision made since Subscribe has been told
\* to the watch goroutine, and it has acted on the last one.
Told ==
    /\ watch = "live" /\ Len(log) > subRev
    /\ pending = <<>> /\ fwd = "recv"

Quiescent == Told /\ pc["watch"] = "select" /\ pc["grpc"] = "idle"

(***************************************************************************)
(* When everything has settled after a change, the client balances over    *)
(* the current listing, unless the resolve that set the view overlapped    *)
(* another or the last resolve failed.  One resolve alone repairs both.    *)
(* About resolver.go:120-126, "update the usable nodes at once".           *)
(***************************************************************************)
Fresh == Quiescent /\ ~raced /\ ~failed => view = Len(log)

(***************************************************************************)
(* The resolver implements the directory's promise: the view is always a   *)
(* listing etcd really had, and moves forward only, races excepted.        *)
(* About resolve() reading and installing in two steps, resolver.go:71-89. *)
(***************************************************************************)
Dir == INSTANCE Directory
         WITH Listings <- SUBSET Instances, shown <- view, racing <- raced
Implements == Dir!Spec

(***************************************************************************)
(* Every change made while the watch lives is followed by a view that is   *)
(* current, or by a race, a failure, a lost watch, or the end of the       *)
(* client.  About the path from etcd's event to UpdateState.               *)
(***************************************************************************)
EventuallyFresh ==
    []<>(watch = "live" /\ Len(log) > subRev =>
           view = Len(log) \/ raced \/ failed \/ Closing \/ Panicked)

(***************************************************************************)
(* Once Registry.Close has cancelled the watch, the forwarding goroutine   *)
(* ends, whether it waits for etcd or for a receiver.  About the selects   *)
(* of Subscribe, registry.go:91-135.                                       *)
(***************************************************************************)
ForwarderEnds == []<>(ctxDone => fwd = "done" \/ Panicked)

(***************************************************************************)
(* A Close of the resolver returns.  About resolver.go:149-152.            *)
(***************************************************************************)
CloseReturns == []<>(pc["grpc"] # "closing" \/ Panicked)
=============================================================================
