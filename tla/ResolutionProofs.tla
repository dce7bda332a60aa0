-------------------------- MODULE ResolutionProofs --------------------------
(***************************************************************************)
(* Proofs about Resolution, for every set of instances, every bound on the *)
(* revisions and either kind of close channel.                             *)
(***************************************************************************)
EXTENDS Resolution, SequenceTheorems, TLAPS

-----------------------------------------------------------------------------
(* The inductive invariant.                                                *)

\* Each goroutine is at one of its own places, and the watch exists when the
\* watch goroutine has subscribed.
Places ==
    /\ pc["grpc"] \in {"list", "update", "idle", "closing", "closed"}
    /\ pc["watch"] \in {"new", "subscribe", "select", "list", "update",
                        "panicked"}
    /\ watch = "none" <=> pc["watch"] \in {"new", "subscribe"}
    /\ fwd = "none" <=> watch = "none"
    /\ closeCh = "closed" => pc["grpc"] = "closed"
    /\ Panicked => closeCh = "closed"

\* Every revision held anywhere is one that etcd has reached.
Reached ==
    /\ view <= Len(log)
    /\ \A t \in Threads : /\ snap[t] <= Len(log)
                          /\ pc[t] = "update" => snap[t] >= 1

\* A resolve that is still solo is alone, and will not move the view back.
SoloAlone ==
    \A t \in Threads : InFlight(t) /\ solo[t] =>
        /\ ~InFlight(Other(t))
        /\ pc[t] = "update" => snap[t] >= view

\* Once every event has been told, the watch goroutine has the last one in
\* hand or has acted on it, and a solo resolve of gRPC's that has yet to
\* install its listing read the current one.
CaughtUp ==
    Told /\ ~Closing =>
        \/ pc["watch"] = "list"
        \/ pc["watch"] = "update" /\ snap["watch"] = Len(log)
        \/ /\ pc["watch"] = "select"
           /\ view = Len(log) \/ raced \/ failed
           /\ pc["grpc"] = "update" /\ solo["grpc"] => snap["grpc"] = Len(log)

IInv == TypeOK /\ Places /\ Reached /\ SoloAlone /\ CaughtUp

-----------------------------------------------------------------------------
\* What appending does to a sequence.
LEMMA LogGrows ==
    ASSUME NEW S, NEW s \in Seq(S), NEW e \in S
    PROVE  /\ Append(s, e) \in Seq(S)
           /\ Len(Append(s, e)) = Len(s) + 1
           /\ Append(s, e) # <<>>
BY AppendProperties

\* What taking a prefix, the head or the tail does to a sequence.
LEMMA QueueShrinks ==
    ASSUME NEW S, NEW s \in Seq(S)
    PROVE  /\ \A n \in 0 .. Len(s) : SubSeq(s, 1, n) \in Seq(S)
           /\ s # <<>> => Head(s) \in S /\ Tail(s) \in Seq(S)
BY SubSeqProperties, HeadTailProperties

\* The invariant holds while Build is in its resolve().
LEMMA InitIInv == Init => IInv
<1> SUFFICES ASSUME Init PROVE IInv
  OBVIOUS
<1> USE DEF Init
<1>1. PICK s \in SUBSET Instances : log = <<s>>
  OBVIOUS
<1>2. log \in Seq(SUBSET Instances) /\ Len(log) = 1
  BY <1>1
<1>3. TypeOK
  <2>1. pending \in Seq({"PUT", "DELETE"}) /\ held \in EventRecords
    BY DEF EventRecords
  <2>2. pc \in [Threads -> {"new", "subscribe", "select", "list", "update",
                           "panicked", "idle", "closing", "closed"}]
    OBVIOUS
  <2>3. snap \in [Threads -> Nat]
    OBVIOUS
  <2>4. solo \in [Threads -> BOOLEAN]
    BY Zenon
  <2>5. ctxDone \in BOOLEAN /\ raced \in BOOLEAN /\ failed \in BOOLEAN
    OBVIOUS
  <2>6. /\ watch \in {"none", "live", "lost"} /\ subRev \in Nat
        /\ fwd \in {"none", "recv", "send", "done"} /\ view \in Nat
        /\ events \in {"open", "closed"}
    OBVIOUS
  <2>7. closeCh \in {"nil", "open", "closed"} /\ Len(log) \in 1 .. MaxRev
    BY <1>2, CloseChanAssumption, MaxRevAssumption
  <2> HIDE DEF Init
  <2> QED BY <1>2, <2>1, <2>2, <2>3, <2>4, <2>5, <2>6, <2>7 DEF TypeOK
<1>4. Places /\ Reached /\ SoloAlone /\ CaughtUp
  BY <1>2, CloseChanAssumption
     DEF Places, Reached, SoloAlone, CaughtUp, Threads, InFlight, Other, Told,
         Panicked, Closing
<1> QED BY <1>3, <1>4 DEF IInv

\* A new revision keeps the types.
LEMMA PublishedType ==
    ASSUME TypeOK, NEW e \in {"PUT", "DELETE"}, NEW l \in SUBSET Instances,
           Publish(e, l)
    PROVE  TypeOK'
<1> USE DEF TypeOK
<1>1. log' \in Seq(SUBSET Instances) /\ Len(log') = Len(log) + 1
  BY LogGrows DEF Publish
<1>2. pending' \in Seq({"PUT", "DELETE"})
  BY LogGrows DEF Publish
<1> QED BY <1>1, <1>2, MaxRevAssumption DEF Publish, forward, history

\* The current listing is a set of instances.
LEMMA LastListing == TypeOK => Last(log) \in SUBSET Instances
BY DEF TypeOK, Last

\* Every step keeps the types.
LEMMA TypeStep == TypeOK /\ [Next]_vars => TypeOK'
<1> SUFFICES ASSUME TypeOK, [Next]_vars PROVE TypeOK'
  OBVIOUS
<1>1. CASE PublishPut
  <2>1. PICK i \in Instances : Publish("PUT", Last(log) \cup {i})
    BY <1>1 DEF PublishPut
  <2> QED BY <2>1, LastListing, PublishedType
<1>2. CASE PublishDelete
  <2>1. PICK i \in Last(log) : Publish("DELETE", Last(log) \ {i})
    BY <1>2 DEF PublishDelete
  <2> QED BY <2>1, LastListing, PublishedType
<1>3. CASE FwdReceive
  <2>1. pending' \in Seq({"PUT", "DELETE"}) /\ Head(pending) \in {"PUT", "DELETE"}
    BY <1>3, QueueShrinks DEF FwdReceive, TypeOK
  <2>2. held' \in EventRecords
    BY <1>3, <2>1 DEF FwdReceive, EventRecords, Decoded
  <2> QED BY <1>3, <2>1, <2>2 DEF FwdReceive, TypeOK, history
<1> USE DEF TypeOK, etcd, forward, history
<1>4. CASE WatchLost
  BY <1>4, QueueShrinks DEF WatchLost
<1>5. CASE Subscribe
  BY <1>5 DEF Subscribe, Threads
<1>6. CASE FwdAbort
  BY <1>6 DEF FwdAbort, EventRecords
<1>7. CASE FwdStop
  BY <1>7 DEF FwdStop
<1>8. CASE RegistryClose
  BY <1>8, QueueShrinks DEF RegistryClose
<1>9. CASE ResolveNow
  BY <1>9 DEF ResolveNow, Start, Threads
<1>10. CASE Close
  BY <1>10 DEF Close, Threads
<1>11. CASE Deliver
  BY <1>11 DEF Deliver, Start, EventRecords, Threads
<1>12. CASE DrainClosed
  BY <1>12 DEF DrainClosed, Start, Threads
<1>13. CASE WatchClose
  BY <1>13 DEF WatchClose, Threads
<1>14. CASE WatchCloseAgain
  BY <1>14 DEF WatchCloseAgain, Threads
<1>15. ASSUME NEW t \in Threads, List(t) PROVE TypeOK'
  BY <1>15 DEF List, ListServices, Returned, Threads
<1>16. ASSUME NEW t \in Threads, ListFail(t) PROVE TypeOK'
  BY <1>16 DEF ListFail, Returned, Threads
<1>17. ASSUME NEW t \in Threads, Update(t) PROVE TypeOK'
  <2>1. pc' \in [Threads -> {"new", "subscribe", "select", "list", "update",
                             "panicked", "idle", "closing", "closed"}]
    BY <1>17 DEF Update, Returned, Threads
  <2>2. view' \in Nat /\ raced' \in BOOLEAN /\ failed' \in BOOLEAN
    BY <1>17 DEF Update
  <2>3. snap' \in [Threads -> Nat] /\ solo' \in [Threads -> BOOLEAN]
    BY <1>17 DEF Update
  <2>4. UNCHANGED etcd /\ UNCHANGED forward /\ UNCHANGED closeCh
    BY <1>17 DEF Update
  <2> QED BY <2>1, <2>2, <2>3, <2>4
<1>18. CASE UNCHANGED vars
  BY <1>18 DEF vars
<1> QED
  BY <1>1, <1>2, <1>3, <1>4, <1>5, <1>6, <1>7, <1>8, <1>9,
     <1>10, <1>11, <1>12, <1>13, <1>14, <1>15, <1>16, <1>17, <1>18
  DEF Next, EtcdStep, ClientStep, FwdStep, Resolve, Select

\* A new revision keeps the invariant: a live watch has an event pending.
LEMMA PublishInv ==
    ASSUME IInv, NEW e \in {"PUT", "DELETE"}, NEW l \in SUBSET Instances, Publish(e, l)
    PROVE  Places' /\ Reached' /\ SoloAlone' /\ CaughtUp'
<1>1. Len(log') = Len(log) + 1 /\ Len(log) \in Nat
  BY LogGrows DEF Publish, IInv, TypeOK
<1>2. UNCHANGED <<watch, fwd, pc, snap, view, closeCh, solo>>
  BY DEF Publish, forward, history
<1>3. Places' /\ SoloAlone'
  BY <1>2 DEF IInv, Places, SoloAlone, InFlight, Panicked
<1>4. Reached'
  BY <1>1, <1>2 DEF IInv, TypeOK, Reached, Threads
<1>5. ~Told'
  \* A live watch has just been told of the revision; the event is pending.
  <2>1. Len(Append(pending, e)) = Len(pending) + 1 /\ Len(pending) \in Nat
    BY LogGrows, AppendProperties DEF IInv, TypeOK
  <2> QED BY <1>2, <2>1 DEF Publish, Told
<1> QED BY <1>3, <1>4, <1>5 DEF CaughtUp

\* Every step keeps the invariant.
LEMMA InvStep == IInv /\ [Next]_vars => IInv'
<1> SUFFICES ASSUME IInv, [Next]_vars PROVE IInv'
  OBVIOUS
<1>0. TypeOK /\ TypeOK'
  BY TypeStep DEF IInv
<1> DEFINE Parts == Places /\ Reached /\ SoloAlone /\ CaughtUp
<1> SUFFICES Parts'
  BY <1>0 DEF IInv
<1>1. CASE PublishPut
  BY <1>0, <1>1, PublishInv, LastListing DEF PublishPut
<1>2. CASE PublishDelete
  BY <1>0, <1>2, PublishInv, LastListing DEF PublishDelete
<1> USE <1>0 DEF IInv, TypeOK, Threads, InFlight, Closing, Panicked
\* The steps of etcd's watch and of the forwarder leave Told false.
<1>3. ASSUME WatchLost \/ RegistryClose \/ Subscribe \/ FwdReceive
             \/ FwdAbort \/ FwdStop
      PROVE  Parts'
  <2> USE <1>3 DEF WatchLost, RegistryClose, Subscribe, FwdReceive, FwdAbort,
                   FwdStop, etcd, forward, history
  <2>1. Places'
    BY DEF Places
  <2>2. Reached'
    BY DEF Reached
  <2>3. SoloAlone'
    BY DEF SoloAlone, Other
  <2>4. CaughtUp'
    BY DEF CaughtUp, Told, Places
  <2> QED BY <2>1, <2>2, <2>3, <2>4
\* A new resolve takes the solo mark from the one in flight.
<1>4. ASSUME ResolveNow \/ Deliver \/ DrainClosed PROVE Parts'
  <2> USE <1>4 DEF ResolveNow, Deliver, DrainClosed, Start, etcd, forward
  <2>1. Places'
    BY DEF Places
  <2>2. Reached'
    BY DEF Reached
  <2>3. SoloAlone'
    BY DEF SoloAlone, Other, Places
  <2>4. CaughtUp'
    BY DEF CaughtUp, Told
  <2> QED BY <2>1, <2>2, <2>3, <2>4
<1>5. ASSUME Close \/ WatchClose \/ WatchCloseAgain PROVE Parts'
  <2> USE <1>5 DEF Close, WatchClose, WatchCloseAgain, etcd, forward, history
  <2>1. Places'
    BY DEF Places
  <2>2. Reached'
    BY DEF Reached
  <2>3. SoloAlone'
    BY DEF SoloAlone, Other, Places
  <2>4. CaughtUp'
    BY DEF CaughtUp, Told, Places, Reached
  <2> QED BY <2>1, <2>2, <2>3, <2>4
<1>6. ASSUME NEW t \in Threads, List(t) PROVE Parts'
  <2> USE <1>6 DEF List, ListServices, etcd, forward, history
  <2>1. Places'
    BY DEF Places
  <2>2. Reached'
    BY DEF Reached
  <2>3. SoloAlone'
    \* The listing read is the newest, so no older than the view.
    BY DEF SoloAlone, Other, Reached
  <2>4. CaughtUp'
    BY DEF CaughtUp, Told
  <2> QED BY <2>1, <2>2, <2>3, <2>4
<1>7. ASSUME NEW t \in Threads, ListFail(t) \/ Update(t), ~Panicked
      PROVE  Parts'
  <2> USE <1>7 DEF ListFail, Update, Returned, etcd, forward
  <2>1. Places'
    BY DEF Places
  <2>2. Reached'
    BY DEF Reached
  <2>3. SoloAlone'
    BY DEF SoloAlone, Other
  <2>4. CaughtUp'
    \* The view becomes current, or the update or the error is on record.
    BY DEF CaughtUp, Told, SoloAlone, Other, Places
  <2> QED BY <2>1, <2>2, <2>3, <2>4
<1>8. CASE UNCHANGED vars
  BY <1>8 DEF vars, Places, Reached, SoloAlone, Other, CaughtUp, Told
<1> QED
  BY <1>1, <1>2, <1>3, <1>4, <1>5, <1>6, <1>7, <1>8
  DEF Next, EtcdStep, ClientStep, FwdStep, Resolve, Select

-----------------------------------------------------------------------------
(***************************************************************************)
(* The inductive invariant holds throughout.  About the whole of           *)
(* resolver.go and of etcd/registry.go's Subscribe.                        *)
(***************************************************************************)
THEOREM Invariance == Spec => []IInv
BY InitIInv, InvStep, PTL DEF Spec

(***************************************************************************)
(* Type correctness.  About the same code.                                 *)
(***************************************************************************)
THEOREM TypeCorrect == Spec => []TypeOK
<1>1. IInv => TypeOK
  BY DEF IInv
<1> QED BY <1>1, Invariance, PTL

(***************************************************************************)
(* However many instances and revisions there are: when everything has     *)
(* settled, the client's view is current, unless it was installed by a     *)
(* resolve that overlapped another or the last resolve failed.  About      *)
(* resolver.go:120-126.                                                    *)
(***************************************************************************)
THEOREM Freshness == Spec => []Fresh
<1>1. IInv => Fresh
  BY DEF IInv, CaughtUp, Fresh, Quiescent, Closing
<1> QED BY <1>1, Invariance, PTL

(***************************************************************************)
(* The resolver implements Directory: the view is always a listing etcd    *)
(* had, and only an overlapping resolve can move it back.  About resolve(),*)
(* resolver.go:71-89.                                                      *)
(***************************************************************************)
THEOREM Refinement == Spec => Implements
<1>1. Init => Dir!Init
  BY DEF Init, Dir!Init
<1>2. IInv /\ [Next]_vars => [Dir!Next]_Dir!vars
  <2> SUFFICES ASSUME IInv, [Next]_vars PROVE [Dir!Next]_Dir!vars
    OBVIOUS
  <2> USE DEF Dir!Next, Dir!vars
  <2>1. CASE PublishPut \/ PublishDelete
    <3>1. PICK e \in {"PUT", "DELETE"}, l \in SUBSET Instances : Publish(e, l)
      BY <2>1, LastListing DEF PublishPut, PublishDelete, IInv
    <3> QED BY <3>1 DEF Publish, history, Dir!Publish
  <2>2. ASSUME NEW t \in Threads, Update(t) PROVE [Dir!Next]_Dir!vars
    <3>1. CASE Closing
      BY <2>2, <3>1 DEF Update, etcd
    <3>2. CASE ~Closing
      <4>1. snap[t] \in 1 .. Len(log)
        BY <2>2 DEF Update, IInv, TypeOK, Reached
      <4>2. solo[t] => snap[t] >= view
        BY <2>2 DEF Update, IInv, SoloAlone, InFlight
      <4>3. view' = snap[t] /\ raced' = ~solo[t] /\ log' = log
        BY <2>2, <3>2 DEF Update, etcd
      <4>4. raced' \in BOOLEAN
        BY TypeStep DEF IInv, TypeOK
      <4> QED BY <4>1, <4>2, <4>3, <4>4 DEF Dir!Refresh
    <3> QED BY <3>1, <3>2
  <2>3. CASE WatchLost \/ FwdStep \/ Subscribe \/ RegistryClose \/ Close
             \/ WatchClose \/ WatchCloseAgain
    BY <2>3 DEF WatchLost, FwdStep, FwdReceive, FwdAbort, FwdStop, Subscribe,
       RegistryClose, Close, WatchClose, WatchCloseAgain, etcd, history
  <2>4. CASE ResolveNow \/ Deliver \/ DrainClosed
    BY <2>4 DEF ResolveNow, Deliver, DrainClosed, Start, etcd
  <2>5. ASSUME NEW t \in Threads, List(t) \/ ListFail(t)
        PROVE  [Dir!Next]_Dir!vars
    BY <2>5 DEF List, ListServices, ListFail, etcd, history
  <2>6. CASE UNCHANGED vars
    BY <2>6 DEF vars
  <2> QED BY <2>1, <2>2, <2>3, <2>4, <2>5, <2>6
          DEF Next, EtcdStep, ClientStep, Resolve, Select
<1> QED BY <1>1, <1>2, Invariance, PTL DEF Spec, Implements, Dir!Spec
=============================================================================
