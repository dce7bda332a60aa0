---------------------------- MODULE DiscoveryProofs ----------------------------
(***************************************************************************)
(* Proofs about servers and a client together, for any processes, keys and *)
(* revisions: each part keeps to its own specification in the composition, *)
(* so what is proved of the parts holds, and gives what ties them: a       *)
(* closed server is not shown.                                             *)
(***************************************************************************)
EXTENDS Discovery, SequenceTheorems, TLAPS

RegP == INSTANCE RegistrationProofs WITH raced <- early
ResP == INSTANCE ResolutionProofs WITH Instances <- Keys

-----------------------------------------------------------------------------
\* The parts as the proofs about them see them.
LEMMA SameReg ==
    /\ Reg!Init <=> RegP!Init
    /\ Reg!Next <=> RegP!Next
    /\ Reg!vars = RegP!vars
<1>1. Reg!Init <=> RegP!Init
  BY DEF Reg!Init, RegP!Init
<1>2. ASSUME NEW p \in Procs
      PROVE  /\ Reg!StartStep(p) <=> RegP!StartStep(p)
             /\ Reg!CloseStep(p) <=> RegP!CloseStep(p)
             /\ Reg!EtcdStep(p) <=> RegP!EtcdStep(p)
             /\ Reg!RegistryClose(p) <=> RegP!RegistryClose(p)
             /\ Reg!Crash(p) <=> RegP!Crash(p)
  <2>1. Reg!StartStep(p) <=> RegP!StartStep(p)
    BY Zenon DEF Reg!StartStep, RegP!StartStep, Reg!Listen, RegP!Listen, Reg!PortFree, RegP!PortFree,
       Reg!ListenFail, RegP!ListenFail, Reg!Register, RegP!Register, Reg!RegisterOk, RegP!RegisterOk,
       Reg!RegisterErr, RegP!RegisterErr, Reg!Serve, RegP!Serve, Reg!request, RegP!request,
       Reg!history, RegP!history
  <2>2. Reg!CloseStep(p) <=> RegP!CloseStep(p)
    BY Zenon DEF Reg!CloseStep, RegP!CloseStep, Reg!CloseBegin, RegP!CloseBegin,
       Reg!UnregisterErr, RegP!UnregisterErr, Reg!GracefulStop, RegP!GracefulStop,
       Reg!CloseReturn, RegP!CloseReturn, Reg!request, RegP!request, Reg!history, RegP!history
  <2>3. Reg!LeaseExpire(p) <=> RegP!LeaseExpire(p)
    BY Zenon DEF Reg!LeaseExpire, RegP!LeaseExpire, Reg!request, RegP!request, Reg!server, RegP!server,
       Reg!history, RegP!history
  <2>4. Reg!EtcdStep(p) <=> RegP!EtcdStep(p)
    BY <2>3, Zenon DEF Reg!EtcdStep, RegP!EtcdStep, Reg!ApplyPut, RegP!ApplyPut,
       Reg!ApplyDelete, RegP!ApplyDelete, Reg!KeyDeleted, RegP!KeyDeleted,
       Reg!ApplyStray, RegP!ApplyStray, Reg!server, RegP!server, Reg!history, RegP!history
  <2>5. Reg!RegistryClose(p) <=> RegP!RegistryClose(p)
    BY <2>3 DEF Reg!RegistryClose, RegP!RegistryClose
  <2>6. Reg!Crash(p) <=> RegP!Crash(p)
    BY Zenon DEF Reg!Crash, RegP!Crash, Reg!history, RegP!history
  <2> QED BY <2>1, <2>2, <2>4, <2>5, <2>6
<1>3. Reg!Next <=> RegP!Next
  BY <1>2 DEF Reg!Next, RegP!Next
<1>4. Reg!vars = RegP!vars
  BY DEF Reg!vars, RegP!vars
<1> QED BY <1>1, <1>3, <1>4

LEMMA SameRes ==
    /\ Res!Init <=> ResP!Init
    /\ Res!Next <=> ResP!Next
    /\ Res!vars = ResP!vars
<1>1. Res!Init <=> ResP!Init
  BY DEF Res!Init, ResP!Init, Res!NoEvent, ResP!NoEvent, Res!Threads, ResP!Threads
<1>2. Res!EtcdStep <=> ResP!EtcdStep
  BY Zenon DEF Res!EtcdStep, ResP!EtcdStep, Res!PublishPut, ResP!PublishPut,
     Res!PublishDelete, ResP!PublishDelete, Res!Publish, ResP!Publish, Res!Last, ResP!Last,
     Res!WatchLost, ResP!WatchLost, Res!forward, ResP!forward, Res!history, ResP!history
<1>3. Res!ClientStep <=> ResP!ClientStep
  BY Zenon DEF Res!ClientStep, ResP!ClientStep, Res!Subscribe, ResP!Subscribe, Res!FwdStep,
     ResP!FwdStep, Res!FwdReceive, ResP!FwdReceive, Res!FwdAbort, ResP!FwdAbort,
     Res!FwdStop, ResP!FwdStop, Res!RegistryClose, ResP!RegistryClose,
     Res!ResolveNow, ResP!ResolveNow, Res!Close, ResP!Close, Res!Select, ResP!Select,
     Res!Deliver, ResP!Deliver, Res!DrainClosed, ResP!DrainClosed,
     Res!WatchClose, ResP!WatchClose, Res!WatchCloseAgain, ResP!WatchCloseAgain,
     Res!Resolve, ResP!Resolve, Res!List, ResP!List, Res!ListFail, ResP!ListFail,
     Res!Update, ResP!Update, Res!Threads, ResP!Threads, Res!Returned, ResP!Returned,
     Res!Start, ResP!Start, Res!InFlight, ResP!InFlight, Res!Other, ResP!Other,
     Res!Closing, ResP!Closing, Res!NoEvent, ResP!NoEvent, Res!Decoded, ResP!Decoded,
     Res!ListServices, ResP!ListServices,
     Res!etcd, ResP!etcd, Res!forward, ResP!forward, Res!history, ResP!history
<1>4. Res!Next <=> ResP!Next
  BY <1>2, <1>3 DEF Res!Next, ResP!Next, Res!Panicked, ResP!Panicked
<1>5. Res!vars = ResP!vars
  BY DEF Res!vars, ResP!vars
<1> QED BY <1>1, <1>4, <1>5
-----------------------------------------------------------------------------
(* The inductive invariant: etcd's last listing is what its store lists,   *)
(* and as the client is not closed here it has not panicked.               *)
Link ==
    /\ log[Len(log)] = Listing
    /\ closeCh # "closed"

AnyInv == RegP!IInv /\ ResP!IInv /\ Link

\* Before any process starts nothing is listed.
LEMMA InitInv == Init => AnyInv
<1> SUFFICES ASSUME Init PROVE AnyInv
  OBVIOUS
<1>1. RegP!IInv
  BY SameReg, RegP!InitIInv, ServersAssumption DEF Init
<1>2. ResP!IInv
  BY SameRes, ResP!InitIInv, CloseChanAssumption, MaxRevAssumption DEF Init
<1>3. log = <<Listing>>
  BY DEF Init
<1>4. log[Len(log)] = Listing
  BY <1>3
<1>5. closeCh # "closed"
  BY CloseChanAssumption, MaxRevAssumption DEF Init, Res!Init
<1> QED BY <1>1, <1>2, <1>4, <1>5 DEF AnyInv, Link

\* A step of the servers or of etcd lists one key more, or one less, or leaves
\* the store as it is: a process has but one key (etcd/registry.go:46-66).
LEMMA OneKey ==
    ASSUME RegP!IInv, Reg!Next
    PROVE  \/ store' = store
           \/ \E k \in Keys : Listing' = Listing \cup {k}
           \/ \E k \in Listing : Listing' = Listing \ {k}
<1> USE ServersAssumption
<1>0. store \in [Keys -> Procs \cup {None}]
  BY DEF RegP!IInv, RegP!TypeOK
<1>1. ASSUME NEW p \in Procs, store' = [store EXCEPT ![Key[p]] = p]
      PROVE  \E k \in Keys : Listing' = Listing \cup {k}
  <2>1. Key[p] \in Keys /\ p # None
    OBVIOUS
  <2>2. Listing' = Listing \cup {Key[p]}
    BY <1>0, <1>1, <2>1 DEF Listing
  <2> QED BY <2>1, <2>2
<1>2. ASSUME NEW p \in Procs, store' = [store EXCEPT ![Key[p]] = None]
      PROVE  store' = store \/ \E k \in Listing : Listing' = Listing \ {k}
  <2>1. Key[p] \in Keys
    OBVIOUS
  <2>2. CASE store[Key[p]] = None
    BY <1>0, <1>2, <2>1, <2>2
  <2>3. CASE store[Key[p]] # None
    <3>1. Key[p] \in Listing
      BY <2>1, <2>3 DEF Listing
    <3>2. Listing' = Listing \ {Key[p]}
      BY <1>0, <1>2, <2>1 DEF Listing
    <3> QED BY <3>1, <3>2
  <2> QED BY <2>2, <2>3
<1>3. ASSUME NEW p \in Procs, store' = [store EXCEPT ![Key[p]] = @]
      PROVE  store' = store
  BY <1>0, <1>3
<1>4. ASSUME NEW p \in Procs, Reg!LeaseExpire(p)
      PROVE  store' = store \/ \E k \in Listing : Listing' = Listing \ {k}
  <2>1. store' = [k \in Keys |-> IF store[k] = p THEN None ELSE store[k]]
    BY <1>4 DEF Reg!LeaseExpire
  <2>2. \A k \in Keys : store[k] = p => k = Key[p]
    BY DEF RegP!IInv, RegP!Parts, RegP!Held
  <2>3. Key[p] \in Keys /\ p # None
    OBVIOUS
  <2>4. CASE store[Key[p]] = p
    <3>1. store' = [store EXCEPT ![Key[p]] = None]
      BY <1>0, <2>1, <2>2, <2>4
    <3> QED BY <3>1, <1>2
  <2>5. CASE store[Key[p]] # p
    <3>1. \A k \in Keys : store'[k] = store[k]
      BY <2>1, <2>2, <2>5
    <3>2. store' = store
      BY <1>0, <2>1, <3>1
    <3> QED BY <3>2
  <2> QED BY <2>4, <2>5
<1>5. ASSUME NEW p \in Procs, Reg!ApplyPut(p)
      PROVE  store' = store \/ \E k \in Keys : Listing' = Listing \cup {k}
  <2>1. CASE lease[p]
    BY <1>1, <1>5, <2>1 DEF Reg!ApplyPut
  <2>2. CASE ~lease[p]
    BY <1>3, <1>5, <2>2 DEF Reg!ApplyPut
  <2> QED BY <2>1, <2>2
<1>6. ASSUME NEW p \in Procs, Reg!ApplyDelete(p)
      PROVE  store' = store \/ \E k \in Listing : Listing' = Listing \ {k}
  <2>1. CASE del[p] = "sent"
    BY <1>2, <1>6, <2>1 DEF Reg!ApplyDelete, Reg!KeyDeleted
  <2>2. CASE del[p] # "sent"
    BY <1>3, <1>6, <2>2 DEF Reg!ApplyDelete, Reg!KeyDeleted
  <2> QED BY <2>1, <2>2
<1>7. ASSUME NEW p \in Procs, Reg!ApplyStray(p)
      PROVE  \/ store' = store
             \/ \E k \in Keys : Listing' = Listing \cup {k}
             \/ \E k \in Listing : Listing' = Listing \ {k}
  <2>1. CASE store' = [store EXCEPT ![Key[p]] = p]
    BY <1>1, <2>1
  <2>2. CASE store' = [store EXCEPT ![Key[p]] = @]
    BY <1>3, <2>2
  <2>3. CASE store' = [store EXCEPT ![Key[p]] = None]
    BY <1>2, <2>3
  <2> QED BY <1>7, <2>1, <2>2, <2>3 DEF Reg!ApplyStray
<1>8. ASSUME NEW p \in Procs, Reg!StartStep(p) \/ Reg!CloseStep(p) \/ Reg!Crash(p)
      PROVE  store' = store
  BY <1>8 DEF Reg!StartStep, Reg!CloseStep, Reg!Crash, Reg!Listen, Reg!ListenFail, Reg!Register,
     Reg!RegisterOk, Reg!RegisterErr, Reg!Serve, Reg!CloseBegin, Reg!UnregisterErr,
     Reg!GracefulStop, Reg!CloseReturn
<1> HIDE ServersAssumption
<1> QED
  BY <1>4, <1>5, <1>6, <1>7, <1>8 DEF Reg!Next, Reg!EtcdStep, Reg!RegistryClose

\* A step of the servers is one of etcd's for the client, or nothing.
LEMMA ServersSeen ==
    ASSUME AnyInv, ServerStep
    PROVE  [Res!Next]_Res!vars /\ Link'
<1>0. ResP!TypeOK /\ RegP!IInv /\ Link
  BY DEF AnyInv, ResP!IInv
<1>1. CASE store' = store
  <2>1. UNCHANGED client
    BY <1>1 DEF ServerStep, Publish
  <2>2. Listing' = Listing
    BY <1>1 DEF Listing
  <2> QED BY <1>0, <2>1, <2>2 DEF client, Res!vars, Link
<1>2. CASE store' # store
  <2>s. log \in Seq(SUBSET Keys) /\ Res!Last(log) = Listing
    BY <1>0 DEF ResP!TypeOK, Res!Last, Link
  <2>1. PICK e \in {"PUT", "DELETE"} :
           /\ e = IF Listing' \subseteq Listing /\ Listing' # Listing THEN "DELETE" ELSE "PUT"
           /\ Res!Publish(e, Listing')
    BY <1>2 DEF ServerStep, Publish
  <2>2. Res!PublishPut \/ Res!PublishDelete
    <3>1. CASE \E k \in Keys : Listing' = Listing \cup {k}
      <4>1. e = "PUT"
        BY <2>1, <3>1
      <4> QED BY <2>1, <2>s, <3>1, <4>1 DEF Res!PublishPut
    <3>2. CASE \E k \in Listing : Listing' = Listing \ {k}
      <4>1. e = "DELETE"
        BY <2>1, <3>2
      <4> QED BY <2>1, <2>s, <3>2, <4>1 DEF Res!PublishDelete
    <3> QED BY <1>0, <1>2, <3>1, <3>2, OneKey DEF ServerStep
  <2>3. log' = Append(log, Listing')
    BY <2>1 DEF Res!Publish
  <2>4. Listing' \in SUBSET Keys
    BY DEF Listing
  <2>5. log'[Len(log')] = Listing'
    BY <2>s, <2>3, <2>4, AppendProperties
  <2>6. closeCh' = closeCh
    BY <2>1 DEF Res!Publish
  <2> QED BY <1>0, <2>2, <2>5, <2>6 DEF Res!Next, Res!EtcdStep, Link
<1> QED BY <1>1, <1>2

\* A step of the client is the client's, and leaves etcd's listing alone.
LEMMA ClientSeen ==
    ASSUME AnyInv, ClientStep \/ WatchLost
    PROVE  Res!Next /\ UNCHANGED Reg!vars /\ Link'
<1>0. ~Res!Panicked
  BY DEF AnyInv, Link, ResP!IInv, ResP!Places, ResP!Panicked, Res!Panicked
<1>1. Res!Next
  BY <1>0 DEF ClientStep, WatchLost, Res!Next, Res!EtcdStep, Res!ClientStep, Res!FwdStep, Res!Select
<1>2. UNCHANGED servers
  BY DEF ClientStep, WatchLost
<1>3. log' = log /\ closeCh' = closeCh
  BY DEF ClientStep, WatchLost, Res!WatchLost, Res!Subscribe, Res!FwdReceive, Res!Deliver,
     Res!ResolveNow, Res!Resolve, Res!List, Res!ListFail, Res!Update, Res!etcd
<1>4. Listing' = Listing
  BY <1>2 DEF servers, Listing
<1> QED BY <1>1, <1>2, <1>3, <1>4 DEF AnyInv, Link, servers, Reg!vars

\* A step of the composition is a step of each part, or none.
LEMMA StepsOfBoth ==
    ASSUME AnyInv, [Next]_vars
    PROVE  [Reg!Next]_Reg!vars /\ [Res!Next]_Res!vars /\ Link'
<1>1. CASE ServerStep
  BY <1>1, ServersSeen DEF ServerStep
<1>2. CASE ClientStep \/ WatchLost
  BY <1>2, ClientSeen
<1>3. CASE UNCHANGED vars
  BY <1>3 DEF vars, servers, client, Reg!vars, Res!vars, AnyInv, Link, Listing
<1> QED BY <1>1, <1>2, <1>3 DEF Next

LEMMA AnyKept == AnyInv /\ [Next]_vars => AnyInv'
<1> SUFFICES ASSUME AnyInv, [Next]_vars PROVE AnyInv'
  OBVIOUS
<1>1. [Reg!Next]_Reg!vars /\ [Res!Next]_Res!vars /\ Link'
  BY StepsOfBoth
<1>2. RegP!IInv'
  BY <1>1, SameReg, RegP!InvStep, ServersAssumption DEF AnyInv, Reg!vars, RegP!vars
<1>3. ResP!IInv'
  BY <1>1, SameRes, ResP!InvStep, CloseChanAssumption, MaxRevAssumption DEF AnyInv, Res!vars, ResP!vars
<1> QED BY <1>1, <1>2, <1>3 DEF AnyInv

LEMMA AnyInvariant == Spec => []AnyInv
BY InitInv, AnyKept, PTL DEF Spec

-----------------------------------------------------------------------------
(***************************************************************************)
(* The composition implements both parts: it adds nothing to what servers  *)
(* do with etcd, and to the client the servers are such writers of one key *)
(* at a time as Resolution assumes.  About instanceKey                     *)
(* (etcd/registry.go:46-66, 201) and the watch of the service's prefix.    *)
(***************************************************************************)
THEOREM PartsImplemented == Spec => Reg!Spec /\ Res!Spec
<1>1. Init => Reg!Init /\ Res!Init
  BY DEF Init
<1>2. AnyInv /\ [Next]_vars => [Reg!Next]_Reg!vars /\ [Res!Next]_Res!vars
  BY StepsOfBoth
<1> QED BY <1>1, <1>2, AnyInvariant, PTL DEF Spec, Reg!Spec, Res!Spec

(***************************************************************************)
(* The client's variables keep their types, whatever the servers do.       *)
(* About resolver.go and registry/etcd/registry.go:120-160.                *)
(***************************************************************************)
THEOREM ClientTyped == Spec => []TypeOK
<1>1. AnyInv => TypeOK
  <2>1. ResP!TypeOK <=> Res!TypeOK
    BY DEF ResP!TypeOK, Res!TypeOK, ResP!Threads, Res!Threads, ResP!EventRecords,
           Res!EventRecords, ResP!NoEvent, Res!NoEvent
  <2> QED BY <2>1 DEF AnyInv, ResP!IInv, TypeOK
<1> QED BY <1>1, AnyInvariant, PTL

(***************************************************************************)
(* Once everything has settled, the client's view is what etcd holds of    *)
(* the servers, unless a resolve crossed another or the last one failed.   *)
(* About resolver.go:120-126 fed by servers that start, close and crash.   *)
(***************************************************************************)
THEOREM ClientIsFresh == Spec => []Fresh
<1>1. AnyInv => Fresh
  BY DEF AnyInv, Fresh, Res!Fresh, ResP!IInv, ResP!CaughtUp, ResP!Told, ResP!Closing,
         Res!Quiescent, Res!Told, Res!Closing
<1> QED BY <1>1, AnyInvariant, PTL

(***************************************************************************)
(* The client of these servers implements Directory: what it balances over *)
(* is always a listing that etcd had, and only a resolve that overlapped   *)
(* another moves it back.  About resolve(), resolver.go:71-89.             *)
(***************************************************************************)
THEOREM ClientImplements == Spec => Implements
<1>1. Spec => ResP!Spec
  <2>1. Init => ResP!Init
    BY SameRes DEF Init
  <2>2. AnyInv /\ [Next]_vars => [ResP!Next]_ResP!vars
    BY StepsOfBoth, SameRes DEF Res!vars, ResP!vars
  <2> QED BY <2>1, <2>2, AnyInvariant, PTL DEF Spec, ResP!Spec
<1>2. ResP!Spec => ResP!Implements
  BY ResP!Refinement, CloseChanAssumption, MaxRevAssumption
<1>3. ResP!Dir!Init <=> Res!Dir!Init
  BY DEF ResP!Dir!Init, Res!Dir!Init
<1>4. [ResP!Dir!Next]_ResP!Dir!vars => [Res!Dir!Next]_Res!Dir!vars
  BY DEF ResP!Dir!Next, Res!Dir!Next, ResP!Dir!vars, Res!Dir!vars,
         ResP!Dir!Publish, Res!Dir!Publish, ResP!Dir!Refresh, Res!Dir!Refresh
<1> QED BY <1>1, <1>2, <1>3, <1>4, PTL
        DEF ResP!Implements, ResP!Dir!Spec, Implements, Res!Implements, Res!Dir!Spec

\* No goroutine of the client has anything left to do, no two of its
\* resolutions crossed, and none failed.
Settled == Res!Quiescent /\ ~raced /\ ~failed

\* A settled client shows what etcd lists: it has read the last revision, its
\* channel of events being empty and no answer being on its way.
LEMMA SettledShowsStore == AnyInv /\ Settled => Shown = Listing
<1> SUFFICES ASSUME AnyInv, Settled PROVE Shown = Listing
  OBVIOUS
<1>1. view = Len(log)
  BY DEF Settled, AnyInv, ResP!IInv, ResP!CaughtUp, ResP!Told, ResP!Closing, Res!Quiescent, Res!Told
<1>2. Len(log) # 0
  BY DEF AnyInv, ResP!IInv, ResP!TypeOK
<1> QED BY <1>1, <1>2 DEF Shown, AnyInv, Link

(***************************************************************************)
(* However many servers and keys: when a server that served has been       *)
(* closed without an error, and the client has settled without a race or a *)
(* failure, the client shows the address only for another process.  About  *)
(* Server.Close (server.go:85-98) and resolve (resolver.go:71-126).        *)
(***************************************************************************)
THEOREM ClosedIsNotShown == Spec => []ClosedNotShown
<1>1. AnyInv => ClosedNotShown
  <2> SUFFICES ASSUME AnyInv, NEW p \in Procs,
                      close[p] = "done", start[p] = "stopped", p \notin early,
                      Res!Quiescent, ~raced, ~failed, Key[p] \in Shown
               PROVE  \E q \in Procs \ {p} : store[Key[p]] = q
    BY DEF ClosedNotShown
  <2>1. Settled
    BY DEF Settled
  <2>2. Key[p] \in Listing
    BY <2>1, SettledShowsStore
  <2>3. store[Key[p]] \in Procs
    BY <2>2 DEF Listing, AnyInv, RegP!IInv, RegP!TypeOK
  <2>4. store[Key[p]] # p
    BY DEF AnyInv, RegP!IInv, RegP!Parts, RegP!Unlisted, RegP!ClosePlaces, RegP!Listed
  <2> QED BY <2>3, <2>4
<1> QED BY <1>1, AnyInvariant, PTL

-----------------------------------------------------------------------------
(***************************************************************************)
(* What a settled client balances over is registered, and registered by    *)
(* somebody: a process whose key the address is, whose lease lives, and    *)
(* which holds its port, unless it has died before its lease ran out or    *)
(* was closed before it served.  About Server.Start and Close              *)
(* (server.go:51-98), instanceKey (etcd/registry.go:201) and resolve       *)
(* (resolver.go:95-126).                                                   *)
(***************************************************************************)
ShownIsBacked ==
    Settled => \A k \in Shown : \E p \in Procs :
                  /\ Key[p] = k /\ store[k] = p /\ lease[p]
                  /\ bound[p] \/ crashed[p] \/ p \in early

(***************************************************************************)
(* A settled client balances over every server that serves and was not     *)
(* asked to close, while its lease lives and no stray request of another   *)
(* process hit its key.  About the same code, from the server's side.      *)
(***************************************************************************)
ServingIsShown ==
    Settled => \A p \in WithRegistry :
                  /\ start[p] = "serving" /\ ~crashed[p] /\ lease[p]
                  /\ tries[p] = 0 /\ Reg!OwnKey(p) /\ Key[p] \notin late
                  => Key[p] \in Shown

(***************************************************************************)
(* However many servers, keys and revisions: what a settled client shows   *)
(* is backed by a process.  About server.go:51-98, etcd/registry.go:46-66  *)
(* and resolver.go:95-126.                                                 *)
(***************************************************************************)
THEOREM ShownIsServed == Spec => []ShownIsBacked
<1>1. AnyInv => ShownIsBacked
  <2> SUFFICES ASSUME AnyInv, Settled, NEW k \in Shown
               PROVE  \E p \in Procs :
                         /\ Key[p] = k /\ store[k] = p /\ lease[p]
                         /\ bound[p] \/ crashed[p] \/ p \in early
    BY DEF ShownIsBacked
  <2>1. k \in Keys /\ store[k] # None
    BY SettledShowsStore DEF Listing
  <2>2. store[k] \in Procs
    BY <2>1 DEF AnyInv, RegP!IInv, RegP!TypeOK
  <2>3. Key[store[k]] = k /\ lease[store[k]]
    BY <2>1, <2>2 DEF AnyInv, RegP!IInv, RegP!Parts, RegP!Held
  <2>4. bound[store[k]] \/ crashed[store[k]] \/ store[k] \in early
    BY <2>2, <2>3, RegP!BoundByInv, ServersAssumption
    DEF AnyInv, RegP!BoundWhileListed, RegP!Listed
  <2> QED BY <2>2, <2>3, <2>4
<1> QED BY <1>1, AnyInvariant, PTL

(***************************************************************************)
(* However many servers, keys and revisions: a settled client shows every  *)
(* server that serves undisturbed.  About the same code.                   *)
(***************************************************************************)
THEOREM ServersAreShown == Spec => []ServingIsShown
<1>1. AnyInv => ServingIsShown
  <2> SUFFICES ASSUME AnyInv, Settled, NEW p \in WithRegistry,
                      start[p] = "serving", ~crashed[p], lease[p],
                      tries[p] = 0, Reg!OwnKey(p), Key[p] \notin late
               PROVE  Key[p] \in Shown
    BY DEF ServingIsShown
  <2>1. RegP!OwnKey(p)
    BY DEF Reg!OwnKey, RegP!OwnKey
  <2>2. store[Key[p]] = p
    BY <2>1, RegP!ListedByInv, ServersAssumption
    DEF AnyInv, RegP!ServingListed, RegP!Listed
  <2>3. Key[p] \in Listing
    BY <2>2, ServersAssumption DEF Listing
  <2> QED BY <2>3, SettledShowsStore
<1> QED BY <1>1, AnyInvariant, PTL
=============================================================================
