---------------------------- MODULE Registration ----------------------------
(***************************************************************************)
(* The life of servers (server.go) in the registry (registry/etcd).        *)
(*                                                                         *)
(* A process runs one Server.  One of its goroutines is in Start, another  *)
(* may call Close at any time.  Requests to etcd take effect on their own  *)
(* time: a caller that times out or dies may leave a Put or a Delete       *)
(* behind that is applied later.  A key belongs to the lease of the        *)
(* process that put it last; it goes away with that lease, or when anybody *)
(* deletes it.  A process that restarts, or is replaced by another one at  *)
(* the same address, is a second process with the same port and key.       *)
(***************************************************************************)
EXTENDS Naturals

CONSTANTS
    Procs,          \* processes, each of which runs one Server
    WithRegistry,   \* those whose Server was given a registry
    Ports, Port,    \* Port[p]: the host and port the Server of p listens on
    Keys, Key,      \* Key[p]: the etcd key of that address
    None,           \* no process
    MaxTries        \* bound: calls of Close per process

\* A second call of Close is made only when the first returned an error.
ASSUME ProcsAssumption ==
    /\ WithRegistry \subseteq Procs
    /\ Port \in [Procs -> Ports]
    /\ Key \in [Procs -> Keys]
    /\ \A p, q \in Procs : Port[p] = Port[q] => Key[p] = Key[q]
    /\ None \notin Procs
    /\ MaxTries \in Nat

VARIABLES
    start,      \* where Start is
    close,      \* where Close is
    tries,      \* calls of Close so far
    put,        \* the Put of Register: "none", "sent", "ok" or "err"
    del,        \* the Delete of Unregister: likewise, or "blank" while one
                \* without a key is on its way
    inst,       \* serviceInstance is set
    bound,      \* the listener is open
    stopped,    \* the grpc.Server has been stopped
    crashed,    \* the process is gone
    lease,      \* the session's lease is alive
    store,      \* etcd: the process whose Put made each key, or None
    strays,     \* requests nobody waits for that etcd may still apply
    \* History variables: no action reads them.
    late,       \* keys to which a stray request has been applied
    raced       \* processes whose Close was called before Start reached Serve

server  == <<start, close, tries, inst, bound, stopped, crashed>>
request == <<put, del, strays>>
history == <<late, raced>>
vars    == <<start, close, tries, put, del, inst, bound, stopped, crashed,
             lease, store, strays, late, raced>>

PortFree(p) == \A q \in Procs : Port[q] = Port[p] => ~bound[q]

\* Deleting the key of the serviceInstance that Close read when it was called;
\* the zero instance names no key.
KeyDeleted(p) == [store EXCEPT ![Key[p]] = IF del[p] = "sent" THEN None ELSE @]

-----------------------------------------------------------------------------
Init ==
    /\ start = [p \in Procs |-> "idle"]
    /\ close = [p \in Procs |-> "idle"]
    /\ tries = [p \in Procs |-> 0]
    /\ put = [p \in Procs |-> "none"]
    /\ del = [p \in Procs |-> "none"]
    /\ inst = [p \in Procs |-> FALSE]
    /\ bound = [p \in Procs |-> FALSE]
    /\ stopped = [p \in Procs |-> FALSE]
    /\ crashed = [p \in Procs |-> FALSE]
    /\ lease = [p \in Procs |-> TRUE]
    /\ store = [k \in Keys |-> None]
    /\ strays = {}
    /\ late = {} /\ raced = {}

-----------------------------------------------------------------------------
(* Start.                                                                  *)

Listen(p) ==
    /\ start[p] = "idle" /\ PortFree(p)
    /\ bound' = [bound EXCEPT ![p] = TRUE]
    /\ start' = [start EXCEPT ![p] = "listening"]
    /\ UNCHANGED <<close, tries, inst, stopped, crashed, lease, store>>
    /\ UNCHANGED request /\ UNCHANGED history

\* Mutant of ListenFail: serviceInstance is set before the port is ours.
ListenFail_Named(p) ==
    /\ start[p] = "idle"
    /\ start' = [start EXCEPT ![p] = "failed"]
    /\ inst' = [inst EXCEPT ![p] = TRUE]
    /\ UNCHANGED <<close, tries, bound, stopped, crashed, lease, store>>
    /\ UNCHANGED request /\ UNCHANGED history

\* The port is taken, or the address is no good.
ListenFail(p) ==
    /\ start[p] = "idle"
    /\ start' = [start EXCEPT ![p] = "failed"]
    /\ UNCHANGED <<close, tries, inst, bound, stopped, crashed, lease, store>>
    /\ UNCHANGED request /\ UNCHANGED history

\* serviceInstance is set and Register sends its Put.
Register(p) ==
    /\ start[p] = "listening" /\ p \in WithRegistry
    /\ inst' = [inst EXCEPT ![p] = TRUE]
    /\ put' = [put EXCEPT ![p] = "sent"]
    /\ start' = [start EXCEPT ![p] = "registering"]
    /\ UNCHANGED <<close, tries, bound, stopped, crashed, lease, store, del,
                   strays>>
    /\ UNCHANGED history

RegisterOk(p) ==
    /\ start[p] = "registering" /\ put[p] = "ok"
    /\ start' = [start EXCEPT ![p] = "registered"]
    /\ UNCHANGED <<close, tries, inst, bound, stopped, crashed, lease, store>>
    /\ UNCHANGED request /\ UNCHANGED history

\* An error of etcd, or registerTimeout, when the Put may be on its way or
\* even done.  Start returns; the listener stays open.
RegisterErr(p) ==
    /\ start[p] = "registering"
    /\ start' = [start EXCEPT ![p] = "failed"]
    /\ put' = [put EXCEPT ![p] = "err"]
    /\ \/ UNCHANGED strays
       \/ put[p] = "sent" /\ strays' = strays \cup {<<"put", p>>}
    /\ UNCHANGED <<close, tries, inst, bound, stopped, crashed, lease, store,
                   del>>
    /\ UNCHANGED history

\* grpc.Server.Serve: a stopped server closes the listener and returns.
Serve(p) ==
    /\ start[p] = IF p \in WithRegistry THEN "registered" ELSE "listening"
    /\ start' = [start EXCEPT ![p] = IF stopped[p] THEN "stopped"
                                                   ELSE "serving"]
    /\ bound' = [bound EXCEPT ![p] = ~stopped[p]]
    /\ UNCHANGED <<close, tries, inst, stopped, crashed, lease, store>>
    /\ UNCHANGED request /\ UNCHANGED history

-----------------------------------------------------------------------------
(* Close.                                                                  *)

CloseBegin(p) ==
    /\ close[p] = "idle" /\ tries[p] < MaxTries
    /\ tries' = [tries EXCEPT ![p] = @ + 1]
    /\ IF p \in WithRegistry
         THEN /\ close' = [close EXCEPT ![p] = "unregistering"]
              /\ del' = [del EXCEPT ![p] = IF inst[p] THEN "sent"
                                                      ELSE "blank"]
              /\ UNCHANGED <<crashed, bound>>
         ELSE \* s.registry is nil: the call panics and takes the process down
              /\ close' = [close EXCEPT ![p] = "panicked"]
              /\ crashed' = [crashed EXCEPT ![p] = TRUE]
              /\ bound' = [bound EXCEPT ![p] = FALSE]
              /\ UNCHANGED del
    /\ raced' = IF start[p] \in {"idle", "listening", "registering",
                                 "registered"}
                THEN raced \cup {p} ELSE raced
    /\ UNCHANGED <<start, inst, stopped, lease, store, put, strays, late>>

\* Mutant of UnregisterErr: Close ignores the error and stops the server.
UnregisterErr_Ignored(p) ==
    /\ close[p] = "unregistering"
    /\ close' = [close EXCEPT ![p] = "stopping"]
    /\ stopped' = [stopped EXCEPT ![p] = TRUE]
    /\ start' = [start EXCEPT ![p] = IF @ = "serving" THEN "stopped" ELSE @]
    /\ bound' = [bound EXCEPT ![p] = @ /\ start[p] # "serving"]
    /\ del' = [del EXCEPT ![p] = "err"]
    /\ UNCHANGED <<tries, inst, crashed, lease, store, put, strays>>
    /\ UNCHANGED history

\* Mutant of UnregisterErr: the outcome is left as "unknown".
UnregisterErr_Unknown(p) ==
    /\ close[p] = "unregistering"
    /\ close' = [close EXCEPT ![p] = "idle"]
    /\ del' = [del EXCEPT ![p] = "unknown"]
    /\ UNCHANGED <<start, tries, inst, bound, stopped, crashed, lease, store,
                   put, strays>>
    /\ UNCHANGED history

\* Unregister fails; Close returns the error without stopping the server.
UnregisterErr(p) ==
    /\ close[p] = "unregistering"
    /\ close' = [close EXCEPT ![p] = "idle"]
    /\ del' = [del EXCEPT ![p] = "err"]
    /\ \/ UNCHANGED strays
       \/ del[p] = "sent" /\ strays' = strays \cup {<<"delete", p>>}
    /\ UNCHANGED <<start, tries, inst, bound, stopped, crashed, lease, store,
                   put>>
    /\ UNCHANGED history

\* Mutant of GracefulStop: it does not wait for Unregister.
GracefulStop_Early(p) ==
    /\ close[p] = "unregistering"
    /\ close' = [close EXCEPT ![p] = "stopping"]
    /\ stopped' = [stopped EXCEPT ![p] = TRUE]
    /\ IF start[p] = "serving"
         THEN /\ start' = [start EXCEPT ![p] = "stopped"]
              /\ bound' = [bound EXCEPT ![p] = FALSE]
         ELSE UNCHANGED <<start, bound>>
    /\ UNCHANGED <<tries, inst, crashed, lease, store>>
    /\ UNCHANGED request /\ UNCHANGED history

\* GracefulStop closes the listener that Serve was given, if any.
GracefulStop(p) ==
    /\ close[p] = "unregistering" /\ del[p] = "ok"
    /\ close' = [close EXCEPT ![p] = "stopping"]
    /\ stopped' = [stopped EXCEPT ![p] = TRUE]
    /\ IF start[p] = "serving"
         THEN /\ start' = [start EXCEPT ![p] = "stopped"]
              /\ bound' = [bound EXCEPT ![p] = FALSE]
         ELSE UNCHANGED <<start, bound>>
    /\ UNCHANGED <<tries, inst, crashed, lease, store>>
    /\ UNCHANGED request /\ UNCHANGED history

\* The last connection has drained.
CloseReturn(p) ==
    /\ close[p] = "stopping"
    /\ close' = [close EXCEPT ![p] = "done"]
    /\ UNCHANGED <<start, tries, inst, bound, stopped, crashed, lease, store>>
    /\ UNCHANGED request /\ UNCHANGED history

-----------------------------------------------------------------------------
(* etcd and the environment.                                               *)

\* A Put takes effect, unless its lease is gone.
ApplyPut(p) ==
    /\ put[p] = "sent"
    /\ put' = [put EXCEPT ![p] = IF lease[p] THEN "ok" ELSE "err"]
    /\ store' = [store EXCEPT ![Key[p]] = IF lease[p] THEN p ELSE @]
    /\ UNCHANGED <<lease, del, strays>>
    /\ UNCHANGED server /\ UNCHANGED history

ApplyDelete(p) ==
    /\ del[p] \in {"sent", "blank"}
    /\ del' = [del EXCEPT ![p] = "ok"]
    /\ store' = KeyDeleted(p)
    /\ UNCHANGED <<lease, put, strays>>
    /\ UNCHANGED server /\ UNCHANGED history

\* Mutant of ApplyStray: the Put was made without the session's lease.
ApplyStray_NoLease(p) ==
    /\ <<"put", p>> \in strays
    /\ strays' = strays \ {<<"put", p>>}
    /\ store' = [store EXCEPT ![Key[p]] = p]
    /\ late' = late \cup {Key[p]}
    /\ UNCHANGED <<lease, put, del, raced>>
    /\ UNCHANGED server

\* A request whose caller has gone takes effect all the same.
ApplyStray(p) ==
    /\ \/ /\ <<"put", p>> \in strays
          /\ strays' = strays \ {<<"put", p>>}
          /\ store' = [store EXCEPT ![Key[p]] = IF lease[p] THEN p ELSE @]
       \/ /\ <<"delete", p>> \in strays
          /\ strays' = strays \ {<<"delete", p>>}
          /\ store' = [store EXCEPT ![Key[p]] = None]
    /\ late' = late \cup {Key[p]}
    /\ UNCHANGED <<lease, put, del, raced>>
    /\ UNCHANGED server

\* The lease ends: etcd hears no keep-alive for its time to live, because the
\* process is dead or cut off.  Nothing in the process watches for it.
LeaseExpire(p) ==
    /\ lease[p]
    /\ lease' = [lease EXCEPT ![p] = FALSE]
    /\ store' = [k \in Keys |-> IF store[k] = p THEN None ELSE store[k]]
    /\ UNCHANGED server /\ UNCHANGED request /\ UNCHANGED history

\* Registry.Close revokes the lease of its session.
RegistryClose(p) == p \in WithRegistry /\ LeaseExpire(p)

\* The process dies.  What it has sent may be on its way.
Crash(p) ==
    /\ crashed' = [crashed EXCEPT ![p] = TRUE]
    /\ bound' = [bound EXCEPT ![p] = FALSE]
    /\ put' = [put EXCEPT ![p] = IF @ = "sent" THEN "err" ELSE @]
    /\ del' = [del EXCEPT ![p] = IF @ \in {"sent", "blank"} THEN "err" ELSE @]
    /\ \E lost \in SUBSET {"put", "delete"} :
         strays' = strays \cup
             {r \in {<<"put", p>>, <<"delete", p>>} :
                 /\ r[1] \notin lost
                 /\ IF r[1] = "put" THEN put[p] = "sent"
                                    ELSE del[p] = "sent"}
    /\ UNCHANGED <<start, close, tries, inst, stopped, lease, store>>
    /\ UNCHANGED history

-----------------------------------------------------------------------------
StartStep(p) == \/ Listen(p) \/ ListenFail(p) \/ Register(p) \/ RegisterOk(p)
                \/ RegisterErr(p) \/ Serve(p)
CloseStep(p) == \/ CloseBegin(p) \/ UnregisterErr(p) \/ GracefulStop(p)
                \/ CloseReturn(p)
EtcdStep(p)  == \/ ApplyPut(p) \/ ApplyDelete(p) \/ ApplyStray(p)
                \/ LeaseExpire(p)

Next == \E p \in Procs :
    \/ ~crashed[p] /\ (StartStep(p) \/ CloseStep(p) \/ RegistryClose(p)
                         \/ Crash(p))
    \/ EtcdStep(p)

Spec == Init /\ [][Next]_vars

(* The lease of a dead process runs out.                                   *)
FairSpec == Spec /\ \A p \in Procs : WF_vars(crashed[p] /\ LeaseExpire(p))

-----------------------------------------------------------------------------
(* Properties.                                                             *)

TypeOK ==
    /\ start \in [Procs -> {"idle", "listening", "registering", "registered",
                            "serving", "stopped", "failed"}]
    /\ close \in [Procs -> {"idle", "unregistering", "stopping", "done",
                            "panicked"}]
    /\ tries \in [Procs -> 0 .. MaxTries]
    /\ put \in [Procs -> {"none", "sent", "ok", "err"}]
    /\ del \in [Procs -> {"none", "sent", "blank", "ok", "err"}]
    /\ inst \in [Procs -> BOOLEAN]
    /\ bound \in [Procs -> BOOLEAN]
    /\ stopped \in [Procs -> BOOLEAN]
    /\ crashed \in [Procs -> BOOLEAN]
    /\ lease \in [Procs -> BOOLEAN]
    /\ store \in [Keys -> Procs \cup {None}]
    /\ strays \subseteq {"put", "delete"} \X Procs
    /\ late \subseteq Keys /\ raced \subseteq Procs

Listed(p) == store[Key[p]] = p

(***************************************************************************)
(* A listed process holds its port, unless it has died and its lease has   *)
(* yet to run out, or its Close overtook its Start.  Even the Put of a     *)
(* Start that gave up is covered: its listener is never closed.  About the *)
(* order of Start and of Close, server.go:51-98.                           *)
(***************************************************************************)
BoundWhileListed ==
    \A p \in Procs : Listed(p) => bound[p] \/ crashed[p] \/ p \in raced

(***************************************************************************)
(* A process that serves and was never asked to close is listed as long as *)
(* its lease lives, whatever became of earlier processes at its address,   *)
(* unless a stray request of theirs was applied.  It takes that only       *)
(* processes with the same port share its key, which addresses such as     *)
(* ":8081" do not ensure.  About instanceKey, Unregister by key alone, and *)
(* Close, which frees the port after the key (server.go:90-94).            *)
(***************************************************************************)
OwnKey(p) == \A q \in Procs : Key[q] = Key[p] => Port[q] = Port[p]

ServingListed ==
    \A p \in WithRegistry :
        /\ start[p] = "serving" /\ ~crashed[p] /\ lease[p] /\ tries[p] = 0
        /\ OwnKey(p) /\ Key[p] \notin late
        => Listed(p)

(***************************************************************************)
(* When Close has returned without an error and did not overtake Start, a  *)
(* process that served is neither listed nor bound, and stays so.  About   *)
(* Server.Close, server.go:85-98.                                          *)
(***************************************************************************)
ClosedMeansGone ==
    \A p \in Procs :
        close[p] = "done" /\ start[p] = "stopped" /\ p \notin raced
        => ~Listed(p) /\ ~bound[p]

(***************************************************************************)
(* From some time on no dead process is listed, stray Puts included.       *)
(* About registering under the session's lease, etcd/registry.go:55.       *)
(***************************************************************************)
DeadDelisted == \A p \in Procs : <>[](crashed[p] => ~Listed(p))

(***************************************************************************)
(* A registered port is an open port.  About server.go:57, "the port is    *)
(* always started first, and registered then".                             *)
(***************************************************************************)
ListedIsOpen == \A p \in Procs : Listed(p) /\ ~crashed[p] => bound[p]
=============================================================================
