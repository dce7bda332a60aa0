------------------------------ MODULE ClientCalls ------------------------------
(***************************************************************************)
(* A client's calls, which run in goroutines and end with a context:       *)
(* `kind` is the cluster interceptor the client was dialed with, or "rpc"  *)
(* for the client of the RPC framework.  The latter is extended, the       *)
(* interceptors are instances, which share all but broadcast's replies.    *)
(***************************************************************************)
EXTENDS Rpc

CONSTANTS
    Instances,  \* what the registry may list
    Calls       \* the calls of a client with an interceptor

ASSUME RpcAssumption ==
    /\ MaxConns \in Nat \ {0}
    /\ Metas \subseteq SUBSET Keys
ASSUME InstancesAssumption == {"none", "mixed"} \cap Instances = {}

VARIABLES
    kind, call, go, err, result, marked, closer, chan, mode, receiver,
    received, early, ctxDone, panicked, reply, heard, last

All   == INSTANCE BroadcastAll
Fast  == INSTANCE Fastest
Reply == INSTANCE Broadcast

replyVars == <<reply, heard, last>>
clusterVars == <<call, go, err, result, marked, closer, chan, mode, receiver,
                 received, early, ctxDone, panicked, replyVars>>
allVars == <<kind, clusterVars, vars>>

AnyInit ==
    /\ kind \in {"broadcast", "broadcastall", "fastest", "rpc"}
    /\ All!Init /\ Init
    /\ kind # "rpc" => setup = Usual
    /\ kind \in {"broadcast", "rpc"} => mode = "after"
    /\ Reply!NoReply

BroadcastAllNext ==
    kind = "broadcastall" /\ All!Next /\ UNCHANGED <<kind, replyVars, vars>>
FastestNext ==
    kind = "fastest" /\ Fast!Next /\ UNCHANGED <<kind, replyVars, vars>>
BroadcastNext == kind = "broadcast" /\ Reply!Next /\ UNCHANGED <<kind, vars>>
RpcNext == kind = "rpc" /\ Next /\ UNCHANGED <<kind, clusterVars>>

AnyNext == BroadcastAllNext \/ FastestNext \/ BroadcastNext \/ RpcNext

\* Everything but the client's decisions to call and to cancel: the scheduler
\* runs each goroutine, a dial and an invocation end (with an error when the
\* context does), and the client comes to receive as its mode says.
Program ==
    \/ /\ kind = "broadcastall" /\ ~panicked
       /\ (\E c \in Calls : All!Run(c)) /\ UNCHANGED <<kind, replyVars, vars>>
    \/ /\ kind = "fastest" /\ ~panicked
       /\ (\E c \in Calls : Fast!Run(c)) /\ UNCHANGED <<kind, replyVars, vars>>
    \/ /\ kind = "broadcast"
       /\ (\E c \in Calls : Reply!Run(c)) /\ UNCHANGED <<kind, vars>>
    \/ /\ kind = "rpc" /\ "client" \in alive
       /\ (\E c \in RpcCalls : Run(c)) /\ UNCHANGED <<kind, clusterVars>>
    \/ /\ kind \in {"broadcastall", "fastest"} /\ ~panicked
       /\ (All!Ready \/ All!SeeClosed) /\ UNCHANGED <<kind, replyVars, vars>>

\* No more is assumed of the server than that it may answer.  One condition is
\* enough for all goroutines: none of them runs for ever.
AnySpec == AnyInit /\ [][AnyNext]_allVars /\ WF_allVars(Program)

\* The type invariants of the modules.
TypesOK ==
    /\ All!TypeOK /\ TypeOK
    /\ reply \in [Calls -> Instances \cup {"none", "mixed"}]
    /\ last \in [Calls -> Instances \cup {"none"}]
    /\ heard \in [Calls -> SUBSET Instances]

\* BroadcastAll and Fastest: one use of a marked context never panics
\* (broadcastall/cluster.go:39-75, fastest/cluster.go:73-103).
PanicNeedsReuse == All!PanicNeedsReuse

\* BroadcastAll: a channel that is closed has given every answer
\* (broadcastall/cluster.go:43-75).
AnswersBeforeClose == kind = "broadcastall" => All!ClosedAfterAll

\* Fastest: a client that waits from the start gets an answer
\* (fastest/cluster.go:95-98).
FirstAnswer == kind = "fastest" => Fast!FirstAnswer

\* Broadcast: the reply is settled when the call returns
\* (broadcast/cluster.go:38-59).
ReplySettled == kind = "broadcast" => Reply!ReplySettled

\* A goroutine or a call that is still there waits to report a failed dial or
\* a failed listing, and nobody will receive it.
Stuck(c) == call[c] = "report" \/ \E i \in Instances : go[c][i] = "sendErr"
Settled ==
    \A c \in Calls :
        /\ \A i \in Instances : go[c][i] \in {"none", "sendErr", "done"}
        /\ call[c] \in {"idle", "returned"} \/ Stuck(c)
        /\ Stuck(c) => receiver = "gone" \/ mode = "after"

(***************************************************************************)
(* When the context ends, calls return and goroutines end, but for those   *)
(* that report an error the selects do not cover: they leak, and hold      *)
(* their call, when the client has what it wanted or receives only after   *)
(* the call.  About broadcastall/cluster.go:39, 50, 62-66 and              *)
(* fastest/cluster.go:88, 95-102.                                          *)
(***************************************************************************)
OnlyErrorsLeak == []<>(~ctxDone \/ panicked \/ Settled)

(* Rpc: AnswersMatch, RequestsIntact and ServerSurvives are that module's own. *)

(***************************************************************************)
(* A caller does not stay in Invoke once its context has ended, whatever   *)
(* the pool and the server do, and a goroutine that has a result hands it  *)
(* over.  Two exceptions are the code's: a caller may end in a panic       *)
(* (TimeoutIsError) instead of a return, and the goroutine whose caller    *)
(* left first stays for ever.  About Invoke's select and its unbuffered    *)
(* channel (rpc/client.go:150-164).                                        *)
(***************************************************************************)
CallsEnd ==
    []<>(kind # "rpc" \/ "client" \notin alive
            \/ \A c \in RpcCalls : ~Waits(c))
=============================================================================
