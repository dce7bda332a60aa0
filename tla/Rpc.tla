--------------------------------- MODULE Rpc ---------------------------------
(***************************************************************************)
(* The RPC framework (rpc/): calls of one client over pooled connections   *)
(* to a server that handles each connection in a goroutine of its own.     *)
(* tcp.ReadMsg is a stub that panics; it is also modelled as its callers   *)
(* expect it written, returning one message, an error or io.EOF.           *)
(***************************************************************************)
EXTENDS RpcMessage

CONSTANTS
    RpcCalls,   \* calls of the client, each with a goroutine of its own
    MaxCap,     \* connections the pool opens at most at a time (30 in the code)
    MaxIdle,    \* and keeps at most (20 in the code)
    Metas,      \* which keys of metadata calls have
    MaxConns,   \* bound on the connections opened altogether
    Nobody      \* no call

VARIABLES
    setup,     \* codes of the client and of the server, its services, ReadMsg
    caller,    \* who made the call: "idle", "select", "returned", "panicked"
    outcome,   \* what the call gave
    meta,      \* the keys of the call's metadata
    ended,     \* the call's context has ended
    worker,    \* the goroutine of Invoke
    value,     \* its resp and err: a response, or what failed
    held,      \* the connection it has, or had
    idle, waiters,            \* the pool: idle connections, calls in Get
    conn,      \* a connection: "unopened", "open", "closed", "broken"
    inbox, outbox,            \* messages on their way
    handler,   \* handleConn: "none", "read", "returned"
    alive      \* the processes that run, and the server's listener

vars == <<setup, caller, outcome, meta, ended, worker, value, held, idle,
          waiters, conn, inbox, outbox, handler, alive>>
callVars == <<caller, outcome, meta, ended, worker, value, held>>
poolVars == <<idle, waiters>>
netVars  == <<conn, inbox, outbox>>

Conns == 1 .. MaxConns
Keys == {"one-way", "deadline"}
Errors == {"error", "one-way"}
None == [error |-> <<>>, data |-> <<>>, id |-> Nobody]

TypeOK ==
    /\ caller \in [RpcCalls -> {"idle", "select", "returned", "panicked"}]
    /\ outcome \in [RpcCalls -> {"none", "error", "one-way", "context", "panic",
                                 "answer"}]
    /\ meta \in [RpcCalls -> SUBSET Keys] /\ ended \in [RpcCalls -> BOOLEAN]
    /\ worker \in [RpcCalls -> {"none", "get", "wait", "write", "read", "put",
                                "signal", "done"}]
    /\ held \in [RpcCalls -> Conns \cup {0}]
    /\ idle \in Seq(Conns) /\ waiters \in Seq(RpcCalls)
    /\ conn \in [Conns -> {"unopened", "open", "closed", "broken"}]
    /\ handler \in [Conns -> {"none", "read", "returned"}]
    /\ alive \subseteq {"client", "server", "listener"}

\* The code of a serializer or compressor stands for its registration.

\* Mutant of NewServer: the compressor that does nothing is not registered.
NewServer_Bare == [serializers |-> {1}, compressors |-> {}]

NewServer == [serializers |-> {1}, compressors |-> {0}]

AllCodes == [serializers |-> {1, 2}, compressors |-> {0, 1}]
Service == <<"u">>
Method == <<"g">>
Silent == <<"q">>
Name == <<"n">>   \* the method that Service demands of every service

\* A service is registered under its name, with every method reflection finds,
\* whatever its shape: one that the stub's Invoke expects is "fit"; one may have
\* "no result", and Name has "no request", no second parameter that is a pointer.
RegisterService(service) ==
    [codes |-> NewServer, services |-> {service},
     methods |-> [m \in {Method, Silent, Name} |->
                    IF m = Method THEN "fit"
                    ELSE IF m = Silent THEN "no result" ELSE "no request"],
     method |-> Method, serializer |-> 1, compressor |-> 0, reader |-> "written"]

\* The settings looked at: a JSON client, and a proto client at a server with
\* the base codes and at one that knows them all; clients that ask for another
\* method, or for none there is with codes that are not there; and ReadMsg as
\* it is.
Usual == RegisterService(Service)
Proto == [Usual EXCEPT !.serializer = 2]
Full == [Proto EXCEPT !.codes = AllCodes]
Setups ==
    {Usual, Proto, Full, [Full EXCEPT !.method = Silent], [Usual EXCEPT !.method = Name],
     [Proto EXCEPT !.method = <<"x">>, !.compressor = 1],
     [Usual EXCEPT !.reader = "panics"]}

\* NewClient has dialed InitialCap connections, here one; the server has
\* registered what it will before Start, which listens.
Init ==
    /\ setup \in Setups
    /\ caller = [c \in RpcCalls |-> "idle"] /\ worker = [c \in RpcCalls |-> "none"]
    /\ outcome = [c \in RpcCalls |-> "none"] /\ meta = [c \in RpcCalls |-> {}]
    /\ ended = [c \in RpcCalls |-> FALSE] /\ value = [c \in RpcCalls |-> None]
    /\ held = [c \in RpcCalls |-> 0]
    /\ idle = <<1>> /\ waiters = <<>>
    /\ conn = [k \in Conns |-> IF k = 1 THEN "open" ELSE "unopened"]
    /\ inbox = [k \in Conns |-> <<>>] /\ outbox = [k \in Conns |-> <<>>]
    /\ handler = [k \in Conns |-> "none"]
    /\ alive = {"client", "server", "listener"}

-----------------------------------------------------------------------------
OneWay(c) == "one-way" \in meta[c]

Message(c) ==
    [id |-> c, version |-> 0,
     compressor |-> setup.compressor, serializer |-> setup.serializer,
     service |-> Service, method |-> setup.method,
     meta |-> [key \in meta[c] |-> <<"v">>],
     data |-> <<>>]   \* the encoded argument is never put into the request

Give(c, what) ==
    /\ outcome' = [outcome EXCEPT ![c] = what]
    /\ caller' = [caller EXCEPT ![c] = IF what = "panic" THEN "panicked" ELSE "returned"]

\* For another method the client makes a request of its own, without metadata,
\* and gives it to Client.Invoke.
Direct == setup.method # Method

\* The function made for a field of the service.  With a deadline and no
\* one-way key the metadata is still a nil map, and setting the key panics.
NilMap(keys) == keys = {"deadline"}
Call(c, keys) ==
    /\ caller[c] = "idle" /\ (Direct => keys = {})
    /\ meta' = [meta EXCEPT ![c] = keys]
    /\ \/ ~Direct /\ Give(c, "error") /\ UNCHANGED worker   \* Encode fails
       \/ NilMap(keys) /\ Give(c, "panic") /\ UNCHANGED worker
       \/ /\ ~NilMap(keys) /\ ended[c]
          /\ Give(c, "context") /\ UNCHANGED worker
       \/ /\ ~NilMap(keys) /\ ~ended[c]
          /\ worker' = [worker EXCEPT ![c] = "get"]
          /\ caller' = [caller EXCEPT ![c] = "select"]
          /\ UNCHANGED outcome
    /\ UNCHANGED <<setup, ended, value, held, poolVars, netVars, handler, alive>>

Goto(c, place) == worker' = [worker EXCEPT ![c] = place]
Result(c, v) == value' = [value EXCEPT ![c] = v]
Failed(what) == [None EXCEPT !.error = <<what>>]
Opened == Cardinality({k \in Conns : conn[k] \in {"open", "broken"}})

\* Get takes the idle connection that has waited longest, or dials, or waits
\* until one is put back, whatever becomes of the context.
GetIdle(c) ==
    /\ worker[c] = "get" /\ idle # <<>>
    /\ held' = [held EXCEPT ![c] = Head(idle)] /\ idle' = Tail(idle)
    /\ Goto(c, "write")
    /\ UNCHANGED <<setup, caller, outcome, meta, ended, value, waiters, netVars,
                   handler, alive>>

GetNew(c) ==
    /\ worker[c] = "get" /\ idle = <<>> /\ Opened < MaxCap
    /\ \/ /\ "listener" \in alive
          /\ \E k \in Conns :
                /\ conn[k] = "unopened" /\ \A j \in 1 .. k - 1 : conn[j] # "unopened"
                /\ conn' = [conn EXCEPT ![k] = "open"]
                /\ held' = [held EXCEPT ![c] = k]
          /\ Goto(c, "write") /\ UNCHANGED value
       \/ /\ Result(c, Failed("error")) /\ Goto(c, "signal")   \* the dial fails
          /\ UNCHANGED <<held, conn>>
    /\ UNCHANGED <<setup, caller, outcome, meta, ended, poolVars, inbox, outbox,
                   handler, alive>>

GetWaits(c) ==
    /\ worker[c] = "get" /\ idle = <<>> /\ Opened >= MaxCap
    /\ waiters' = Append(waiters, c)
    /\ Goto(c, "wait")
    /\ UNCHANGED <<setup, caller, outcome, meta, ended, value, held, idle,
                   netVars, handler, alive>>

\* Mutant of Write: the connection is put back before the answer is read.
Write_PutsBack(c) ==
    /\ worker[c] = "write"
    /\ inbox' = [inbox EXCEPT ![held[c]] = Append(@, EncodeReq(Message(c), <<>>))]
    /\ meta[c] = {} /\ idle' = Append(idle, held[c])
    /\ Goto(c, "read")
    /\ UNCHANGED <<setup, caller, outcome, meta, ended, value, held, waiters, conn,
                   outbox, handler, alive>>

\* A write on a connection that is open reaches it; on a broken one it fails.
Write(c) ==
    /\ worker[c] = "write"
    /\ \E order \in SetToSeqs(meta[c]) :
          IF conn[held[c]] = "open"
          THEN /\ inbox' = [inbox EXCEPT ![held[c]] =
                                Append(@, EncodeReq(Message(c), order))]
               /\ IF OneWay(c)
                  THEN Result(c, Failed("one-way")) /\ Goto(c, "put")
                  ELSE Goto(c, "read") /\ UNCHANGED value
          ELSE Result(c, Failed("error")) /\ Goto(c, "put") /\ UNCHANGED inbox
    /\ UNCHANGED <<setup, caller, outcome, meta, ended, held, poolVars, conn,
                   outbox, handler, alive>>

\* The next message on the connection is the answer: its id is not looked at.
Read(c) ==
    /\ worker[c] = "read" /\ setup.reader = "written"
    /\ \/ /\ outbox[held[c]] # <<>>
          /\ Result(c, DecodeResp(Head(outbox[held[c]])))
          /\ outbox' = [outbox EXCEPT ![held[c]] = Tail(@)]
       \/ /\ conn[held[c]] = "broken"
          /\ Result(c, Failed("error"))
          /\ UNCHANGED outbox
    /\ Goto(c, "put")
    /\ UNCHANGED <<setup, caller, outcome, meta, ended, held, poolVars, conn,
                   inbox, handler, alive>>

\* ReadMsg as it is: the goroutine's panic ends the client's process.
ReadPanics(c) ==
    /\ worker[c] = "read" /\ setup.reader = "panics"
    /\ alive' = alive \ {"client"}
    /\ UNCHANGED <<setup, callVars, poolVars, netVars, handler>>

\* The deferred Put: to the first that waits, to the idle ones, or closed.
PutBack(c) ==
    IF waiters # <<>>
    THEN /\ held' = [held EXCEPT ![Head(waiters)] = held[c]]
         /\ worker' = [worker EXCEPT ![c] = "signal", ![Head(waiters)] = "write"]
         /\ waiters' = Tail(waiters)
         /\ UNCHANGED <<idle, conn>>
    ELSE /\ IF Len(idle) < MaxIdle
            THEN idle' = Append(idle, held[c]) /\ UNCHANGED conn
            ELSE conn' = [conn EXCEPT ![held[c]] = "closed"] /\ UNCHANGED idle
         /\ Goto(c, "signal")
         /\ UNCHANGED <<held, waiters>>

Put(c) ==
    /\ worker[c] = "put"
    /\ PutBack(c)
    /\ UNCHANGED <<setup, caller, outcome, meta, ended, value, inbox, outbox,
                   handler, alive>>

\* The pool drops a connection that was idle for too long.
Expire ==
    /\ idle # <<>> /\ \E c \in RpcCalls : worker[c] = "get"
    /\ conn' = [conn EXCEPT ![Head(idle)] = "closed"] /\ idle' = Tail(idle)
    /\ UNCHANGED <<setup, callVars, waiters, inbox, outbox, handler, alive>>

\* What becomes of a result.  The function made for a field returns an error if
\* it cannot uncompress or decode the answer's data; otherwise an answer without
\* an error ends in a zero reflect.Value, at which reflect panics.
Outcomes(v) ==
    IF v.error = <<"one-way">> THEN {"one-way"}
    ELSE IF Direct /\ v.id # Nobody THEN {"answer"}
    ELSE IF v.error # <<>> THEN {"error"} ELSE {"error", "panic"}

\* The goroutine's send on ch meets the select of Invoke.
Signal(c) ==
    /\ worker[c] = "signal" /\ caller[c] = "select"
    /\ Goto(c, "done")
    /\ \E what \in Outcomes(value[c]) : Give(c, what)
    /\ UNCHANGED <<setup, meta, ended, value, held, poolVars, netVars, handler,
                   alive>>

\* Mutant of LeaveByContext: the context is looked at only before the send.
LeaveByContext_Early(c) ==
    /\ caller[c] = "select" /\ ended[c] /\ worker[c] = "get"
    /\ Give(c, "context")
    /\ UNCHANGED <<setup, meta, ended, worker, value, held, poolVars, netVars,
                   handler, alive>>

LeaveByContext(c) ==
    /\ caller[c] = "select" /\ ended[c]
    /\ Give(c, "context")
    /\ UNCHANGED <<setup, meta, ended, worker, value, held, poolVars, netVars,
                   handler, alive>>

End(c) ==
    /\ ~ended[c] /\ caller[c] \in {"idle", "select"}
    /\ ended' = [ended EXCEPT ![c] = TRUE]
    /\ UNCHANGED <<setup, caller, outcome, meta, worker, value, held, poolVars,
                   netVars, handler, alive>>

-----------------------------------------------------------------------------
\* The connections of a process that is gone are reset.
Reset(ks) ==
    /\ conn' = [k \in Conns |-> IF k \in ks /\ conn[k] = "open" THEN "broken"
                                ELSE conn[k]]
    /\ inbox' = [k \in Conns |-> IF k \in ks THEN <<>> ELSE inbox[k]]
    /\ outbox' = [k \in Conns |-> IF k \in ks THEN <<>> ELSE outbox[k]]

ServerDies ==
    /\ alive' = alive \ {"server", "listener"}
    /\ Reset(Conns)
    /\ UNCHANGED handler

\* Server.Close ends the listener, and what it has not accepted; handlers go on.
\* (Start then prints Accept's error again and again: its == does not match.)
CloseListener ==
    /\ "listener" \in alive
    /\ alive' = alive \ {"listener"}
    /\ Reset({k \in Conns : handler[k] = "none"})
    /\ UNCHANGED <<setup, callVars, poolVars, handler>>

Accept(k) ==
    /\ "listener" \in alive
    /\ handler[k] = "none" /\ conn[k] \in {"open", "closed"}
    /\ IF setup.reader = "panics"
       THEN ServerDies
       ELSE handler' = [handler EXCEPT ![k] = "read"] /\ UNCHANGED <<netVars, alive>>
    /\ UNCHANGED <<setup, callVars, poolVars>>

Answer(req, error, data) ==
    [id |-> req.id, version |-> req.version, compressor |-> req.compressor,
     serializer |-> req.serializer, error |-> error, data |-> data]

\* Without data gzip has nothing to open, JSON nothing to parse, and proto all
\* it needs.
UnCompressFails(req) == req.compressor = 1 /\ req.data = <<>>
DecodeFails(req) == req.serializer = 1 /\ req.data = <<>>
Known(req) ==
    req.service \in setup.services /\ req.method \in DOMAIN setup.methods

\* The stub makes the request from the method's second parameter.  Then a code
\* nobody registered is a nil interface in the table, and using it panics, the
\* compressor first.  At last it takes the first result of the call; a method
\* that Call rejects, or whose second result is no error, panics there too.
Panics(req) ==
    /\ Known(req)
    /\ \/ setup.methods[req.method] = "no request"
       \/ req.compressor \notin setup.codes.compressors
       \/ /\ ~UnCompressFails(req)
          /\ \/ req.serializer \notin setup.codes.serializers
             \/ ~DecodeFails(req) /\ setup.methods[req.method] = "no result"

\* What Server.Invoke and the stub's Invoke may answer.
Answers(req) ==
    IF ~Known(req) \/ UnCompressFails(req) \/ DecodeFails(req)
    THEN {Answer(req, <<"invalid">>, <<>>)}
    ELSE {Answer(req, <<"failed">>, <<>>), Answer(req, <<>>, <<"reply">>)}

\* One turn of handleConn.  After io.EOF it reads again, which changes nothing.
Serve(k) ==
    /\ handler[k] = "read" /\ inbox[k] # <<>>
    /\ LET req == DecodeReq(Head(inbox[k]))
       IN  IF Panics(req) THEN ServerDies
           ELSE /\ inbox' = [inbox EXCEPT ![k] = Tail(@)]
                /\ IF "one-way" \in DOMAIN req.meta \/ conn[k] # "open"
                   THEN UNCHANGED outbox
                   ELSE \E answer \in Answers(req) :
                           outbox' = [outbox EXCEPT ![k] =
                                         Append(@, EncodeResp(answer))]
                /\ UNCHANGED <<conn, handler, alive>>
    /\ UNCHANGED <<setup, callVars, poolVars>>

\* Any other error of ReadMsg ends the handler, which leaves the connection.
HandlerReturns(k) ==
    /\ handler[k] = "read" /\ conn[k] = "broken"
    /\ handler' = [handler EXCEPT ![k] = "returned"]
    /\ UNCHANGED <<setup, callVars, poolVars, netVars, alive>>

Break(k) ==
    /\ conn[k] = "open"
    /\ Reset({k})
    /\ UNCHANGED <<setup, callVars, poolVars, handler, alive>>

-----------------------------------------------------------------------------
\* What the client's goroutines do once there is a call.
Run(c) ==
    \/ GetIdle(c) \/ GetNew(c) \/ GetWaits(c) \/ Write(c) \/ Read(c)
    \/ ReadPanics(c) \/ Put(c) \/ Signal(c) \/ LeaveByContext(c)

Next ==
    \/ /\ "client" \in alive
       /\ \/ \E c \in RpcCalls :
                Run(c) \/ End(c) \/ \E keys \in Metas : Call(c, keys)
          \/ Expire
    \/ /\ "server" \in alive
       /\ \/ \E k \in Conns : Accept(k) \/ Serve(k) \/ HandlerReturns(k)
          \/ CloseListener
    \/ \E k \in Conns : Break(k)

Spec == Init /\ [][Next]_vars

\* A caller whose context has ended, or whose goroutine has the answer.
Waits(c) ==
    \/ ended[c] /\ caller[c] = "select"
    \/ worker[c] = "signal" /\ outcome[c] # "context"

-----------------------------------------------------------------------------
(***************************************************************************)
(* An answer is given to the call that asked for it: connections carry one *)
(* call at a time.  The exception is a connection that a one-way call has  *)
(* used: the server answers that call too, and the next one on the         *)
(* connection takes its answer for its own.  About the pool's Get and Put  *)
(* around a call, and the id that nobody compares (client.go:168-191).     *)
(***************************************************************************)
AnswersMatch ==
    \A c \in RpcCalls :
        value[c].id \in {c, Nobody}
        \/ \E o \in RpcCalls : OneWay(o) /\ held[o] = held[c]

(***************************************************************************)
(* Only three things end the server's process: ReadMsg as it is; a code    *)
(* that is a nil entry of the tables, which the codes every server         *)
(* registers are not, nor any code at a server that registered them all;   *)
(* and a request for a registered method that does not look as the stub    *)
(* expects, of which Name is always one.  No other request does, whatever  *)
(* breaks and whichever calls mix.  About NewServer, RegisterService and   *)
(* the stub (server.go:143-144, 149-164, 207-230).                         *)
(***************************************************************************)
ServerSurvives ==
    "server" \notin alive =>
        \/ setup.reader = "panics"
        \/ setup.codes # AllCodes /\ <<setup.serializer, setup.compressor>> # <<1, 0>>
        \/ /\ setup.method \in DOMAIN setup.methods
           /\ setup.methods[setup.method] # "fit"

(***************************************************************************)
(* What is on its way to the server can be cut into the request that was   *)
(* sent, its metadata included, in whatever order its map was walked.      *)
(* About the lengths that are computed first and the buffer they size      *)
(* (message/request.go:40-150).                                            *)
(***************************************************************************)
RequestsIntact ==
    \A k \in Conns : \A n \in DOMAIN inbox[k] :
        LET req == DecodeReq(inbox[k][n])
        IN  [req EXCEPT !.meta = Pairs(inbox[k][n])] = Message(req.id)

(***************************************************************************)
(* A call with a deadline to which no answer came is over with an error:   *)
(* that of its context, or another, as TestTimeout wants it                *)
(* (client_e2e_test.go:226-270).  About the metadata that holds the        *)
(* deadline, and Invoke's select (client.go:88-94, 158-164).               *)
(***************************************************************************)
TimeoutIsError ==
    \A c \in RpcCalls :
        /\ "deadline" \in meta[c] /\ value[c].id = Nobody
        /\ caller[c] \in {"returned", "panicked"}
        => outcome[c] \in {"context", "error", "one-way"}
=============================================================================
