-------------------------------- MODULE Fanout --------------------------------
(***************************************************************************)
(* What the three cluster interceptors (cluster/) share: a client calls    *)
(* once or twice, the interceptor starts a goroutine per listed instance,  *)
(* and the answers go through an unbuffered channel that the client put    *)
(* into its context and that it may receive from in one of three ways.     *)
(***************************************************************************)
EXTENDS Integers

CONSTANTS
    Instances,  \* what the registry may list
    Calls       \* bound on the calls, numbered from 1, one after the other

VARIABLES
    call,      \* a call: "idle", "listing", "report" an error on the channel,
               \* "waiting" for its goroutines, "returned"
    go,        \* the goroutine of a call for an instance: "none", "dial",
               \* "invoke", "decode", "send", "sendErr", "done"
    err,       \* a call's error variable, captured by its goroutines
    result,    \* what a marked call returned
    marked,    \* the calls whose context carries the key
    closer,    \* the calls that still have to close the channel
    chan,      \* the channel of the context: "open", "closed"
    mode,      \* the client receives "one", "range"s over the channel, or does
               \* so "after" the call
    receiver,  \* "away", "ready" to receive, "gone"
    received,  \* answers received, as <<call, instance>>
    early,     \* the client was ready when its first call listed (history)
    ctxDone,   \* the context ended
    panicked   \* a send on, or a close of, the closed channel

vars == <<call, go, err, result, marked, closer, chan, mode, receiver,
          received, early, ctxDone, panicked>>
callVars == <<call, go, err, result, marked, closer>>
chanVars == <<chan, mode, receiver, received, early, panicked>>

ListError == "ListError"   \* stands for the instance when there was no list
Errors == {"nil", "error"}

TypeOK ==
    /\ call \in [Calls -> {"idle", "listing", "report", "waiting", "returned"}]
    /\ go \in [Calls -> [Instances -> {"none", "dial", "invoke", "decode",
                                       "send", "sendErr", "done"}]]
    /\ err \in [Calls -> Errors] /\ result \in [Calls -> Errors]
    /\ marked \subseteq Calls /\ closer \subseteq Calls
    /\ chan \in {"open", "closed"}
    /\ mode \in {"one", "range", "after"}
    /\ receiver \in {"away", "ready", "gone"}
    /\ received \subseteq Calls \X (Instances \cup {ListError})
    /\ early \in BOOLEAN /\ ctxDone \in BOOLEAN /\ panicked \in BOOLEAN

\* UsingBroadCast makes the channel, before anything is called.
Init ==
    /\ call = [c \in Calls |-> "idle"]
    /\ go = [c \in Calls |-> [i \in Instances |-> "none"]]
    /\ err = [c \in Calls |-> "nil"] /\ result = [c \in Calls |-> "nil"]
    /\ marked = {} /\ closer = {}
    /\ chan = "open"
    /\ mode \in {"one", "range", "after"}
    /\ receiver = "away"
    /\ received = {}
    /\ early = FALSE /\ ctxDone = FALSE /\ panicked = FALSE

Turn(c) == call[c] = "idle" /\ \A d \in Calls : d < c => call[d] = "returned"

\* A call without the key is handed to the invoker as it is, whose result it
\* returns and nothing here depends on.
Plain(c) ==
    /\ Turn(c)
    /\ call' = [call EXCEPT ![c] = "returned"]
    /\ UNCHANGED <<go, err, result, marked, closer, chanVars, ctxDone>>

Marked(c) ==
    /\ Turn(c)
    /\ call' = [call EXCEPT ![c] = "listing"]
    /\ marked' = marked \cup {c}
    /\ early' = IF marked = {} THEN receiver = "ready" ELSE early
    /\ UNCHANGED <<go, err, result, closer, chan, mode, receiver, received,
                   ctxDone, panicked>>

\* Mutant of Spawn: the loop runs once too often.
Spawn_OneMore(c, listed) ==
    go' = [go EXCEPT ![c] = [i \in Instances \cup {ListError} |->
                               IF i \in Instances \ listed THEN "none" ELSE "dial"]]

\* A goroutine is started for every instance listed, possibly none.
Spawn(c, listed) ==
    go' = [go EXCEPT ![c] = [i \in Instances |->
                               IF i \in listed THEN "dial" ELSE "none"]]

Goto(c, i, place) == go' = [go EXCEPT ![c][i] = place]
Ended(c) == \A i \in Instances : go[c][i] \in {"none", "done"}

\* The client comes to receive, and sees that the channel is closed.
Ready ==
    /\ receiver = "away"
    /\ mode = "after" => \E c \in marked : call[c] = "returned"
    /\ receiver' = "ready"
    /\ UNCHANGED <<callVars, chan, mode, received, early, ctxDone, panicked>>

SeeClosed ==
    /\ receiver = "ready" /\ chan = "closed"
    /\ receiver' = "gone"
    /\ UNCHANGED <<callVars, chan, mode, received, early, ctxDone, panicked>>

Cancel ==
    /\ ~ctxDone
    /\ ctxDone' = TRUE
    /\ UNCHANGED <<callVars, chanVars>>

\* An unbuffered send meets a waiting receiver, or panics when it is too late.
CanSend == receiver = "ready" \/ chan = "closed"
Deliver(c, i) ==
    /\ CanSend
    /\ IF chan = "closed"
       THEN panicked' = TRUE /\ UNCHANGED <<receiver, received>>
       ELSE /\ received' = received \cup {<<c, i>>}
            /\ receiver' = IF mode = "one" THEN "gone" ELSE "away"
            /\ UNCHANGED panicked
    /\ UNCHANGED <<chan, mode, early>>

Close ==
    /\ chan' = "closed"
    /\ panicked' = (chan = "closed")
    /\ UNCHANGED <<mode, receiver, received, early>>
=============================================================================
