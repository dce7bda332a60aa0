------------------------------- MODULE Fastest -------------------------------
(***************************************************************************)
(* The interceptor of cluster/fastest: the call waits for its goroutines,  *)
(* each of which offers its answer to the client and drops it when the     *)
(* client is not waiting, and closes the channel when it returns.          *)
(***************************************************************************)
EXTENDS Fanout

\* The deferred close comes with each of the two returns.
Return(c, e) ==
    /\ Close
    /\ call' = [call EXCEPT ![c] = "returned"]
    /\ result' = [result EXCEPT ![c] = e]
    /\ UNCHANGED <<go, err, marked, closer, ctxDone>>

List(c, listed) ==
    /\ call[c] = "listing"
    /\ Spawn(c, listed)
    /\ call' = [call EXCEPT ![c] = "waiting"]
    /\ UNCHANGED <<err, result, marked, closer, chanVars, ctxDone>>

ListFails(c) == call[c] = "listing" /\ Return(c, "error")

Dial(c, i) ==
    /\ go[c][i] = "dial"
    /\ Goto(c, i, "invoke") \/ Goto(c, i, "sendErr")
    /\ UNCHANGED <<call, err, result, marked, closer, chanVars, ctxDone>>

\* The failed dial's send waits for a receiver, whatever happens.
SendErr(c, i) ==
    /\ go[c][i] = "sendErr"
    /\ Deliver(c, i)
    /\ Goto(c, i, "done")
    /\ UNCHANGED <<call, err, result, marked, closer, ctxDone>>

Invoke(c, i) ==
    /\ go[c][i] = "invoke"
    /\ err' \in {[err EXCEPT ![c] = e] : e \in Errors}
    /\ Goto(c, i, "send")
    /\ UNCHANGED <<call, result, marked, closer, chanVars, ctxDone>>

\* Mutant of Offer: both cases count as ready and the default may win.
Offer_Either(c, i) ==
    /\ go[c][i] = "send"
    /\ Deliver(c, i) \/ UNCHANGED chanVars
    /\ Goto(c, i, "done")
    /\ UNCHANGED <<call, err, result, marked, closer, ctxDone>>

\* The select takes its default only when nobody receives.
Offer(c, i) ==
    /\ go[c][i] = "send"
    /\ IF CanSend THEN Deliver(c, i) ELSE UNCHANGED chanVars
    /\ Goto(c, i, "done")
    /\ UNCHANGED <<call, err, result, marked, closer, ctxDone>>

\* The error returned is the one assigned last.
Wait(c) == call[c] = "waiting" /\ Ended(c) /\ Return(c, err[c])

Run(c) ==
    \/ ListFails(c) \/ Wait(c)
    \/ \E listed \in SUBSET Instances : List(c, listed)
    \/ \E i \in Instances :
          Dial(c, i) \/ SendErr(c, i) \/ Invoke(c, i) \/ Offer(c, i)

Begin(c) == Plain(c) \/ Marked(c)

Next ==
    /\ ~panicked
    /\ \/ \E c \in Calls : Begin(c) \/ Run(c)
       \/ Ready \/ SeeClosed \/ Cancel

Spec == Init /\ [][Next]_vars

-----------------------------------------------------------------------------
(***************************************************************************)
(* A client that waits before it calls gets an answer, the first one       *)
(* offered, as soon as one instance has been asked; a client that is late  *)
(* may get none.  About the select with a default                          *)
(* (fastest/cluster.go:95-98).                                             *)
(***************************************************************************)
FirstAnswer ==
    early /\ ~panicked /\ (\E c \in Calls, i \in Instances : go[c][i] = "done")
        => received # {}
=============================================================================
