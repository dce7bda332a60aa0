----------------------------- MODULE BroadcastAll -----------------------------
(***************************************************************************)
(* The interceptor of cluster/broadcastall: the call returns at once, its  *)
(* goroutines send every instance's answer on the channel, and another     *)
(* goroutine closes the channel after the last of them.                    *)
(***************************************************************************)
EXTENDS Fanout

List(c, listed) ==
    /\ call[c] = "listing"
    /\ Spawn(c, listed)
    /\ call' = [call EXCEPT ![c] = "waiting"]
    /\ closer' = closer \cup {c}
    /\ UNCHANGED <<err, result, marked, chanVars, ctxDone>>

\* The error goes to the channel, with no way out; nobody closes the channel.
ListFails(c) ==
    /\ call[c] = "listing"
    /\ call' = [call EXCEPT ![c] = "report"]
    /\ UNCHANGED <<go, err, result, marked, closer, chanVars, ctxDone>>

Report(c) ==
    /\ call[c] = "report"
    /\ Deliver(c, ListError)
    /\ call' = [call EXCEPT ![c] = "returned"]
    /\ UNCHANGED <<go, err, result, marked, closer, ctxDone>>

\* `return err` races with the goroutines' assignments.
Return(c) ==
    /\ call[c] = "waiting"
    /\ call' = [call EXCEPT ![c] = "returned"]
    /\ result' = [result EXCEPT ![c] = err[c]]
    /\ UNCHANGED <<go, err, marked, closer, chanVars, ctxDone>>

Dial(c, i) ==
    /\ go[c][i] = "dial"
    /\ Goto(c, i, "invoke") \/ Goto(c, i, "sendErr")
    /\ UNCHANGED <<call, err, result, marked, closer, chanVars, ctxDone>>

\* The failed dial's send does not look at the context.
SendErr(c, i) ==
    /\ go[c][i] = "sendErr"
    /\ Deliver(c, i)
    /\ Goto(c, i, "done")
    /\ UNCHANGED <<call, err, result, marked, closer, ctxDone>>

Invoke(c, i) ==
    /\ go[c][i] = "invoke"
    /\ err' \in {[err EXCEPT ![c] = e] : e \in Errors}
    /\ Goto(c, i, "send")
    /\ UNCHANGED <<call, result, marked, closer, chanVars, ctxDone>>

\* Mutant of Send: without the case for the context.
Send_Waits(c, i) ==
    /\ go[c][i] = "send"
    /\ Deliver(c, i) /\ UNCHANGED err
    /\ Goto(c, i, "done")
    /\ UNCHANGED <<call, result, marked, closer, ctxDone>>

\* The select.  An answer carries no error: `er` is nil here.
Send(c, i) ==
    /\ go[c][i] = "send"
    /\ \/ Deliver(c, i) /\ UNCHANGED err
       \/ ctxDone /\ err' = [err EXCEPT ![c] = "error"] /\ UNCHANGED chanVars
    /\ Goto(c, i, "done")
    /\ UNCHANGED <<call, result, marked, closer, ctxDone>>

\* Mutant of CloseAfterAll: the channel is closed without wg.Wait.
CloseAfterAll_NoWait(c) ==
    /\ c \in closer
    /\ Close
    /\ closer' = closer \ {c}
    /\ UNCHANGED <<call, go, err, result, marked, ctxDone>>

CloseAfterAll(c) ==
    /\ c \in closer /\ Ended(c)
    /\ Close
    /\ closer' = closer \ {c}
    /\ UNCHANGED <<call, go, err, result, marked, ctxDone>>

\* What the program does by itself once the call has begun.
Run(c) ==
    \/ ListFails(c) \/ Report(c) \/ Return(c) \/ CloseAfterAll(c)
    \/ \E listed \in SUBSET Instances : List(c, listed)
    \/ \E i \in Instances :
          Dial(c, i) \/ SendErr(c, i) \/ Invoke(c, i) \/ Send(c, i)

Begin(c) == Plain(c) \/ Marked(c)

Next ==
    /\ ~panicked
    /\ \/ \E c \in Calls : Begin(c) \/ Run(c)
       \/ Ready \/ SeeClosed \/ Cancel

Spec == Init /\ [][Next]_vars

-----------------------------------------------------------------------------
(***************************************************************************)
(* A client that ranges over the channel has seen everything when it ends: *)
(* the channel is closed after some call whose every listed instance's     *)
(* answer was received, unless the context ended.  About the WaitGroup and *)
(* the closing goroutine (broadcastall/cluster.go:43-75).                  *)
(***************************************************************************)
ClosedAfterAll ==
    chan = "closed" => \E c \in marked :
        /\ Ended(c)
        /\ \A i \in Instances :
              go[c][i] = "done" => <<c, i>> \in received \/ ctxDone

(***************************************************************************)
(* One use of a marked context never panics: it takes a second call with   *)
(* the same channel.  About the sends and the close, by goroutines the     *)
(* call does not wait for (broadcastall/cluster.go:39, 50, 65, 74).        *)
(***************************************************************************)
PanicNeedsReuse == panicked => \E c, d \in marked : c # d
=============================================================================
