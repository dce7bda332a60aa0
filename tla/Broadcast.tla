------------------------------ MODULE Broadcast ------------------------------
(***************************************************************************)
(* The interceptor of cluster/broadcast: an errgroup of one goroutine per  *)
(* instance, all of which decode their answer into the caller's one reply. *)
(* There is no channel.                                                    *)
(***************************************************************************)
EXTENDS Fanout

VARIABLES
    reply,   \* a call's reply: "none", the instance decoded, "mixed" when two
             \* were decoded at once
    heard,   \* the instances whose answers were decoded (history)
    last     \* the one among them that was done last (history)

replyVars == <<reply, heard, last>>

List(c, listed) ==
    /\ call[c] = "listing"
    /\ Spawn(c, listed)
    /\ call' = [call EXCEPT ![c] = "waiting"]
    /\ UNCHANGED <<err, result, replyVars, marked, closer, chanVars, ctxDone>>

ListFails(c) ==
    /\ call[c] = "listing"
    /\ call' = [call EXCEPT ![c] = "returned"]
    /\ result' = [result EXCEPT ![c] = "error"]
    /\ UNCHANGED <<go, err, replyVars, marked, closer, chanVars, ctxDone>>

\* A goroutine's error is kept if it is the group's first.
Fail(c, i) ==
    /\ go[c][i] \in {"dial", "invoke"}
    /\ err' = [err EXCEPT ![c] = "error"]
    /\ Goto(c, i, "done")
    /\ UNCHANGED <<call, result, replyVars, marked, closer, chanVars, ctxDone>>

Dial(c, i) ==
    /\ go[c][i] = "dial"
    /\ Goto(c, i, "invoke")
    /\ UNCHANGED <<call, err, result, replyVars, marked, closer, chanVars, ctxDone>>

Decoding(c) == {i \in Instances : go[c][i] = "decode"}

\* The invoker decodes the answer into reply, at the same time as others may.
Invoke(c, i) ==
    /\ go[c][i] = "invoke"
    /\ Goto(c, i, "decode")
    /\ reply' = [reply EXCEPT ![c] = IF Decoding(c) = {} THEN i ELSE "mixed"]
    /\ UNCHANGED <<call, err, result, heard, last, marked, closer, chanVars,
                   ctxDone>>

Decoded(c, i) ==
    /\ go[c][i] = "decode"
    /\ Goto(c, i, "done")
    /\ heard' = [heard EXCEPT ![c] = @ \cup {i}]
    /\ last' = [last EXCEPT ![c] = i]
    /\ UNCHANGED <<call, err, result, reply, marked, closer, chanVars, ctxDone>>

Return(c) ==
    /\ call' = [call EXCEPT ![c] = "returned"]
    /\ result' = [result EXCEPT ![c] = err[c]]
    /\ UNCHANGED <<go, err, replyVars, marked, closer, chanVars, ctxDone>>

\* Mutant of Wait: the first error ends the wait.
Wait_First(c) ==
    /\ call[c] = "waiting" /\ (Ended(c) \/ err[c] = "error")
    /\ Return(c)

Wait(c) == call[c] = "waiting" /\ Ended(c) /\ Return(c)

Run(c) ==
    \/ ListFails(c) \/ Wait(c)
    \/ \E listed \in SUBSET Instances : List(c, listed)
    \/ \E i \in Instances :
          Fail(c, i) \/ Dial(c, i) \/ Invoke(c, i) \/ Decoded(c, i)

Begin(c) == (Plain(c) \/ Marked(c)) /\ UNCHANGED replyVars

Next ==
    \/ \E c \in Calls : Begin(c) \/ Run(c)
    \/ Cancel /\ UNCHANGED replyVars

NoReply ==
    /\ reply = [c \in Calls |-> "none"] /\ last = [c \in Calls |-> "none"]
    /\ heard = [c \in Calls |-> {}]

Spec == Init /\ NoReply /\ [][Next]_<<vars, replyVars>>

-----------------------------------------------------------------------------
Asked(c) == {i \in Instances : go[c][i] # "none"}

(***************************************************************************)
(* Nobody writes the reply of a call that has returned, though one of its  *)
(* instances failed before the others were done.  A call without error has *)
(* decoded an answer of every instance it asked, and its reply is the last *)
(* of them, unless two were decoded at once: that mixture is LastReply's.  *)
(* About errgroup's Wait with one shared reply                             *)
(* (broadcast/cluster.go:38-59).                                           *)
(***************************************************************************)
ReplySettled ==
    \A c \in marked : call[c] = "returned" =>
        /\ Decoding(c) = {} /\ Ended(c)
        /\ result[c] = "nil" =>
             /\ heard[c] = Asked(c)
             /\ heard[c] # {} => last[c] \in heard[c] /\ reply[c] \in {last[c], "mixed"}

(***************************************************************************)
(* The reply of a call without error is the last value returned, as the    *)
(* comment says (broadcast/cluster.go:57).  About the goroutines that      *)
(* decode into one reply without a lock (broadcast/cluster.go:42-53).      *)
(***************************************************************************)
LastReply ==
    \A c \in marked :
        call[c] = "returned" /\ result[c] = "nil" => reply[c] = last[c]
=============================================================================
