----------------------------- MODULE ClusterProofs -----------------------------
(***************************************************************************)
(* Proofs about a client's calls, for any instances and any calls: one use *)
(* of a marked context never panics (broadcastall and fastest), a channel  *)
(* is closed only when some call's answers are all in (broadcastall), a    *)
(* client that waits gets an answer (fastest), and a reply is settled when *)
(* its call returns (broadcast).  RpcProofs has those of the RPC client.   *)
(***************************************************************************)
EXTENDS ClientCalls, RpcProofs

-----------------------------------------------------------------------------
\* BroadcastAll.

\* A call whose goroutines run, or that is to close the channel, is marked and
\* past its listing.
Belongs ==
    /\ \A c \in Calls : call[c] \in {"listing", "report", "waiting"} => c \in marked
    /\ \A c \in Calls, i \in Instances :
          go[c][i] # "none" => c \in marked /\ call[c] \in {"waiting", "returned"}
    /\ \A c \in closer : c \in marked /\ call[c] \in {"waiting", "returned"}

\* A call that has done everything, and one whose ended goroutines were heard.
Over(c) == c \notin closer /\ call[c] \in {"waiting", "returned"} /\ All!Ended(c)
AllHeard(c) ==
    \A i \in Instances : go[c][i] = "done" => <<c, i>> \in received \/ ctxDone

ClosedBy == chan = "closed" => \E c \in marked : Over(c) /\ AllHeard(c)
Heard == ~panicked => \A c \in marked : AllHeard(c)

AllInv == All!TypeOK /\ Belongs /\ ClosedBy /\ Heard /\ All!PanicNeedsReuse

-----------------------------------------------------------------------------
Slots == {"none", "dial", "invoke", "decode", "send", "sendErr", "done"}

\* A goroutine's move keeps the type of go (broadcastall/cluster.go:47-68).
LEMMA GotoTyped ==
    ASSUME All!TypeOK, NEW c \in Calls, NEW i \in Instances, NEW place \in Slots,
           All!Goto(c, i, place)
    PROVE  go' \in [Calls -> [Instances -> Slots]]
<1>1. go \in [Calls -> [Instances -> Slots]]
  BY DEF All!TypeOK, Slots
<1>2. [go[c] EXCEPT ![i] = place] \in [Instances -> Slots]
  BY <1>1
<1> QED BY <1>1, <1>2 DEF All!Goto

ChanTyped ==
    /\ chan \in {"open", "closed"} /\ mode \in {"one", "range", "after"}
    /\ receiver \in {"away", "ready", "gone"}
    /\ received \subseteq Calls \X (Instances \cup {All!ListError})
    /\ early \in BOOLEAN /\ panicked \in BOOLEAN

\* A send keeps the types of the channel's variables (broadcastall/cluster.go:39, 50, 65).
LEMMA DeliverTyped ==
    ASSUME All!TypeOK, NEW c \in Calls, NEW i \in Instances \cup {All!ListError},
           All!Deliver(c, i)
    PROVE  ChanTyped'
<1>1. ChanTyped
  BY DEF All!TypeOK, ChanTyped
<1>2. CASE chan = "closed"
  BY <1>1, <1>2 DEF All!Deliver, ChanTyped
<1>3. CASE chan # "closed"
  BY <1>1, <1>3 DEF All!Deliver, ChanTyped
<1> QED BY <1>2, <1>3

\* Type correctness of the broadcastall interceptor (broadcastall/cluster.go:30-76).
LEMMA TypeKept == All!TypeOK /\ [All!Next]_All!vars => All!TypeOK'
<1> SUFFICES ASSUME All!TypeOK, [All!Next]_All!vars PROVE All!TypeOK'
  OBVIOUS
<1> DEFINE CallTyped ==
      /\ call \in [Calls -> {"idle", "listing", "report", "waiting", "returned"}]
      /\ err \in [Calls -> All!Errors] /\ result \in [Calls -> All!Errors]
      /\ marked \subseteq Calls /\ closer \subseteq Calls
      /\ ctxDone \in BOOLEAN
<1>a. All!TypeOK <=> CallTyped /\ ChanTyped /\ go \in [Calls -> [Instances -> Slots]]
  BY DEF All!TypeOK, ChanTyped, Slots
<1>b. All!TypeOK' <=> CallTyped' /\ ChanTyped' /\ go' \in [Calls -> [Instances -> Slots]]
  BY DEF All!TypeOK, ChanTyped, Slots
<1>c. UNCHANGED All!chanVars => ChanTyped'
  BY <1>a DEF All!chanVars, ChanTyped
<1> USE DEF All!Errors, All!callVars
<1>1. ASSUME NEW c \in Calls, All!Begin(c) PROVE All!TypeOK'
  <2>1. CASE All!Plain(c)
    BY <1>a, <1>b, <1>c, <2>1 DEF All!Plain
  <2>2. CASE All!Marked(c)
    BY <1>a, <1>b, <2>2 DEF All!Marked, ChanTyped
  <2> QED BY <1>1, <2>1, <2>2 DEF All!Begin
<1>2. ASSUME NEW c \in Calls, NEW listed \in SUBSET Instances, All!List(c, listed)
      PROVE  All!TypeOK'
  <2>1. go' \in [Calls -> [Instances -> Slots]]
    BY <1>2, <1>a DEF All!List, All!Spawn, Slots
  <2> QED BY <1>a, <1>b, <1>c, <1>2, <2>1 DEF All!List
<1>3. ASSUME NEW c \in Calls, All!ListFails(c) PROVE All!TypeOK'
  BY <1>a, <1>b, <1>c, <1>3 DEF All!ListFails
<1>4. ASSUME NEW c \in Calls, All!Report(c) PROVE All!TypeOK'
  <2>1. ChanTyped'
    BY <1>4, DeliverTyped DEF All!Report
  <2> QED BY <1>a, <1>b, <1>4, <2>1 DEF All!Report
<1>5. ASSUME NEW c \in Calls, All!Return(c) PROVE All!TypeOK'
  BY <1>a, <1>b, <1>c, <1>5 DEF All!Return
<1>6. ASSUME NEW c \in Calls, All!CloseAfterAll(c) PROVE All!TypeOK'
  BY <1>a, <1>b, <1>6 DEF All!CloseAfterAll, All!Close, ChanTyped
<1>7. ASSUME NEW c \in Calls, NEW i \in Instances, All!Dial(c, i) PROVE All!TypeOK'
  <2>1. go' \in [Calls -> [Instances -> Slots]]
    BY <1>7, GotoTyped DEF All!Dial, Slots
  <2> QED BY <1>a, <1>b, <1>c, <1>7, <2>1 DEF All!Dial
<1>8. ASSUME NEW c \in Calls, NEW i \in Instances, All!SendErr(c, i) PROVE All!TypeOK'
  <2>1. go' \in [Calls -> [Instances -> Slots]]
    BY <1>8, GotoTyped DEF All!SendErr, Slots
  <2>2. ChanTyped'
    BY <1>8, DeliverTyped DEF All!SendErr
  <2> QED BY <1>a, <1>b, <1>8, <2>1, <2>2 DEF All!SendErr
<1>9. ASSUME NEW c \in Calls, NEW i \in Instances, All!Invoke(c, i) PROVE All!TypeOK'
  <2>1. go' \in [Calls -> [Instances -> Slots]]
    BY <1>9, GotoTyped DEF All!Invoke, Slots
  <2> QED BY <1>a, <1>b, <1>c, <1>9, <2>1 DEF All!Invoke
<1>10. ASSUME NEW c \in Calls, NEW i \in Instances, All!Send(c, i) PROVE All!TypeOK'
  <2>1. go' \in [Calls -> [Instances -> Slots]]
    BY <1>10, GotoTyped DEF All!Send, Slots
  <2>2. ChanTyped'
    <3>1. CASE All!Deliver(c, i)
      BY <3>1, DeliverTyped
    <3>2. CASE UNCHANGED All!chanVars
      BY <3>2, <1>c
    <3> QED BY <1>10, <3>1, <3>2 DEF All!Send
  <2>3. CallTyped'
    BY <1>a, <1>10 DEF All!Send
  <2> QED BY <1>b, <2>1, <2>2, <2>3
<1>11. CASE All!Ready \/ All!SeeClosed \/ All!Cancel
  <2>1. ChanTyped'
    BY <1>a, <1>c, <1>11 DEF All!Ready, All!SeeClosed, All!Cancel, ChanTyped
  <2> QED BY <1>a, <1>b, <1>11, <2>1 DEF All!Ready, All!SeeClosed, All!Cancel
<1>12. CASE UNCHANGED All!vars
  BY <1>12 DEF All!vars, All!TypeOK
<1> QED
  BY <1>1, <1>2, <1>3, <1>4, <1>5, <1>6, <1>7, <1>8, <1>9, <1>10, <1>11, <1>12
  DEF All!Next, All!Run

\* Goroutines belong to calls past their listing (broadcastall/cluster.go:43-75).
LEMMA PlacesKept == All!TypeOK /\ Belongs /\ [All!Next]_All!vars => Belongs'
<1> SUFFICES ASSUME All!TypeOK, Belongs, [All!Next]_All!vars PROVE Belongs'
  OBVIOUS
<1> USE DEF All!TypeOK, Belongs, All!callVars, All!chanVars, All!Turn, All!Goto, All!Spawn
<1>1. ASSUME NEW c \in Calls, All!Begin(c) PROVE Belongs'
  <2>1. CASE All!Plain(c)
    BY <2>1 DEF All!Plain
  <2>2. CASE All!Marked(c)
    BY <2>2 DEF All!Marked
  <2> QED BY <1>1, <2>1, <2>2 DEF All!Begin
<1>2. ASSUME NEW c \in Calls, NEW listed \in SUBSET Instances, All!List(c, listed)
      PROVE  Belongs'
  BY <1>2 DEF All!List
<1>3. ASSUME NEW c \in Calls, All!ListFails(c) PROVE Belongs'
  BY <1>3 DEF All!ListFails
<1>4. ASSUME NEW c \in Calls, All!Report(c) PROVE Belongs'
  BY <1>4 DEF All!Report
<1>5. ASSUME NEW c \in Calls, All!Return(c) PROVE Belongs'
  BY <1>5 DEF All!Return
<1>6. ASSUME NEW c \in Calls, All!CloseAfterAll(c) PROVE Belongs'
  BY <1>6 DEF All!CloseAfterAll
<1>7. ASSUME NEW c \in Calls, NEW i \in Instances, All!Dial(c, i) PROVE Belongs'
  BY <1>7 DEF All!Dial
<1>8. ASSUME NEW c \in Calls, NEW i \in Instances, All!SendErr(c, i) PROVE Belongs'
  BY <1>8 DEF All!SendErr
<1>9. ASSUME NEW c \in Calls, NEW i \in Instances, All!Invoke(c, i) PROVE Belongs'
  BY <1>9 DEF All!Invoke
<1>10. ASSUME NEW c \in Calls, NEW i \in Instances, All!Send(c, i) PROVE Belongs'
  BY <1>10 DEF All!Send
<1>11. CASE All!Ready \/ All!SeeClosed \/ All!Cancel
  BY <1>11 DEF All!Ready, All!SeeClosed, All!Cancel
<1>12. CASE UNCHANGED All!vars
  BY <1>12 DEF All!vars
<1> QED
  BY <1>1, <1>2, <1>3, <1>4, <1>5, <1>6, <1>7, <1>8, <1>9, <1>10, <1>11, <1>12
  DEF All!Next, All!Run

\* A call that is over stays over, and its answers stay heard.
LEMMA OverKept ==
    ASSUME All!TypeOK, Belongs, [All!Next]_All!vars, NEW d \in marked, Over(d), AllHeard(d)
    PROVE  d \in marked' /\ Over(d)' /\ AllHeard(d)'
<1> USE DEF All!TypeOK, Belongs, Over, AllHeard, All!Ended, All!Goto, All!callVars, All!chanVars
<1>1. d \in Calls
  OBVIOUS
<1>2. ASSUME NEW c \in Calls, All!Begin(c)
      PROVE  d \in marked' /\ Over(d)' /\ AllHeard(d)'
  <2>1. CASE All!Plain(c)
    BY <1>1, <2>1 DEF All!Plain, All!Turn
  <2>2. CASE All!Marked(c)
    BY <1>1, <2>2 DEF All!Marked, All!Turn
  <2> QED BY <1>2, <2>1, <2>2 DEF All!Begin
<1>3. ASSUME NEW c \in Calls, NEW listed \in SUBSET Instances, All!List(c, listed)
      PROVE  d \in marked' /\ Over(d)' /\ AllHeard(d)'
  BY <1>1, <1>3 DEF All!List, All!Spawn
<1>4. ASSUME NEW c \in Calls, All!ListFails(c) \/ All!Return(c)
      PROVE  d \in marked' /\ Over(d)' /\ AllHeard(d)'
  BY <1>1, <1>4 DEF All!ListFails, All!Return
<1>5. ASSUME NEW c \in Calls, NEW i \in Instances \cup {All!ListError}, All!Deliver(c, i)
      PROVE  received \subseteq received'
  BY <1>5 DEF All!Deliver
<1>6. ASSUME NEW c \in Calls, All!Report(c)
      PROVE  d \in marked' /\ Over(d)' /\ AllHeard(d)'
  BY <1>1, <1>5, <1>6 DEF All!Report
<1>7. ASSUME NEW c \in Calls, All!CloseAfterAll(c)
      PROVE  d \in marked' /\ Over(d)' /\ AllHeard(d)'
  BY <1>1, <1>7 DEF All!CloseAfterAll, All!Close
<1>8. ASSUME NEW c \in Calls, NEW i \in Instances,
             All!Dial(c, i) \/ All!SendErr(c, i) \/ All!Invoke(c, i) \/ All!Send(c, i)
      PROVE  d \in marked' /\ Over(d)' /\ AllHeard(d)'
  <2>1. c # d /\ go'[d] = go[d] /\ marked' = marked /\ closer' = closer
        /\ call' = call
    BY <1>1, <1>8 DEF All!Dial, All!SendErr, All!Invoke, All!Send
  <2>2. received \subseteq received' /\ ctxDone' = ctxDone
    BY <1>5, <1>8 DEF All!Dial, All!SendErr, All!Invoke, All!Send
  <2> QED BY <2>1, <2>2
<1>9. CASE All!Ready \/ All!SeeClosed \/ All!Cancel
  BY <1>1, <1>9 DEF All!Ready, All!SeeClosed, All!Cancel
<1>10. CASE UNCHANGED All!vars
  BY <1>1, <1>10 DEF All!vars
<1> QED
  BY <1>2, <1>3, <1>4, <1>6, <1>7, <1>8, <1>9, <1>10 DEF All!Next, All!Run

\* The goroutine of a call ends with its answer received, the context ended or
\* a panic (broadcastall/cluster.go:47-68).
LEMMA HeardKept ==
    ASSUME All!TypeOK, Belongs, Heard, [All!Next]_All!vars
    PROVE  Heard'
<1> SUFFICES ASSUME ~panicked', NEW d \in marked', NEW k \in Instances,
                    go'[d][k] = "done"
             PROVE  <<d, k>> \in received' \/ ctxDone'
  BY DEF Heard, AllHeard
<1> USE DEF All!TypeOK, All!callVars, All!chanVars
<1>0. marked' \subseteq Calls /\ d \in Calls
  BY TypeKept
<1>1. go[d][k] = "done" /\ received \subseteq received' /\ (ctxDone => ctxDone')
      /\ ~panicked => <<d, k>> \in received' \/ ctxDone'
  <2>1. ASSUME go[d][k] = "done", ~panicked
        PROVE  <<d, k>> \in received \/ ctxDone
    <3>1. d \in marked
      BY <1>0, <2>1 DEF Belongs
    <3> QED BY <2>1, <3>1 DEF Heard, AllHeard
  <2> QED BY <2>1
<1>2. ASSUME NEW c \in Calls, NEW i \in Instances \cup {All!ListError}, All!Deliver(c, i)
      PROVE  received' = received \cup {<<c, i>>}
  BY <1>2 DEF All!Deliver
<1>3. ASSUME NEW c \in Calls, All!Begin(c)
      PROVE  <<d, k>> \in received' \/ ctxDone'
  <2>1. CASE All!Plain(c)
    BY <1>1, <2>1 DEF All!Plain
  <2>2. CASE All!Marked(c)
    BY <1>1, <2>2 DEF All!Marked
  <2> QED BY <1>3, <2>1, <2>2 DEF All!Begin
<1>4. ASSUME NEW c \in Calls, NEW listed \in SUBSET Instances, All!List(c, listed)
      PROVE  <<d, k>> \in received' \/ ctxDone'
  BY <1>0, <1>1, <1>4 DEF All!List, All!Spawn
<1>5. ASSUME NEW c \in Calls, All!ListFails(c) \/ All!Return(c)
      PROVE  <<d, k>> \in received' \/ ctxDone'
  BY <1>1, <1>5 DEF All!ListFails, All!Return
<1>6. ASSUME NEW c \in Calls, All!Report(c)
      PROVE  <<d, k>> \in received' \/ ctxDone'
  BY <1>1, <1>2, <1>6 DEF All!Report, All!Deliver
<1>7. ASSUME NEW c \in Calls, All!CloseAfterAll(c), ~panicked
      PROVE  <<d, k>> \in received' \/ ctxDone'
  BY <1>1, <1>7 DEF All!CloseAfterAll, All!Close
<1>8. ASSUME NEW c \in Calls, NEW i \in Instances, ~panicked,
             All!Dial(c, i) \/ All!SendErr(c, i) \/ All!Invoke(c, i) \/ All!Send(c, i)
      PROVE  <<d, k>> \in received' \/ ctxDone'
  <2>1. go[d][k] = "done" \/ (d = c /\ k = i)
    BY <1>0, <1>8 DEF All!Dial, All!SendErr, All!Invoke, All!Send, All!Goto
  <2>2. CASE go[d][k] = "done"
    BY <1>1, <1>2, <1>8, <2>2 DEF All!Dial, All!SendErr, All!Invoke, All!Send
  <2>3. CASE d = c /\ k = i
    BY <1>0, <1>2, <1>8, <2>3 DEF All!Dial, All!SendErr, All!Invoke, All!Send, All!Goto
  <2> QED BY <2>1, <2>2, <2>3
<1>9. CASE All!Ready \/ All!SeeClosed \/ All!Cancel
  BY <1>1, <1>9 DEF All!Ready, All!SeeClosed, All!Cancel
<1>10. CASE UNCHANGED All!vars
  BY <1>1, <1>10 DEF All!vars
<1> QED
  BY <1>3, <1>4, <1>5, <1>6, <1>7, <1>8, <1>9, <1>10 DEF All!Next, All!Run

\* Only the closing goroutine closes the channel (broadcastall/cluster.go:70-75).
LEMMA ClosedByKept ==
    ASSUME AllInv, [All!Next]_All!vars, Heard'
    PROVE  ClosedBy'
<1> SUFFICES ASSUME chan' = "closed"
             PROVE  \E c \in marked' : Over(c)' /\ AllHeard(c)'
  BY DEF ClosedBy
<1>1. CASE chan = "closed"
  <2>1. PICK d \in marked : Over(d) /\ AllHeard(d)
    BY <1>1 DEF AllInv, ClosedBy
  <2>2. d \in marked' /\ Over(d)' /\ AllHeard(d)'
    BY <2>1, OverKept DEF AllInv
  <2> QED BY <2>2
<1>2. CASE chan # "closed"
  <2>1. PICK c \in Calls : All!CloseAfterAll(c)
    BY <1>2 DEF All!Next, All!Run, All!Begin, All!Plain, All!Marked, All!List, All!ListFails, All!Report, All!Return,
                All!Dial, All!SendErr, All!Invoke, All!Send, All!Ready, All!SeeClosed, All!Cancel, All!Deliver,
                All!chanVars, All!callVars, All!vars
  <2>2. c \in marked' /\ Over(c)'
    BY <2>1 DEF All!CloseAfterAll, AllInv, Belongs, Over, All!Ended
  <2>3. ~panicked'
    BY <1>2, <2>1 DEF All!CloseAfterAll, All!Close, AllInv, All!TypeOK
  <2>4. AllHeard(c)'
    BY <2>2, <2>3 DEF Heard
  <2> QED BY <2>2, <2>4
<1> QED BY <1>1, <1>2

\* Who panics is not the call that closed the channel (broadcastall/cluster.go:39-74).
LEMMA PanicKept ==
    ASSUME AllInv, [All!Next]_All!vars
    PROVE  All!PanicNeedsReuse'
<1> SUFFICES ASSUME panicked' PROVE \E c, d \in marked' : c # d
  BY DEF All!PanicNeedsReuse
<1>1. CASE panicked
  <2>1. UNCHANGED All!vars
    BY <1>1 DEF All!Next
  <2> QED BY <1>1, <2>1 DEF All!vars, AllInv, All!PanicNeedsReuse
<1>2. CASE ~panicked
  <2>1. PICK c \in Calls :
            \/ All!CloseAfterAll(c) \/ All!Report(c)
            \/ \E i \in Instances : All!SendErr(c, i) \/ All!Send(c, i)
    BY <1>2 DEF All!Next, All!Run, All!Begin, All!Plain, All!Marked, All!List, All!ListFails, All!Return,
                All!Dial, All!Invoke, All!Ready, All!SeeClosed, All!Cancel, All!chanVars, All!callVars, All!vars
  <2>2. c \in marked /\ marked' = marked
    BY <2>1 DEF All!CloseAfterAll, All!Report, All!SendErr, All!Send, AllInv, Belongs, All!TypeOK
  <2>3. chan = "closed"
    BY <1>2, <2>1 DEF All!CloseAfterAll, All!Close, All!Report, All!SendErr, All!Send, All!Deliver, All!chanVars
  <2>4. PICK d \in marked : Over(d)
    BY <2>3 DEF AllInv, ClosedBy
  <2>5. ~Over(c)
    BY <2>1 DEF All!CloseAfterAll, All!Report, All!SendErr, All!Send, Over, All!Ended
  <2> QED BY <2>2, <2>4, <2>5
<1> QED BY <1>1, <1>2

\* AllInv is inductive (broadcastall/cluster.go:30-76).
LEMMA AllInit == All!Init => AllInv
<1> SUFFICES ASSUME All!Init PROVE AllInv
  OBVIOUS
<1>1. All!TypeOK
  BY DEF All!Init, All!TypeOK, All!Errors
<1>2. Belongs /\ ClosedBy /\ Heard /\ All!PanicNeedsReuse
  BY DEF All!Init, Belongs, ClosedBy, Heard, All!PanicNeedsReuse
<1> QED BY <1>1, <1>2 DEF AllInv

LEMMA AllKept == AllInv /\ [All!Next]_All!vars => AllInv'
BY TypeKept, PlacesKept, HeardKept, ClosedByKept, PanicKept DEF AllInv

-----------------------------------------------------------------------------
\* What a step of the fastest and of the broadcast interceptor does to a call
\* and its goroutines, whichever step it is.
Takes(c, from, to) ==
    call[c] \in from /\ call' = [call EXCEPT ![c] = to] /\ UNCHANGED go

Enters(c) == Takes(c, {"idle"}, "listing") /\ marked' = marked \cup {c}
Passes(c) == Takes(c, {"idle"}, "returned") /\ UNCHANGED marked
Ends(c) == Takes(c, {"listing", "waiting"}, "returned") /\ All!Ended(c) /\ UNCHANGED marked
Starts(c, listed) ==
    /\ call[c] = "listing" /\ call' = [call EXCEPT ![c] = "waiting"]
    /\ All!Spawn(c, listed) /\ UNCHANGED marked
Moves(c, i, place) ==
    go[c][i] \notin {"none", "done"} /\ All!Goto(c, i, place) /\ UNCHANGED <<call, marked>>
Rests == UNCHANGED <<call, go, marked>>

Moved ==
    \/ \E c \in Calls : Enters(c) \/ Passes(c) \/ Ends(c)
    \/ \E c \in Calls : \E listed \in SUBSET Instances : Starts(c, listed)
    \/ \E c \in Calls : \E i \in Instances : \E place \in Slots \ {"none"} : Moves(c, i, place)
    \/ Rests

\* Goroutines belong to marked calls past their listing.
Belong ==
    /\ call \in [Calls -> {"idle", "listing", "report", "waiting", "returned"}]
    /\ go \in [Calls -> [Instances -> Slots]]
    /\ marked \subseteq Calls
    /\ \A c \in Calls : call[c] \in {"listing", "waiting"} => c \in marked
    /\ \A c \in Calls : call[c] = "idle" => c \notin marked
    /\ \A c \in Calls : \A i \in Instances :
          go[c][i] # "none" => c \in marked /\ call[c] \in {"waiting", "returned"}

\* A marked call that has returned, with all its goroutines.
Gone(c) == call[c] = "returned" /\ All!Ended(c)

\* Before a call, no goroutine runs.
LEMMA BelongInit ==
    ASSUME call = [c \in Calls |-> "idle"], marked = {},
           go = [c \in Calls |-> [i \in Instances |-> "none"]]
    PROVE  Belong
BY DEF Belong, Slots

\* Goroutines belong to calls that started them, after any move.
LEMMA BelongKept ==
    ASSUME Belong, Moved
    PROVE  Belong'
<1> USE DEF Belong
<1>1. ASSUME NEW c \in Calls, Enters(c) \/ Passes(c) \/ Ends(c) PROVE Belong'
  BY <1>1 DEF Enters, Passes, Ends, Takes
<1>2. ASSUME NEW c \in Calls, NEW listed \in SUBSET Instances, Starts(c, listed) PROVE Belong'
  <2>1. go' \in [Calls -> [Instances -> Slots]]
    BY <1>2 DEF Starts, All!Spawn, Slots
  <2> QED BY <1>2, <2>1 DEF Starts, All!Spawn
<1>3. ASSUME NEW c \in Calls, NEW i \in Instances, NEW place \in Slots, Moves(c, i, place)
      PROVE  Belong'
  <2>1. go' = [go EXCEPT ![c] = [go[c] EXCEPT ![i] = place]]
    BY <1>3 DEF Moves, All!Goto
  <2>2. [go[c] EXCEPT ![i] = place] \in [Instances -> Slots]
    OBVIOUS
  <2>3. go' \in [Calls -> [Instances -> Slots]]
    BY <2>1, <2>2
  <2>4. \A d \in Calls : \A j \in Instances :
          go'[d][j] # "none" => d \in marked' /\ call'[d] \in {"waiting", "returned"}
    BY <1>3, <2>1 DEF Moves
  <2> QED BY <1>3, <2>3, <2>4 DEF Moves
<1>4. CASE Rests
  BY <1>4 DEF Rests
<1> QED BY <1>1, <1>2, <1>3, <1>4 DEF Moved

\* A call that is gone stays gone.
LEMMA GoneKept ==
    ASSUME Belong, Moved, NEW c \in marked, Gone(c)
    PROVE  c \in marked' /\ call'[c] = "returned" /\ All!Ended(c)'
<1> USE DEF Belong, Gone, All!Ended
<1>c. c \in Calls
  OBVIOUS
<1>1. ASSUME NEW d \in Calls, Enters(d) \/ Passes(d) \/ Ends(d)
      PROVE  c \in marked' /\ call'[c] = "returned" /\ All!Ended(c)'
  BY <1>1, <1>c DEF Enters, Passes, Ends, Takes
<1>2. ASSUME NEW d \in Calls, NEW listed \in SUBSET Instances, Starts(d, listed)
      PROVE  c \in marked' /\ call'[c] = "returned" /\ All!Ended(c)'
  BY <1>2, <1>c DEF Starts, All!Spawn
<1>3. ASSUME NEW d \in Calls, NEW i \in Instances, NEW place \in Slots, Moves(d, i, place)
      PROVE  c \in marked' /\ call'[c] = "returned" /\ All!Ended(c)'
  BY <1>3, <1>c DEF Moves, All!Goto
<1>4. CASE Rests
  BY <1>4 DEF Rests
<1> QED BY <1>1, <1>2, <1>3, <1>4 DEF Moved

-----------------------------------------------------------------------------
\* Fastest.  The channel was closed by a call that is over.
FastClosed == chan = "closed" => \E c \in marked : Gone(c)

\* Until the first answer a client that came early is there, or too late.
FastFirst ==
    early /\ ~panicked /\ received = {} =>
        /\ receiver = "ready" \/ chan = "closed"
        /\ \A c \in Calls : \A i \in Instances : go[c][i] # "done"

FastInv == Belong /\ FastClosed /\ FastFirst /\ All!PanicNeedsReuse

\* A step, and what it does to the channel (fastest/cluster.go:67-104).
FastStep ==
    \/ (\E c \in Calls : Passes(c)) /\ UNCHANGED All!chanVars
    \/ /\ \E c \in Calls : Enters(c)
       /\ early' = IF marked = {} THEN receiver = "ready" ELSE early
       /\ UNCHANGED <<chan, mode, receiver, received, panicked>>
    \/ (\E c \in Calls : Ends(c)) /\ All!Close /\ ~panicked
    \/ /\ \E c \in Calls : \E listed \in SUBSET Instances : Starts(c, listed)
       /\ UNCHANGED All!chanVars
    \/ /\ \E c \in Calls : \E i \in Instances : \E place \in Slots \ {"none", "done"} :
             Moves(c, i, place)
       /\ UNCHANGED All!chanVars
    \/ \E c \in Calls : \E i \in Instances :
          /\ Moves(c, i, "done")
          /\ All!Deliver(c, i) \/ (~All!CanSend /\ UNCHANGED All!chanVars)
    \/ /\ Rests /\ UNCHANGED <<chan, mode, received, early, panicked>>
       /\ receiver' \in {receiver, "ready"} \/ (chan = "closed" /\ receiver' = "gone")

\* Every step of fastest is one of the moves.
LEMMA FastSteps ==
    ASSUME Belong, [Fast!Next]_Fast!vars
    PROVE  FastStep
<1> USE DEF All!chanVars, Fast!callVars, Fast!chanVars
<1>1. ASSUME NEW c \in Calls, Fast!Plain(c) PROVE FastStep
  <2>1. Passes(c) /\ UNCHANGED All!chanVars
    BY <1>1 DEF Fast!Plain, Fast!Turn, Passes, Takes
  <2> QED BY <2>1 DEF FastStep
<1>2. ASSUME NEW c \in Calls, Fast!Marked(c) PROVE FastStep
  <2>1. /\ Enters(c) /\ early' = IF marked = {} THEN receiver = "ready" ELSE early
        /\ UNCHANGED <<chan, mode, receiver, received, panicked>>
    BY <1>2 DEF Fast!Marked, Fast!Turn, Enters, Takes
  <2> QED BY <2>1 DEF FastStep
<1>3. ASSUME NEW c \in Calls, NEW e \in {"error", err[c]}, Fast!Return(c, e),
             call[c] \in {"listing", "waiting"}, All!Ended(c), ~panicked
      PROVE  FastStep
  <2>1. Ends(c) /\ All!Close /\ ~panicked
    BY <1>3 DEF Fast!Return, Fast!Close, All!Close, Ends, Takes
  <2> QED BY <2>1 DEF FastStep
<1>4. ASSUME NEW c \in Calls, Fast!ListFails(c), ~panicked PROVE FastStep
  <2>1. All!Ended(c)
    BY <1>4 DEF Fast!ListFails, All!Ended, Belong
  <2> QED BY <1>3, <1>4, <2>1 DEF Fast!ListFails
<1>5. ASSUME NEW c \in Calls, Fast!Wait(c), ~panicked PROVE FastStep
  BY <1>3, <1>5 DEF Fast!Wait, Fast!Ended, All!Ended
<1>6. ASSUME NEW c \in Calls, NEW listed \in SUBSET Instances, Fast!List(c, listed)
      PROVE  FastStep
  <2>1. Starts(c, listed) /\ UNCHANGED All!chanVars
    BY <1>6 DEF Fast!List, Fast!Spawn, Starts, All!Spawn
  <2> QED BY <2>1 DEF FastStep
<1>7. ASSUME NEW c \in Calls, NEW i \in Instances, Fast!Dial(c, i) \/ Fast!Invoke(c, i)
      PROVE  FastStep
  <2>1. \E place \in {"invoke", "sendErr", "send"} : Moves(c, i, place) /\ UNCHANGED All!chanVars
    BY <1>7 DEF Fast!Dial, Fast!Invoke, Fast!Goto, All!Goto, Moves
  <2> QED BY <2>1 DEF FastStep, Slots
<1>8. ASSUME NEW c \in Calls, NEW i \in Instances, Fast!SendErr(c, i) \/ Fast!Offer(c, i)
      PROVE  FastStep
  <2>1. Moves(c, i, "done") /\ (All!Deliver(c, i) \/ (~All!CanSend /\ UNCHANGED All!chanVars))
    BY <1>8 DEF Fast!SendErr, Fast!Offer, Fast!Goto, All!Goto, Moves, Fast!Deliver, All!Deliver,
                Fast!CanSend, All!CanSend
  <2> QED BY <2>1 DEF FastStep
<1>9. CASE Fast!Ready \/ Fast!SeeClosed \/ Fast!Cancel
  BY <1>9 DEF Fast!Ready, Fast!SeeClosed, Fast!Cancel, FastStep, Rests
<1>10. CASE UNCHANGED Fast!vars
  BY <1>10 DEF Fast!vars, FastStep, Rests
<1> QED
  BY <1>1, <1>2, <1>4, <1>5, <1>6, <1>7, <1>8, <1>9, <1>10
  DEF Fast!Next, Fast!Begin, Fast!Run

\* Every move keeps the invariant of fastest.
LEMMA FastKept ==
    ASSUME FastInv, [Fast!Next]_Fast!vars
    PROVE  FastInv'
<1> USE DEF All!chanVars
<1>b. Belong
  BY DEF FastInv
<1>s. FastStep
  BY <1>b, FastSteps
<1>m. Moved
  BY <1>s DEF FastStep, Moved, Slots
<1>1. Belong'
  BY <1>b, <1>m, BelongKept
<1>2. FastClosed'
  <2>1. CASE chan = "closed"
    <3>1. PICK c \in marked : Gone(c)
      BY <2>1 DEF FastInv, FastClosed
    <3>2. c \in marked' /\ Gone(c)'
      BY <1>b, <1>m, <3>1, GoneKept DEF Gone
    <3> QED BY <3>2 DEF FastClosed
  <2>2. CASE chan # "closed" /\ chan' = "closed"
    <3>1. PICK c \in Calls : Ends(c)
      BY <1>s, <2>2 DEF FastStep, All!Deliver
    <3>2. c \in marked' /\ Gone(c)'
      BY <1>b, <3>1 DEF Ends, Takes, Gone, All!Ended, Belong
    <3> QED BY <3>2 DEF FastClosed
  <2> QED BY <2>1, <2>2 DEF FastClosed
<1>3. All!PanicNeedsReuse'
  <2>1. CASE panicked
    <3>1. marked \subseteq marked'
      BY <1>m DEF Moved, Enters, Passes, Ends, Starts, Moves, Rests
    <3> QED BY <2>1, <3>1 DEF FastInv, All!PanicNeedsReuse
  <2>2. CASE ~panicked /\ panicked'
    <3>1. PICK c \in Calls : Ends(c) \/ \E i \in Instances : Moves(c, i, "done")
      BY <1>s, <2>2 DEF FastStep
    <3>2. chan = "closed"
      BY <1>s, <2>2 DEF FastStep, All!Deliver, All!Close
    <3>3. PICK d \in marked : Gone(d)
      BY <3>2 DEF FastInv, FastClosed
    <3>4. c \in marked /\ ~Gone(c) /\ marked' = marked
      BY <1>b, <3>1 DEF Ends, Takes, Moves, Gone, All!Ended, Belong
    <3> QED BY <3>3, <3>4 DEF All!PanicNeedsReuse
  <2> QED BY <2>1, <2>2 DEF All!PanicNeedsReuse
<1>4. FastFirst'
  <2> SUFFICES ASSUME early', ~panicked', received' = {}
               PROVE  /\ receiver' = "ready" \/ chan' = "closed"
                      /\ \A c \in Calls : \A i \in Instances : go'[c][i] # "done"
    BY DEF FastFirst
  <2>f. early /\ ~panicked /\ received = {} =>
          /\ receiver = "ready" \/ chan = "closed"
          /\ \A c \in Calls : \A i \in Instances : go[c][i] # "done"
    BY DEF FastInv, FastFirst
  <2>1. ASSUME NEW c \in Calls, Passes(c), UNCHANGED All!chanVars
        PROVE  /\ receiver' = "ready" \/ chan' = "closed"
               /\ \A d \in Calls : \A i \in Instances : go'[d][i] # "done"
    BY <2>f, <2>1 DEF Passes, Takes
  <2>2. ASSUME NEW c \in Calls, Enters(c),
               early' = IF marked = {} THEN receiver = "ready" ELSE early,
               UNCHANGED <<chan, mode, receiver, received, panicked>>
        PROVE  /\ receiver' = "ready" \/ chan' = "closed"
               /\ \A d \in Calls : \A i \in Instances : go'[d][i] # "done"
    <3>1. CASE marked = {}
      BY <1>b, <2>2, <3>1 DEF Enters, Takes, Belong
    <3>2. CASE marked # {}
      BY <2>f, <2>2, <3>2 DEF Enters, Takes
    <3> QED BY <3>1, <3>2
  <2>3. ASSUME NEW c \in Calls, Ends(c), All!Close, ~panicked
        PROVE  /\ receiver' = "ready" \/ chan' = "closed"
               /\ \A d \in Calls : \A i \in Instances : go'[d][i] # "done"
    <3>1. chan # "closed" /\ early /\ received = {}
      BY <2>3 DEF All!Close
    <3>2. ~panicked
      BY <2>3
    <3> QED BY <2>3, <2>f, <3>1, <3>2 DEF Ends, Takes, All!Close
  <2>4. ASSUME NEW c \in Calls, NEW listed \in SUBSET Instances, Starts(c, listed),
               UNCHANGED All!chanVars
        PROVE  /\ receiver' = "ready" \/ chan' = "closed"
               /\ \A d \in Calls : \A i \in Instances : go'[d][i] # "done"
    BY <1>b, <2>f, <2>4 DEF Starts, All!Spawn, Belong
  <2>5. ASSUME NEW c \in Calls, NEW i \in Instances, NEW place \in Slots \ {"none", "done"},
               Moves(c, i, place), UNCHANGED All!chanVars
        PROVE  /\ receiver' = "ready" \/ chan' = "closed"
               /\ \A d \in Calls : \A j \in Instances : go'[d][j] # "done"
    BY <1>b, <2>f, <2>5 DEF Moves, All!Goto, Belong
  <2>6. ASSUME NEW c \in Calls, NEW i \in Instances,
               All!Deliver(c, i) \/ (~All!CanSend /\ UNCHANGED All!chanVars)
        PROVE  FALSE
    BY <2>f, <2>6 DEF All!Deliver, All!CanSend
  <2>7. ASSUME Rests, UNCHANGED <<chan, mode, received, early, panicked>>,
               receiver' \in {receiver, "ready"} \/ (chan = "closed" /\ receiver' = "gone")
        PROVE  /\ receiver' = "ready" \/ chan' = "closed"
               /\ \A d \in Calls : \A i \in Instances : go'[d][i] # "done"
    BY <2>f, <2>7 DEF Rests
  <2> QED BY <1>s, <2>1, <2>2, <2>3, <2>4, <2>5, <2>6, <2>7 DEF FastStep
<1> QED BY <1>1, <1>2, <1>3, <1>4 DEF FastInv

\* FastInv holds before the first call.
LEMMA FastInit == Fast!Init => FastInv
BY BelongInit DEF Fast!Init, FastInv, FastClosed, FastFirst, All!PanicNeedsReuse

-----------------------------------------------------------------------------
\* Broadcast.  Every instance asked without error was heard, and while answers
\* are decoded nothing else is in the reply.
Shown(c) ==
    /\ \A i \in Instances : go[c][i] = "decode" => reply[c] \in {i, "mixed"}
    /\ Reply!Decoding(c) = {} /\ heard[c] # {} => reply[c] \in {last[c], "mixed"}
    /\ heard[c] # {} => last[c] \in heard[c]
    /\ \A i \in Instances : go[c][i] = "done" /\ err[c] = "nil" => i \in heard[c]
    /\ \A i \in heard[c] : go[c][i] = "done"

Waited ==
    /\ \A c \in marked : call[c] = "returned" => All!Ended(c)
    /\ \A c \in marked : call[c] = "returned" /\ result[c] = "nil" => err[c] = "nil"

Written ==
    /\ err \in [Calls -> All!Errors] /\ result \in [Calls -> All!Errors]
    /\ reply \in [Calls -> Instances \cup {"none", "mixed"}]
    /\ last \in [Calls -> Instances \cup {"none"}]
    /\ heard \in [Calls -> SUBSET Instances]
    /\ Waited /\ \A c \in Calls : Shown(c)

ReplyInv == Belong /\ Written

\* An answer is decoded into the reply, alone or beside others, and heard.
Decodes(c, i) ==
    /\ Moves(c, i, "decode") /\ UNCHANGED <<err, heard, last>>
    /\ reply' = [reply EXCEPT ![c] = IF Reply!Decoding(c) = {} THEN i ELSE "mixed"]
Hears(c, i) ==
    /\ go[c][i] = "decode" /\ Moves(c, i, "done") /\ UNCHANGED <<err, reply>>
    /\ heard' = [heard EXCEPT ![c] = @ \cup {i}]
    /\ last' = [last EXCEPT ![c] = i]

\* A step, and what it does to errors and replies (broadcast/cluster.go:30-60).
ReplyStep ==
    \/ (\E c \in Calls : Passes(c) \/ Enters(c)) /\ UNCHANGED <<err, result, replyVars>>
    \/ \E c \in Calls : \E e \in {"error", err[c]} :
          Ends(c) /\ result' = [result EXCEPT ![c] = e] /\ UNCHANGED <<err, replyVars>>
    \/ /\ \E c \in Calls : \E listed \in SUBSET Instances : Starts(c, listed)
       /\ UNCHANGED <<err, result, replyVars>>
    \/ \E c \in Calls : \E i \in Instances :
          /\ UNCHANGED result
          /\ \/ /\ Moves(c, i, "done") /\ go[c][i] # "decode"
                /\ err' = [err EXCEPT ![c] = "error"] /\ UNCHANGED replyVars
             \/ Moves(c, i, "invoke") /\ go[c][i] = "dial" /\ UNCHANGED <<err, replyVars>>
             \/ go[c][i] = "invoke" /\ Decodes(c, i)
             \/ Hears(c, i)
    \/ Rests /\ UNCHANGED <<err, result, replyVars>>

\* Every step of broadcast is one of the moves.
LEMMA ReplySteps ==
    ASSUME Belong, [Reply!Next]_<<Reply!vars, replyVars>>
    PROVE  ReplyStep
<1> USE DEF replyVars, Reply!replyVars
<1>1. ASSUME NEW c \in Calls, Reply!Begin(c) PROVE ReplyStep
  <2>1. (Passes(c) \/ Enters(c)) /\ UNCHANGED <<err, result, replyVars>>
    BY <1>1 DEF Reply!Begin, Reply!Plain, Reply!Marked, Reply!Turn, Passes, Enters, Takes
  <2> QED BY <2>1 DEF ReplyStep
<1>2. ASSUME NEW c \in Calls, Reply!ListFails(c) PROVE ReplyStep
  <2>1. All!Ended(c)
    BY <1>2 DEF Reply!ListFails, All!Ended, Belong
  <2>2. Ends(c) /\ result' = [result EXCEPT ![c] = "error"] /\ UNCHANGED <<err, replyVars>>
    BY <1>2, <2>1 DEF Reply!ListFails, Ends, Takes
  <2> QED BY <2>2 DEF ReplyStep
<1>3. ASSUME NEW c \in Calls, Reply!Wait(c) PROVE ReplyStep
  <2>1. Ends(c) /\ result' = [result EXCEPT ![c] = err[c]] /\ UNCHANGED <<err, replyVars>>
    BY <1>3 DEF Reply!Wait, Reply!Return, Reply!Ended, All!Ended, Ends, Takes
  <2> QED BY <2>1 DEF ReplyStep
<1>4. ASSUME NEW c \in Calls, NEW listed \in SUBSET Instances, Reply!List(c, listed)
      PROVE  ReplyStep
  <2>1. Starts(c, listed) /\ UNCHANGED <<err, result, replyVars>>
    BY <1>4 DEF Reply!List, Reply!Spawn, Starts, All!Spawn
  <2> QED BY <2>1 DEF ReplyStep
<1>5. ASSUME NEW c \in Calls, NEW i \in Instances, Reply!Fail(c, i) \/ Reply!Dial(c, i)
      PROVE  ReplyStep
  <2>1. /\ UNCHANGED <<result, replyVars>>
        /\ \/ /\ Moves(c, i, "done") /\ go[c][i] # "decode"
              /\ err' = [err EXCEPT ![c] = "error"]
           \/ Moves(c, i, "invoke") /\ go[c][i] = "dial" /\ UNCHANGED err
    BY <1>5 DEF Reply!Fail, Reply!Dial, Reply!Goto, All!Goto, Moves
  <2> QED BY <2>1 DEF ReplyStep
<1>6. ASSUME NEW c \in Calls, NEW i \in Instances, Reply!Invoke(c, i) PROVE ReplyStep
  <2>1. UNCHANGED result /\ go[c][i] = "invoke" /\ Decodes(c, i)
    BY <1>6 DEF Reply!Invoke, Reply!Goto, All!Goto, Moves, Decodes
  <2> QED BY <2>1 DEF ReplyStep
<1>7. ASSUME NEW c \in Calls, NEW i \in Instances, Reply!Decoded(c, i) PROVE ReplyStep
  <2>1. UNCHANGED result /\ Hears(c, i)
    BY <1>7 DEF Reply!Decoded, Reply!Goto, All!Goto, Moves, Hears
  <2> QED BY <2>1 DEF ReplyStep
<1>8. CASE Reply!Cancel /\ UNCHANGED replyVars
  BY <1>8 DEF Reply!Cancel, Reply!callVars, ReplyStep, Rests
<1>9. CASE UNCHANGED <<Reply!vars, replyVars>>
  BY <1>9 DEF Reply!vars, ReplyStep, Rests
<1> QED
  BY <1>1, <1>2, <1>3, <1>4, <1>5, <1>6, <1>7, <1>8, <1>9
  DEF Reply!Next, Reply!Run

\* What is shown of a call depends on nothing of another call.
LEMMA ShownSame ==
    ASSUME NEW d \in Calls, Shown(d), go'[d] = go[d], err'[d] = err[d],
           reply'[d] = reply[d], heard'[d] = heard[d], last'[d] = last[d]
    PROVE  Shown(d)'
BY DEF Shown, Reply!Decoding

\* Spawning, failing, decoding and hearing keep it of their own call.
LEMMA ShownKept ==
    ASSUME "none" \notin Instances, Belong, Written, NEW c \in Calls,
           \/ /\ \E listed \in SUBSET Instances : Starts(c, listed)
              /\ UNCHANGED <<err, replyVars>>
           \/ \E i \in Instances :
                 \/ /\ Moves(c, i, "done") /\ go[c][i] # "decode"
                    /\ err' = [err EXCEPT ![c] = "error"] /\ UNCHANGED replyVars
                 \/ Moves(c, i, "invoke") /\ go[c][i] = "dial" /\ UNCHANGED <<err, replyVars>>
                 \/ go[c][i] = "invoke" /\ Decodes(c, i)
                 \/ Hears(c, i)
    PROVE  \A d \in Calls : Shown(d)'
<1> USE DEF Belong, Written, replyVars
<1>s. \A d \in Calls : Shown(d)
  OBVIOUS
<1>o. ASSUME Shown(c)', NEW d \in Calls,
             \/ \E listed \in SUBSET Instances : Starts(c, listed)
             \/ \E i \in Instances : \E place \in Slots : Moves(c, i, place),
             \E e \in {"error", err[c]} : err' = [err EXCEPT ![c] = e],
             \E r \in Instances \cup {"none", "mixed"} : reply' = [reply EXCEPT ![c] = r],
             \E h \in SUBSET Instances : heard' = [heard EXCEPT ![c] = h],
             \E l \in Instances \cup {"none"} : last' = [last EXCEPT ![c] = l]
      PROVE  Shown(d)'
  <2>1. CASE d # c
    <3>1. go'[d] = go[d]
      BY <1>o, <2>1 DEF Starts, All!Spawn, Moves, All!Goto
    <3>2. /\ err'[d] = err[d] /\ reply'[d] = reply[d]
          /\ heard'[d] = heard[d] /\ last'[d] = last[d]
      BY <1>o, <2>1
    <3> QED BY <3>1, <3>2, <1>s, ShownSame
  <2> QED BY <1>o, <2>1
<1>u. /\ err = [err EXCEPT ![c] = err[c]] /\ reply = [reply EXCEPT ![c] = reply[c]]
      /\ heard = [heard EXCEPT ![c] = heard[c]] /\ last = [last EXCEPT ![c] = last[c]]
  OBVIOUS
<1>h. /\ reply[c] \in Instances \cup {"none", "mixed"} /\ heard[c] \in SUBSET Instances
      /\ last[c] \in Instances \cup {"none"}
  OBVIOUS
<1> HIDE DEF Belong, Written
<1>1. CASE /\ \E listed \in SUBSET Instances : Starts(c, listed)
           /\ UNCHANGED <<err, replyVars>>
  <2>1. heard[c] = {}
    BY <1>1, <1>s, <1>h DEF Starts, Belong, Shown
  <2>2. \A i \in Instances : go'[c][i] \in {"none", "dial"}
    BY <1>1 DEF Starts, All!Spawn, Belong
  <2>3. Shown(c)'
    BY <1>1, <2>1, <2>2 DEF Shown, replyVars
  <2> QED BY <1>1, <2>3, <1>o, <1>u, <1>h DEF replyVars
<1>2. ASSUME NEW i \in Instances, Moves(c, i, "done"), go[c][i] # "decode",
             err' = [err EXCEPT ![c] = "error"], UNCHANGED replyVars
      PROVE  \A d \in Calls : Shown(d)'
  <2>1. err'[c] = "error" /\ go'[c] = [go[c] EXCEPT ![i] = "done"] /\ go[c][i] # "done"
    BY <1>2 DEF Moves, All!Goto, Belong, Written
  <2>2. go[c] \in [Instances -> Slots]
    BY DEF Belong
  <2>3. Shown(c)'
    BY <1>2, <1>s, <1>h, <2>1, <2>2 DEF Shown, replyVars, Reply!Decoding
  <2> QED BY <1>2, <2>3, <1>o, <1>u, <1>h DEF replyVars, Slots
<1>3. ASSUME NEW i \in Instances, Moves(c, i, "invoke"), go[c][i] = "dial",
             UNCHANGED <<err, replyVars>>
      PROVE  \A d \in Calls : Shown(d)'
  <2>1. go'[c] = [go[c] EXCEPT ![i] = "invoke"] /\ go[c] \in [Instances -> Slots]
    BY <1>3 DEF Moves, All!Goto, Belong
  <2>2. Shown(c)'
    BY <1>3, <1>s, <1>h, <2>1 DEF Shown, replyVars, Reply!Decoding
  <2> QED BY <1>3, <2>2, <1>o, <1>u, <1>h DEF replyVars, Slots
<1>4. ASSUME NEW i \in Instances, go[c][i] = "invoke", Decodes(c, i)
      PROVE  \A d \in Calls : Shown(d)'
  <2>1. go'[c] = [go[c] EXCEPT ![i] = "decode"] /\ go[c] \in [Instances -> Slots]
    BY <1>4 DEF Decodes, Moves, All!Goto, Belong
  <2>2. reply'[c] = IF Reply!Decoding(c) = {} THEN i ELSE "mixed"
    BY <1>4 DEF Decodes, Written
  <2>3. Shown(c)'
    BY <1>4, <1>s, <1>h, <2>1, <2>2 DEF Shown, Decodes, Reply!Decoding
  <2>4. \E r \in Instances \cup {"none", "mixed"} : reply' = [reply EXCEPT ![c] = r]
    BY <1>4 DEF Decodes
  <2> QED BY <1>4, <2>3, <2>4, <1>o, <1>u, <1>h DEF Decodes, Slots
<1>5. ASSUME NEW i \in Instances, Hears(c, i)
      PROVE  \A d \in Calls : Shown(d)'
  <2>1. go'[c] = [go[c] EXCEPT ![i] = "done"] /\ go[c] \in [Instances -> Slots]
    BY <1>5 DEF Hears, Moves, All!Goto, Belong
  <2>2. heard'[c] = heard[c] \cup {i} /\ last'[c] = i /\ UNCHANGED <<err, reply>>
    BY <1>5 DEF Hears, Written
  <2>3. Shown(c)'
    BY <1>5, <1>s, <1>h, <2>1, <2>2 DEF Shown, Hears, Reply!Decoding
  <2>4. heard' = [heard EXCEPT ![c] = heard[c] \cup {i}] /\ heard[c] \cup {i} \in SUBSET Instances
    BY <1>5, <1>h DEF Hears
  <2> QED BY <1>5, <2>3, <2>4, <1>o, <1>u, <1>h DEF Hears, Slots
<1> QED BY <1>1, <1>2, <1>3, <1>4, <1>5

\* Every move keeps the invariant of broadcast.
LEMMA ReplyKept ==
    ASSUME "none" \notin Instances, ReplyInv, [Reply!Next]_<<Reply!vars, replyVars>>
    PROVE  ReplyInv'
<1>b. Belong /\ Written
  BY DEF ReplyInv
<1>s. ReplyStep
  BY <1>b, ReplySteps
<1>m. Moved
  BY <1>s DEF ReplyStep, Moved, Slots, Decodes, Hears
<1>1. Belong'
  BY <1>b, <1>m, BelongKept
<1>t. \A d \in Calls : Shown(d)
  BY <1>b DEF Written
<1>2. \A d \in Calls : Shown(d)'
  <2>1. CASE UNCHANGED <<go, err, replyVars>>
    BY <2>1, <1>t, ShownSame DEF replyVars
  <2>2. ASSUME NEW c \in Calls, NEW listed \in SUBSET Instances, Starts(c, listed),
               UNCHANGED <<err, replyVars>>
        PROVE  \A d \in Calls : Shown(d)'
    BY <2>2, <1>b, ShownKept
  <2>3. ASSUME NEW c \in Calls, NEW i \in Instances,
               \/ /\ Moves(c, i, "done") /\ go[c][i] # "decode"
                  /\ err' = [err EXCEPT ![c] = "error"] /\ UNCHANGED replyVars
               \/ Moves(c, i, "invoke") /\ go[c][i] = "dial" /\ UNCHANGED <<err, replyVars>>
               \/ go[c][i] = "invoke" /\ Decodes(c, i)
               \/ Hears(c, i)
        PROVE  \A d \in Calls : Shown(d)'
    BY <2>3, <1>b, ShownKept
  <2> QED BY <1>s, <2>1, <2>2, <2>3
          DEF ReplyStep, Passes, Enters, Ends, Takes, Rests
<1>3. Waited'
  <2> USE <1>b DEF Belong, Written, Waited
  <2>1. ASSUME NEW c \in Calls, Passes(c) \/ Enters(c), UNCHANGED <<err, result>>
        PROVE  Waited'
    <3>1. CASE Passes(c)
      BY <2>1, <3>1 DEF Passes, Takes, All!Ended
    <3>2. CASE Enters(c)
      BY <2>1, <3>2 DEF Enters, Takes, All!Ended
    <3> QED BY <2>1, <3>1, <3>2
  <2>2. ASSUME NEW c \in Calls, NEW e \in {"error", err[c]}, Ends(c),
               result' = [result EXCEPT ![c] = e], UNCHANGED err
        PROVE  Waited'
    BY <2>2 DEF Ends, Takes, All!Ended
  <2>3. ASSUME NEW c \in Calls, NEW listed \in SUBSET Instances, Starts(c, listed),
               UNCHANGED <<err, result>>
        PROVE  Waited'
    BY <2>3 DEF Starts, All!Spawn, All!Ended
  <2>4. ASSUME NEW c \in Calls, NEW i \in Instances, NEW place \in Slots,
               Moves(c, i, place), UNCHANGED result,
               err' = [err EXCEPT ![c] = "error"] \/ UNCHANGED err
        PROVE  Waited'
    <3>1. ~(c \in marked /\ call[c] = "returned")
      BY <2>4 DEF Moves, All!Ended
    <3> QED BY <2>4, <3>1 DEF Moves, All!Goto, All!Ended
  <2>5. ASSUME Rests, UNCHANGED <<err, result>>
        PROVE  Waited'
    <3>1. UNCHANGED <<call, go, marked, err, result>>
      BY <2>5 DEF Rests
    <3> QED BY <3>1 DEF All!Ended
  <2> HIDE DEF Belong, Written, Waited
  <2> QED
    BY <1>s, <2>1, <2>2, <2>3, <2>4, <2>5 DEF ReplyStep, Decodes, Hears, Slots
<1>4. /\ err' \in [Calls -> All!Errors] /\ result' \in [Calls -> All!Errors]
      /\ reply' \in [Calls -> Instances \cup {"none", "mixed"}]
      /\ last' \in [Calls -> Instances \cup {"none"}]
      /\ heard' \in [Calls -> SUBSET Instances]
  <2> USE <1>b DEF Written, All!Errors, replyVars
  <2>1. err' \in [Calls -> All!Errors] /\ result' \in [Calls -> All!Errors]
    BY <1>s DEF ReplyStep, Decodes, Hears
  <2>2. /\ reply' \in [Calls -> Instances \cup {"none", "mixed"}]
        /\ last' \in [Calls -> Instances \cup {"none"}]
        /\ heard' \in [Calls -> SUBSET Instances]
    BY <1>s DEF ReplyStep, Decodes, Hears
  <2> QED BY <2>1, <2>2
<1> QED BY <1>1, <1>2, <1>3, <1>4 DEF ReplyInv, Written

\* ReplyInv holds before the first call.
LEMMA ReplyInit == Reply!Init /\ Reply!NoReply => ReplyInv
BY BelongInit
DEF Reply!Init, Reply!NoReply, Reply!Errors, Reply!Decoding, ReplyInv, Written, Shown, Waited, All!Errors

-----------------------------------------------------------------------------
\* The types of what the interceptors do not share with broadcastall.
Others ==
    /\ err \in [Calls -> All!Errors] /\ result \in [Calls -> All!Errors]
    /\ closer \subseteq Calls /\ ctxDone \in BOOLEAN

\* Type correctness, in the parts that the moves keep.
LEMMA TypeParts == All!TypeOK <=> ChanTyped /\ Others
    /\ call \in [Calls -> {"idle", "listing", "report", "waiting", "returned"}]
    /\ go \in [Calls -> [Instances -> Slots]] /\ marked \subseteq Calls
BY DEF All!TypeOK, ChanTyped, Others, Slots

\* The fastest interceptor keeps the types (fastest/cluster.go:67-104).
LEMMA FastTypes ==
    ASSUME All!TypeOK, Belong, Belong', [Fast!Next]_Fast!vars
    PROVE  All!TypeOK'
<1>a. ChanTyped /\ Others
  BY TypeParts
<1>1. ChanTyped'
  <2>s. FastStep
    BY FastSteps
  <2>1. ASSUME NEW c \in Calls, NEW i \in Instances, All!Deliver(c, i) PROVE ChanTyped'
    BY <2>1, DeliverTyped
  <2>2. CASE UNCHANGED All!chanVars
    BY <1>a, <2>2 DEF All!chanVars, ChanTyped
  <2>3. CASE /\ early' = IF marked = {} THEN receiver = "ready" ELSE early
             /\ UNCHANGED <<chan, mode, receiver, received, panicked>>
    BY <1>a, <2>3 DEF ChanTyped
  <2>4. CASE All!Close
    BY <1>a, <2>4 DEF All!Close, ChanTyped
  <2>5. CASE /\ UNCHANGED <<chan, mode, received, early, panicked>>
             /\ receiver' \in {receiver, "ready"} \/ (chan = "closed" /\ receiver' = "gone")
    BY <1>a, <2>5 DEF ChanTyped
  <2> QED BY <2>s, <2>1, <2>2, <2>3, <2>4, <2>5, Zenon DEF FastStep
<1>2. Others'
  <2> USE <1>a DEF Others, All!Errors
  <2>1. ASSUME NEW c \in Calls, Fast!Begin(c) PROVE Others'
    BY <2>1 DEF Fast!Begin, Fast!Plain, Fast!Marked
  <2>2. ASSUME NEW c \in Calls, Fast!ListFails(c) \/ Fast!Wait(c) PROVE Others'
    BY <2>2 DEF Fast!ListFails, Fast!Wait, Fast!Return
  <2>3. ASSUME NEW c \in Calls, NEW listed \in SUBSET Instances, Fast!List(c, listed)
        PROVE  Others'
    BY <2>3 DEF Fast!List
  <2>4. ASSUME NEW c \in Calls, NEW i \in Instances,
               Fast!Dial(c, i) \/ Fast!SendErr(c, i) \/ Fast!Invoke(c, i) \/ Fast!Offer(c, i)
        PROVE  Others'
    BY <2>4 DEF Fast!Dial, Fast!SendErr, Fast!Invoke, Fast!Offer, Fast!Errors
  <2>5. CASE Fast!Ready \/ Fast!SeeClosed \/ Fast!Cancel
    BY <2>5 DEF Fast!Ready, Fast!SeeClosed, Fast!Cancel, Fast!callVars
  <2>6. CASE UNCHANGED Fast!vars
    BY <2>6 DEF Fast!vars
  <2> QED BY <2>1, <2>2, <2>3, <2>4, <2>5, <2>6 DEF Fast!Next, Fast!Run
<1> QED BY <1>1, <1>2, TypeParts, PTL DEF Belong

\* The broadcast interceptor keeps them too (broadcast/cluster.go:30-60).
LEMMA ReplyTypes ==
    ASSUME All!TypeOK, Belong', Written', [Reply!Next]_<<Reply!vars, replyVars>>
    PROVE  All!TypeOK'
<1>a. ChanTyped /\ Others
  BY TypeParts
<1>1. ChanTyped' /\ closer' = closer /\ ctxDone' \in BOOLEAN
  <2> USE <1>a DEF ChanTyped, Others, Reply!chanVars
  <2> DEFINE kept == ChanTyped' /\ closer' = closer /\ ctxDone' \in BOOLEAN
  <2>1. ASSUME NEW c \in Calls, Reply!Begin(c) PROVE kept
    BY <2>1 DEF Reply!Begin, Reply!Plain, Reply!Marked
  <2>2. ASSUME NEW c \in Calls, Reply!ListFails(c) \/ Reply!Wait(c) PROVE kept
    BY <2>2 DEF Reply!ListFails, Reply!Wait, Reply!Return
  <2>3. ASSUME NEW c \in Calls, NEW listed \in SUBSET Instances, Reply!List(c, listed)
        PROVE  kept
    BY <2>3 DEF Reply!List
  <2>4. ASSUME NEW c \in Calls, NEW i \in Instances,
               Reply!Fail(c, i) \/ Reply!Dial(c, i) \/ Reply!Invoke(c, i) \/ Reply!Decoded(c, i)
        PROVE  kept
    BY <2>4 DEF Reply!Fail, Reply!Dial, Reply!Invoke, Reply!Decoded
  <2>5. CASE Reply!Cancel
    BY <2>5 DEF Reply!Cancel, Reply!callVars
  <2>6. CASE UNCHANGED Reply!vars
    BY <2>6 DEF Reply!vars
  <2> HIDE DEF kept
  <2> QED BY <2>1, <2>2, <2>3, <2>4, <2>5, <2>6 DEF Reply!Next, Reply!Run, kept
<1>2. Others'
  BY <1>a, <1>1 DEF Others, Written
<1> QED BY <1>1, <1>2, TypeParts, PTL DEF Belong

-----------------------------------------------------------------------------
\* Any of the clients.  What the one that runs does keeps its invariant, and
\* leaves the others where they started.
Kinds ==
    /\ kind \in {"broadcast", "broadcastall", "fastest", "rpc"}
    /\ kind = "broadcastall" => AllInv
    /\ kind = "fastest" => FastInv
    /\ kind = "broadcast" => ReplyInv
    /\ kind \in {"broadcast", "rpc"} => ~panicked
    /\ reply \in [Calls -> Instances \cup {"none", "mixed"}]
    /\ last \in [Calls -> Instances \cup {"none"}]
    /\ heard \in [Calls -> SUBSET Instances]

AnyInv == Kinds /\ All!TypeOK /\ IInv

\* It holds before the first call.
LEMMA AnyInitInv == AnyInit => AnyInv
<1> SUFFICES ASSUME AnyInit PROVE AnyInv
  OBVIOUS
<1>1. All!Init /\ Init /\ Reply!NoReply /\ ~panicked
  BY DEF AnyInit, All!Init
<1>2. Fast!Init /\ Reply!Init
  BY <1>1 DEF All!Init, Fast!Init, Reply!Init
<1>3. AllInv /\ FastInv /\ ReplyInv
  BY <1>1, <1>2, AllInit, FastInit, ReplyInit
<1>4. IInv
  BY <1>1, InitInv, RpcAssumption
<1> QED BY <1>1, <1>3, <1>4 DEF AnyInit, AnyInv, Kinds, AllInv, ReplyInv, Written

\* It is kept by every step of every client.
LEMMA AnyKept == AnyInv /\ [AnyNext]_allVars => AnyInv'
<1> SUFFICES ASSUME AnyInv, [AnyNext]_allVars PROVE AnyInv'
  OBVIOUS
<1>r. IInv'
  <2>1. [Next]_vars
    BY DEF AnyNext, BroadcastAllNext, FastestNext, BroadcastNext, RpcNext, allVars
  <2> QED BY <2>1, StepInv, RpcAssumption DEF AnyInv
<1>1. CASE BroadcastAllNext
  <2>1. AllInv' /\ kind' = kind /\ kind = "broadcastall" /\ UNCHANGED replyVars
    BY <1>1, AllKept DEF BroadcastAllNext, AnyInv, Kinds
  <2>2. All!TypeOK'
    BY <2>1 DEF AllInv
  <2> QED BY <1>r, <2>1, <2>2 DEF AnyInv, Kinds, replyVars
<1>2. CASE FastestNext
  <2>1. FastInv /\ FastInv' /\ kind' = kind /\ kind = "fastest" /\ UNCHANGED replyVars
    BY <1>2, FastKept DEF FastestNext, AnyInv, Kinds
  <2>2. All!TypeOK'
    BY <1>2, <2>1, FastTypes DEF FastestNext, AnyInv, FastInv
  <2> QED BY <1>r, <2>1, <2>2 DEF AnyInv, Kinds, replyVars
<1>3. CASE BroadcastNext
  <2>1. ReplyInv' /\ kind' = kind /\ kind = "broadcast"
    BY <1>3, ReplyKept, InstancesAssumption DEF BroadcastNext, AnyInv, Kinds
  <2>2. All!TypeOK'
    BY <1>3, <2>1, ReplyTypes DEF BroadcastNext, AnyInv, ReplyInv
  <2>3. ~panicked'
    BY <1>3 DEF BroadcastNext, AnyInv, Kinds, Reply!Next, Reply!Begin, Reply!Plain, Reply!Marked,
         Reply!Run, Reply!ListFails, Reply!Wait, Reply!Return, Reply!List, Reply!Fail, Reply!Dial,
         Reply!Invoke, Reply!Decoded, Reply!Cancel, Reply!chanVars
  <2> QED BY <1>r, <2>1, <2>2, <2>3 DEF AnyInv, Kinds, ReplyInv, Written
<1>4. CASE RpcNext \/ UNCHANGED allVars
  <2>1. UNCHANGED <<kind, clusterVars>>
    BY <1>4 DEF RpcNext, allVars
  <2>2. UNCHANGED <<All!vars, Fast!vars, Reply!vars, replyVars>>
    BY <2>1 DEF clusterVars, All!vars, Fast!vars, Reply!vars
  <2>3. /\ kind = "broadcastall" => AllInv'
        /\ kind = "fastest" => FastInv'
        /\ kind = "broadcast" => ReplyInv'
    BY <2>2, AllKept, FastKept, ReplyKept, InstancesAssumption DEF AnyInv, Kinds
  <2>4. All!TypeOK'
    BY <2>2, TypeKept DEF AnyInv
  <2> QED BY <1>r, <2>1, <2>3, <2>4 DEF AnyInv, Kinds, clusterVars, replyVars
<1> QED BY <1>1, <1>2, <1>3, <1>4 DEF AnyNext

LEMMA AnyInvariant == AnySpec => []AnyInv
BY AnyInitInv, AnyKept, PTL DEF AnySpec

(***************************************************************************)
(* A client with an interceptor behaves as the interceptor's own module    *)
(* says, and the framework's part of every behaviour as Rpc says, so what  *)
(* is proved of a module holds of every behaviour of that kind.  About the *)
(* client of the RPC framework and those of package cluster, which share   *)
(* nothing.                                                                *)
(***************************************************************************)
THEOREM EachAsItsModule ==
    AnySpec => /\ Spec
               /\ kind = "broadcastall" => All!Spec
               /\ kind = "fastest" => Fast!Spec
               /\ kind = "broadcast" => Reply!Spec
<1>1. AnyInit => /\ Init /\ All!Init /\ Fast!Init /\ Reply!Init
                 /\ Reply!NoReply
  BY DEF AnyInit, All!Init, Fast!Init, Reply!Init
<1>2. [AnyNext]_allVars => [Next]_vars
  BY DEF AnyNext, BroadcastAllNext, FastestNext, BroadcastNext, RpcNext, allVars
<1>3. UNCHANGED clusterVars => UNCHANGED <<All!vars, Fast!vars, Reply!vars, replyVars>>
  BY DEF clusterVars, All!vars, Fast!vars, Reply!vars
<1>4. [AnyNext]_allVars =>
        /\ kind' = kind
        /\ \/ kind = "broadcastall" /\ All!Next
           \/ kind = "fastest" /\ Fast!Next
           \/ kind = "broadcast" /\ Reply!Next
           \/ kind = "rpc" /\ UNCHANGED clusterVars
           \/ UNCHANGED clusterVars
  BY Zenon DEF AnyNext, BroadcastAllNext, FastestNext, BroadcastNext, RpcNext, allVars
<1>5. kind = "broadcastall" /\ [AnyNext]_allVars
        => (kind = "broadcastall")' /\ [All!Next]_All!vars
  BY <1>3, <1>4
<1>6. kind = "fastest" /\ [AnyNext]_allVars => (kind = "fastest")' /\ [Fast!Next]_Fast!vars
  BY <1>3, <1>4
<1>7. kind = "broadcast" /\ [AnyNext]_allVars
        => (kind = "broadcast")' /\ [Reply!Next]_<<Reply!vars, replyVars>>
  BY <1>3, <1>4
<1> QED BY <1>1, <1>2, <1>5, <1>6, <1>7, PTL
        DEF AnySpec, Spec, All!Spec, Fast!Spec, Reply!Spec, replyVars, Reply!replyVars

\* The variables keep their types, whichever the client.
THEOREM ClientsTyped == AnySpec => []TypesOK
<1>1. AnyInv => TypesOK
  BY DEF AnyInv, Kinds, TypesOK, IInv, Typed
<1> QED BY <1>1, AnyInvariant, PTL

(***************************************************************************)
(* One use of a marked context never panics, whatever fails and whoever    *)
(* receives: a send or a close that finds the channel closed is another    *)
(* call's.  About the sends and the close (broadcastall/cluster.go:39-75,  *)
(* fastest/cluster.go:73-103).                                             *)
(***************************************************************************)
THEOREM PanicFree == AnySpec => []PanicNeedsReuse
<1>1. AnyInv => PanicNeedsReuse
  BY DEF AnyInv, Kinds, AllInv, FastInv, PanicNeedsReuse, All!PanicNeedsReuse
<1> QED BY <1>1, AnyInvariant, PTL

(***************************************************************************)
(* A channel that broadcastall closed has given all the answers of some    *)
(* call, unless the context ended.  About the WaitGroup and the closing    *)
(* goroutine (broadcastall/cluster.go:43-75).                              *)
(***************************************************************************)
THEOREM AnswersFirst == AnySpec => []AnswersBeforeClose
<1>1. AllInv => All!ClosedAfterAll
  BY DEF AllInv, ClosedBy, All!ClosedAfterAll, Over, AllHeard
<1>2. AnyInv => AnswersBeforeClose
  BY <1>1 DEF AnyInv, Kinds, AnswersBeforeClose
<1> QED BY <1>2, AnyInvariant, PTL

(***************************************************************************)
(* With fastest, a client that waits before it calls has an answer as soon *)
(* as one instance has been asked, however many are asked and whatever     *)
(* fails.  About the select with a default (fastest/cluster.go:95-98).     *)
(***************************************************************************)
THEOREM WaitingClientIsAnswered == AnySpec => []FirstAnswer
<1>1. FastInv => Fast!FirstAnswer
  BY DEF FastInv, FastFirst, Fast!FirstAnswer
<1>2. AnyInv => FirstAnswer
  BY <1>1 DEF AnyInv, Kinds, FirstAnswer
<1> QED BY <1>2, AnyInvariant, PTL

(***************************************************************************)
(* With broadcast, nobody writes the reply of a call that has returned,    *)
(* though an instance failed before the others were done, and a call       *)
(* without error has decoded an answer of every instance it asked, the     *)
(* last of which is its reply, unless two were decoded at once.  About     *)
(* errgroup's Wait with one shared reply (broadcast/cluster.go:38-59).     *)
(***************************************************************************)
THEOREM RepliesSettle == AnySpec => []ReplySettled
<1>1. ReplyInv => Reply!ReplySettled
  <2> SUFFICES ASSUME ReplyInv, NEW c \in marked, call[c] = "returned"
               PROVE  /\ Reply!Decoding(c) = {} /\ Reply!Ended(c)
                      /\ result[c] = "nil" =>
                           /\ heard[c] = Reply!Asked(c)
                           /\ heard[c] # {} => /\ last[c] \in heard[c]
                                              /\ reply[c] \in {last[c], "mixed"}
    BY DEF Reply!ReplySettled
  <2>1. c \in Calls /\ Shown(c) /\ All!Ended(c) /\ (result[c] = "nil" => err[c] = "nil")
    BY DEF ReplyInv, Belong, Written, Waited
  <2>2. Reply!Decoding(c) = {} /\ Reply!Ended(c)
    BY <2>1 DEF Reply!Decoding, Reply!Ended, All!Ended
  <2>3. heard[c] \in SUBSET Instances
    BY <2>1 DEF ReplyInv, Written
  <2>4. ASSUME result[c] = "nil" PROVE heard[c] = Reply!Asked(c)
    BY <2>1, <2>3, <2>4 DEF Shown, All!Ended, Reply!Asked
  <2> QED BY <2>1, <2>2, <2>4 DEF Shown
<1>2. AnyInv => ReplySettled
  BY <1>1 DEF AnyInv, Kinds, ReplySettled
<1> QED BY <1>2, AnyInvariant, PTL
=============================================================================
