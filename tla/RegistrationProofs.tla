------------------------- MODULE RegistrationProofs -------------------------
(***************************************************************************)
(* Proofs about Registration, for any processes, addresses and bound.      *)
(***************************************************************************)
EXTENDS Registration, TLAPS

-----------------------------------------------------------------------------
(* The inductive invariant.                                                *)

\* How the places of Start go with its Put, and the strays it left.
StartPlace(p) ==
        /\ inst[p] <=> put[p] # "none"
        /\ p \notin WithRegistry => put[p] = "none"
        /\ put[p] = "sent" => start[p] = "registering" /\ ~crashed[p]
        /\ start[p] = "registered" => put[p] = "ok"
        /\ start[p] = "serving" /\ p \in WithRegistry => put[p] = "ok"
        /\ put[p] # "none" => start[p] \notin {"idle", "listening"}
        /\ start[p] = "registering" => put[p] # "none"
        /\ <<"put", p>> \in strays =>
               /\ put[p] = "err"
               /\ start[p] # "failed" => start[p] = "registering" /\ crashed[p]

StartPlaces == \A p \in Procs : StartPlace(p)

\* How the places of Close go with its Delete and with Start.
ClosePlaces ==
    \A p \in Procs :
        /\ del[p] \in {"sent", "blank"} =>
               close[p] = "unregistering" /\ ~crashed[p]
        /\ del[p] = "sent" => inst[p]
        /\ del[p] = "blank" /\ p \notin raced => start[p] = "failed"
        /\ stopped[p] => close[p] \in {"stopping", "done"}
        /\ close[p] \in {"stopping", "done"} => del[p] = "ok"
        /\ del[p] = "ok" => close[p] \in {"unregistering", "stopping", "done"}
        /\ start[p] = "stopped" => stopped[p] /\ ~bound[p]
        /\ close[p] # "idle" \/ stopped[p] => tries[p] > 0
        /\ tries[p] > 0 /\ p \notin raced =>
               start[p] \in {"serving", "stopped", "failed"}

\* A key is held under a lease that lives, by a process of that key.
Held ==
    \A k \in Keys, p \in Procs : store[k] = p =>
        p \in WithRegistry /\ k = Key[p] /\ lease[p] /\ inst[p]

\* From Listen until its Serve returns, and for ever if registering failed, a
\* process holds its port, and nobody else does.
Ported ==
    /\ \A p \in Procs :
         /\ ~crashed[p]
         /\ \/ start[p] \in {"listening", "registering", "registered",
                             "serving"}
            \/ start[p] = "failed" /\ inst[p]
         => bound[p]
    /\ \A p, q \in Procs : bound[p] /\ bound[q] /\ Port[p] = Port[q] => p = q

\* Unregister of a process that served takes it off the list for good.
Unlisted ==
    \A p \in Procs :
        /\ del[p] = "ok" /\ p \notin raced /\ start[p] \in {"serving", "stopped"}
        => ~Listed(p)

\* A Put that was answered holds as long as nobody closes or strays.
PutHolds ==
    \A p \in WithRegistry :
        /\ put[p] = "ok" /\ start[p] \in {"registering", "registered", "serving"}
        /\ ~crashed[p] /\ lease[p] /\ tries[p] = 0
        /\ OwnKey(p) /\ Key[p] \notin late
        => Listed(p)

Parts == /\ StartPlaces /\ ClosePlaces /\ Held /\ Ported /\ Unlisted
         /\ PutHolds
IInv  == TypeOK /\ Parts

-----------------------------------------------------------------------------
\* The invariant holds before any process starts.
LEMMA InitIInv == Init => IInv
<1> SUFFICES ASSUME Init PROVE IInv
  OBVIOUS
<1>1. TypeOK
  BY ProcsAssumption DEF Init, TypeOK
<1>2. Parts
  BY ProcsAssumption DEF Init, Parts, StartPlaces, StartPlace, ClosePlaces, Held, Ported, Unlisted, PutHolds
<1> QED BY <1>1, <1>2 DEF IInv

\* Listen keeps the invariant.
LEMMA ListenInv ==
    ASSUME IInv, NEW x \in Procs, Listen(x), ~crashed[x]
    PROVE  IInv'
<1> USE ProcsAssumption DEF Listen, IInv, Parts, TypeOK, server, request, history
<1>1. TypeOK'
  OBVIOUS
<1>2. StartPlaces'
  <2> SUFFICES ASSUME NEW p \in Procs PROVE StartPlace(p)'
    BY DEF StartPlaces
  <2>1. StartPlace(p)
    BY DEF StartPlaces
  <2>2. CASE p = x
    BY <2>1, <2>2 DEF StartPlace
  <2>3. CASE p # x
    BY <2>1, <2>3 DEF StartPlace
  <2> QED BY <2>2, <2>3
<1>3. ClosePlaces'
  BY DEF ClosePlaces
<1>4. Held'
  BY DEF Held, StartPlaces, StartPlace, KeyDeleted
<1>5. Ported'
  BY DEF Ported, PortFree, StartPlaces, StartPlace
<1>6. Unlisted'
  BY DEF Unlisted, Listed, StartPlaces, StartPlace, ClosePlaces, KeyDeleted, Held
<1>7. PutHolds'
  BY DEF PutHolds, Listed, OwnKey, StartPlaces, StartPlace, ClosePlaces, Ported, KeyDeleted, Held
<1> QED BY <1>1, <1>2, <1>3, <1>4, <1>5, <1>6, <1>7

\* ListenFail keeps the invariant.
LEMMA ListenFailInv ==
    ASSUME IInv, NEW x \in Procs, ListenFail(x), ~crashed[x]
    PROVE  IInv'
<1> USE ProcsAssumption DEF ListenFail, IInv, Parts, TypeOK, server, request, history
<1>1. TypeOK'
  OBVIOUS
<1>2. StartPlaces'
  <2> SUFFICES ASSUME NEW p \in Procs PROVE StartPlace(p)'
    BY DEF StartPlaces
  <2>1. StartPlace(p)
    BY DEF StartPlaces
  <2>2. CASE p = x
    BY <2>1, <2>2 DEF StartPlace
  <2>3. CASE p # x
    BY <2>1, <2>3 DEF StartPlace
  <2> QED BY <2>2, <2>3
<1>3. ClosePlaces'
  BY DEF ClosePlaces
<1>4. Held'
  BY DEF Held, StartPlaces, StartPlace, KeyDeleted
<1>5. Ported'
  <2>1. ~inst[x]
    BY DEF StartPlaces, StartPlace
  <2> QED BY <2>1 DEF Ported
<1>6. Unlisted'
  BY DEF Unlisted, Listed, StartPlaces, StartPlace, ClosePlaces, KeyDeleted, Held
<1>7. PutHolds'
  BY DEF PutHolds, Listed, OwnKey, StartPlaces, StartPlace, ClosePlaces, Ported, KeyDeleted, Held
<1> QED BY <1>1, <1>2, <1>3, <1>4, <1>5, <1>6, <1>7

\* Register keeps the invariant.
LEMMA RegisterInv ==
    ASSUME IInv, NEW x \in Procs, Register(x), ~crashed[x]
    PROVE  IInv'
<1> USE ProcsAssumption DEF Register, IInv, Parts, TypeOK, server, request, history
<1>1. TypeOK'
  OBVIOUS
<1>2. StartPlaces'
  <2> SUFFICES ASSUME NEW p \in Procs PROVE StartPlace(p)'
    BY DEF StartPlaces
  <2>1. StartPlace(p)
    BY DEF StartPlaces
  <2>2. CASE p = x
    BY <2>1, <2>2 DEF StartPlace
  <2>3. CASE p # x
    BY <2>1, <2>3 DEF StartPlace
  <2> QED BY <2>2, <2>3
<1>3. ClosePlaces'
  BY DEF ClosePlaces
<1>4. Held'
  BY DEF Held, StartPlaces, StartPlace, KeyDeleted
<1>5. Ported'
  BY DEF Ported, PortFree, StartPlaces, StartPlace
<1>6. Unlisted'
  BY DEF Unlisted, Listed, StartPlaces, StartPlace, ClosePlaces, KeyDeleted, Held
<1>7. PutHolds'
  BY DEF PutHolds, Listed, OwnKey, StartPlaces, StartPlace, ClosePlaces, Ported, KeyDeleted, Held
<1> QED BY <1>1, <1>2, <1>3, <1>4, <1>5, <1>6, <1>7

\* RegisterOk keeps the invariant.
LEMMA RegisterOkInv ==
    ASSUME IInv, NEW x \in Procs, RegisterOk(x), ~crashed[x]
    PROVE  IInv'
<1> USE ProcsAssumption DEF RegisterOk, IInv, Parts, TypeOK, server, request, history
<1>1. TypeOK'
  OBVIOUS
<1>2. StartPlaces'
  <2> SUFFICES ASSUME NEW p \in Procs PROVE StartPlace(p)'
    BY DEF StartPlaces
  <2>1. StartPlace(p)
    BY DEF StartPlaces
  <2>2. CASE p = x
    BY <2>1, <2>2 DEF StartPlace
  <2>3. CASE p # x
    BY <2>1, <2>3 DEF StartPlace
  <2> QED BY <2>2, <2>3
<1>3. ClosePlaces'
  BY DEF ClosePlaces
<1>4. Held'
  BY DEF Held, StartPlaces, StartPlace, KeyDeleted
<1>5. Ported'
  BY DEF Ported, PortFree, StartPlaces, StartPlace
<1>6. Unlisted'
  BY DEF Unlisted, Listed, StartPlaces, StartPlace, ClosePlaces, KeyDeleted, Held
<1>7. PutHolds'
  BY DEF PutHolds, Listed, OwnKey, StartPlaces, StartPlace, ClosePlaces, Ported, KeyDeleted, Held
<1> QED BY <1>1, <1>2, <1>3, <1>4, <1>5, <1>6, <1>7

\* RegisterErr keeps the invariant.
LEMMA RegisterErrInv ==
    ASSUME IInv, NEW x \in Procs, RegisterErr(x), ~crashed[x]
    PROVE  IInv'
<1> USE ProcsAssumption DEF RegisterErr, IInv, Parts, TypeOK, server, request, history
<1>1. TypeOK'
  OBVIOUS
<1>2. StartPlaces'
  <2> SUFFICES ASSUME NEW p \in Procs PROVE StartPlace(p)'
    BY DEF StartPlaces
  <2>1. StartPlace(p)
    BY DEF StartPlaces
  <2>2. CASE p = x
    <3>1. inst'[x] /\ put'[x] = "err" /\ start'[x] = "failed" /\ x \in WithRegistry
      BY <2>1, <2>2 DEF StartPlace
    <3> QED BY <2>2, <3>1 DEF StartPlace
  <2>3. CASE p # x
    BY <2>1, <2>3 DEF StartPlace
  <2> QED BY <2>2, <2>3
<1>3. ClosePlaces'
  BY DEF ClosePlaces
<1>4. Held'
  BY DEF Held, StartPlaces, StartPlace, KeyDeleted
<1>5. Ported'
  BY DEF Ported, PortFree, StartPlaces, StartPlace
<1>6. Unlisted'
  BY DEF Unlisted, Listed, StartPlaces, StartPlace, ClosePlaces, KeyDeleted, Held
<1>7. PutHolds'
  BY DEF PutHolds, Listed, OwnKey, StartPlaces, StartPlace, ClosePlaces, Ported, KeyDeleted, Held
<1> QED BY <1>1, <1>2, <1>3, <1>4, <1>5, <1>6, <1>7

\* Serve keeps the invariant.
LEMMA ServeInv ==
    ASSUME IInv, NEW x \in Procs, Serve(x), ~crashed[x]
    PROVE  IInv'
<1> USE ProcsAssumption DEF Serve, IInv, Parts, TypeOK, server, request, history
<1>1. TypeOK'
  OBVIOUS
<1>2. StartPlaces'
  <2> SUFFICES ASSUME NEW p \in Procs PROVE StartPlace(p)'
    BY DEF StartPlaces
  <2>1. StartPlace(p)
    BY DEF StartPlaces
  <2>2. CASE p = x
    BY <2>1, <2>2 DEF StartPlace
  <2>3. CASE p # x
    BY <2>1, <2>3 DEF StartPlace
  <2> QED BY <2>2, <2>3
<1>3. ClosePlaces'
  BY DEF ClosePlaces
<1>4. Held'
  BY DEF Held, StartPlaces, StartPlace, KeyDeleted
<1>5. Ported'
  BY DEF Ported, PortFree, StartPlaces, StartPlace
<1>6. Unlisted'
  BY DEF Unlisted, Listed, StartPlaces, StartPlace, ClosePlaces, KeyDeleted, Held
<1>7. PutHolds'
  BY DEF PutHolds, Listed, OwnKey, StartPlaces, StartPlace, ClosePlaces, Ported, KeyDeleted, Held
<1> QED BY <1>1, <1>2, <1>3, <1>4, <1>5, <1>6, <1>7

\* CloseBegin keeps the invariant.
LEMMA CloseBeginInv ==
    ASSUME IInv, NEW x \in Procs, CloseBegin(x), ~crashed[x]
    PROVE  IInv'
<1> USE ProcsAssumption DEF CloseBegin, IInv, Parts, TypeOK, server, request, history
<1>1. TypeOK'
  <2>1. tries' \in [Procs -> 0 .. MaxTries]
    OBVIOUS
  <2>2. raced' \subseteq Procs
    OBVIOUS
  <2>3. close' \in [Procs -> {"idle", "unregistering", "stopping", "done",
                           "panicked"}]
    <3>1. CASE x \in WithRegistry
      BY <3>1
    <3>2. CASE x \notin WithRegistry
      BY <3>2
    <3> QED BY <3>1, <3>2
  <2>4. del' \in [Procs -> {"none", "sent", "blank", "ok", "err"}]
    OBVIOUS
  <2>5. crashed' \in [Procs -> BOOLEAN] /\ bound' \in [Procs -> BOOLEAN]
    <3>1. \/ crashed' = crashed /\ bound' = bound
          \/ crashed' = [crashed EXCEPT ![x] = TRUE] /\ bound' = [bound EXCEPT ![x] = FALSE]
      OBVIOUS
    <3>2. crashed \in [Procs -> BOOLEAN] /\ bound \in [Procs -> BOOLEAN]
      OBVIOUS
    <3> HIDE DEF CloseBegin, IInv, Parts, TypeOK
    <3> QED BY <3>1, <3>2
  <2> QED BY <2>1, <2>2, <2>3, <2>4, <2>5
<1>2. StartPlaces'
  <2> SUFFICES ASSUME NEW p \in Procs PROVE StartPlace(p)'
    BY DEF StartPlaces
  <2>1. StartPlace(p)
    BY DEF StartPlaces
  <2>2. CASE p = x
    BY <2>1, <2>2 DEF StartPlace
  <2>3. CASE p # x
    BY <2>1, <2>3 DEF StartPlace
  <2> QED BY <2>2, <2>3
<1>3. ClosePlaces'
  <2>1. StartPlace(x)
    BY DEF StartPlaces
  <2>2. start[x] \in {"serving", "stopped"} /\ x \in WithRegistry => inst[x]
    BY <2>1 DEF StartPlace, ClosePlaces
  <2> QED BY <2>2 DEF ClosePlaces
<1>4. Held'
  BY DEF Held, StartPlaces, StartPlace, KeyDeleted
<1>5. Ported'
  <2>1. ASSUME NEW p \in Procs, ~crashed'[p],
                \/ start'[p] \in {"listening", "registering", "registered",
                                  "serving"}
                \/ start'[p] = "failed" /\ inst'[p]
        PROVE  bound'[p]
    <3>1. CASE p = x
      BY <2>1, <3>1 DEF Ported
    <3>2. CASE p # x
      BY <2>1, <3>2 DEF Ported
    <3> QED BY <3>1, <3>2
  <2>2. ASSUME NEW p \in Procs, NEW q \in Procs, bound'[p], bound'[q],
               Port[p] = Port[q]
        PROVE  p = q
    <3>1. bound[p] /\ bound[q]
      BY <2>2
    <3> QED BY <2>2, <3>1 DEF Ported
  <2> QED BY <2>1, <2>2 DEF Ported
<1>6. Unlisted'
  BY DEF Unlisted, Listed, StartPlaces, StartPlace, ClosePlaces, KeyDeleted, Held
<1>7. PutHolds'
  BY DEF PutHolds, Listed, OwnKey, StartPlaces, StartPlace, ClosePlaces, Ported, KeyDeleted, Held
<1> QED BY <1>1, <1>2, <1>3, <1>4, <1>5, <1>6, <1>7

\* UnregisterErr keeps the invariant.
LEMMA UnregisterErrInv ==
    ASSUME IInv, NEW x \in Procs, UnregisterErr(x), ~crashed[x]
    PROVE  IInv'
<1> USE ProcsAssumption DEF UnregisterErr, IInv, Parts, TypeOK, server, request, history
<1>1. TypeOK'
  OBVIOUS
<1>2. StartPlaces'
  <2> SUFFICES ASSUME NEW p \in Procs PROVE StartPlace(p)'
    BY DEF StartPlaces
  <2>1. StartPlace(p)
    BY DEF StartPlaces
  <2>2. CASE p = x
    BY <2>1, <2>2 DEF StartPlace
  <2>3. CASE p # x
    BY <2>1, <2>3 DEF StartPlace
  <2> QED BY <2>2, <2>3
<1>3. ClosePlaces'
  BY DEF ClosePlaces
<1>4. Held'
  BY DEF Held, StartPlaces, StartPlace, KeyDeleted
<1>5. Ported'
  BY DEF Ported, PortFree, StartPlaces, StartPlace
<1>6. Unlisted'
  BY DEF Unlisted, Listed, StartPlaces, StartPlace, ClosePlaces, KeyDeleted, Held
<1>7. PutHolds'
  BY DEF PutHolds, Listed, OwnKey, StartPlaces, StartPlace, ClosePlaces, Ported, KeyDeleted, Held
<1> QED BY <1>1, <1>2, <1>3, <1>4, <1>5, <1>6, <1>7

\* GracefulStop keeps the invariant.
LEMMA GracefulStopInv ==
    ASSUME IInv, NEW x \in Procs, GracefulStop(x), ~crashed[x]
    PROVE  IInv'
<1> USE ProcsAssumption DEF GracefulStop, IInv, Parts, TypeOK, server, request, history
<1>1. TypeOK'
  OBVIOUS
<1>2. StartPlaces'
  <2> SUFFICES ASSUME NEW p \in Procs PROVE StartPlace(p)'
    BY DEF StartPlaces
  <2>1. StartPlace(p)
    BY DEF StartPlaces
  <2>2. CASE p = x
    BY <2>1, <2>2 DEF StartPlace
  <2>3. CASE p # x
    BY <2>1, <2>3 DEF StartPlace
  <2> QED BY <2>2, <2>3
<1>3. ClosePlaces'
  BY DEF ClosePlaces
<1>4. Held'
  BY DEF Held, StartPlaces, StartPlace, KeyDeleted
<1>5. Ported'
  <2>1. ASSUME NEW p \in Procs, ~crashed'[p],
                \/ start'[p] \in {"listening", "registering", "registered",
                                  "serving"}
                \/ start'[p] = "failed" /\ inst'[p]
        PROVE  bound'[p]
    <3>1. CASE p = x
      BY <2>1, <3>1 DEF Ported
    <3>2. CASE p # x
      BY <2>1, <3>2 DEF Ported
    <3> QED BY <3>1, <3>2
  <2>2. ASSUME NEW p \in Procs, NEW q \in Procs, bound'[p], bound'[q],
               Port[p] = Port[q]
        PROVE  p = q
    <3>1. bound[p] /\ bound[q]
      BY <2>2
    <3> QED BY <2>2, <3>1 DEF Ported
  <2> QED BY <2>1, <2>2 DEF Ported
<1>6. Unlisted'
  BY DEF Unlisted, Listed, StartPlaces, StartPlace, ClosePlaces, KeyDeleted, Held
<1>7. PutHolds'
  BY DEF PutHolds, Listed, OwnKey, StartPlaces, StartPlace, ClosePlaces, Ported, KeyDeleted, Held
<1> QED BY <1>1, <1>2, <1>3, <1>4, <1>5, <1>6, <1>7

\* CloseReturn keeps the invariant.
LEMMA CloseReturnInv ==
    ASSUME IInv, NEW x \in Procs, CloseReturn(x), ~crashed[x]
    PROVE  IInv'
<1> USE ProcsAssumption DEF CloseReturn, IInv, Parts, TypeOK, server, request, history
<1>1. TypeOK'
  OBVIOUS
<1>2. StartPlaces'
  <2> SUFFICES ASSUME NEW p \in Procs PROVE StartPlace(p)'
    BY DEF StartPlaces
  <2>1. StartPlace(p)
    BY DEF StartPlaces
  <2>2. CASE p = x
    BY <2>1, <2>2 DEF StartPlace
  <2>3. CASE p # x
    BY <2>1, <2>3 DEF StartPlace
  <2> QED BY <2>2, <2>3
<1>3. ClosePlaces'
  BY DEF ClosePlaces
<1>4. Held'
  BY DEF Held, StartPlaces, StartPlace, KeyDeleted
<1>5. Ported'
  BY DEF Ported, PortFree, StartPlaces, StartPlace
<1>6. Unlisted'
  BY DEF Unlisted, Listed, StartPlaces, StartPlace, ClosePlaces, KeyDeleted, Held
<1>7. PutHolds'
  BY DEF PutHolds, Listed, OwnKey, StartPlaces, StartPlace, ClosePlaces, Ported, KeyDeleted, Held
<1> QED BY <1>1, <1>2, <1>3, <1>4, <1>5, <1>6, <1>7

\* ApplyPut keeps the invariant.
LEMMA ApplyPutInv ==
    ASSUME IInv, NEW x \in Procs, ApplyPut(x)
    PROVE  IInv'
<1> USE ProcsAssumption DEF ApplyPut, IInv, Parts, TypeOK, server, request, history
<1>1. TypeOK'
  OBVIOUS
<1>2. StartPlaces'
  <2> SUFFICES ASSUME NEW p \in Procs PROVE StartPlace(p)'
    BY DEF StartPlaces
  <2>1. StartPlace(p)
    BY DEF StartPlaces
  <2>2. CASE p = x
    BY <2>1, <2>2 DEF StartPlace
  <2>3. CASE p # x
    BY <2>1, <2>3 DEF StartPlace
  <2> QED BY <2>2, <2>3
<1>3. ClosePlaces'
  BY DEF ClosePlaces
<1>4. Held'
  <2> SUFFICES ASSUME NEW k \in Keys, NEW p \in Procs, store'[k] = p
               PROVE  /\ p \in WithRegistry /\ k = Key[p]
                      /\ lease'[p] /\ inst'[p]
    BY DEF Held
  <2>1. StartPlace(x)
    BY DEF StartPlaces
  <2>2. CASE k = Key[x] /\ lease[x]
    BY <2>1, <2>2 DEF StartPlace
  <2>3. CASE ~(k = Key[x] /\ lease[x])
    BY <2>3 DEF Held
  <2> QED BY <2>2, <2>3
<1>5. Ported'
  BY DEF Ported, PortFree, StartPlaces, StartPlace
<1>6. Unlisted'
  <2> SUFFICES ASSUME NEW p \in Procs, del'[p] = "ok", p \notin raced',
                        start'[p] \in {"serving", "stopped"}, store'[Key[p]] = p
               PROVE  FALSE
    BY DEF Unlisted, Listed
  <2>1. StartPlace(p) /\ Key[p] \in Keys
    BY DEF StartPlaces
  <2>2. p # x
    BY <2>1 DEF StartPlace
  <2> QED BY <2>1, <2>2 DEF Unlisted, Listed
<1>7. PutHolds'
  <2> SUFFICES ASSUME NEW p \in WithRegistry, put'[p] = "ok",
                        start'[p] \in {"registering", "registered", "serving"},
                        ~crashed'[p], lease'[p], tries'[p] = 0, OwnKey(p),
                        Key[p] \notin late'
               PROVE  store'[Key[p]] = p
    BY DEF PutHolds, Listed, OwnKey
  <2>1. p \in Procs /\ Key[p] \in Keys
    OBVIOUS
  <2>2. CASE p = x
    BY <2>1, <2>2
  <2>3. CASE p # x
    <3>1. store[Key[p]] = p /\ bound[p]
      BY <2>1, <2>3 DEF PutHolds, Listed, Ported
    <3>2. CASE Key[x] = Key[p]
      <4>1. start[x] = "registering" /\ ~crashed[x]
        BY DEF StartPlaces, StartPlace
      <4>2. bound[x]
        BY <4>1 DEF Ported
      <4>3. Port[x] = Port[p]
        BY <3>2 DEF OwnKey
      <4> QED BY <2>1, <2>3, <3>1, <4>2, <4>3 DEF Ported
    <3>3. CASE Key[x] # Key[p]
      BY <2>1, <3>1, <3>3
    <3> QED BY <3>2, <3>3
  <2> QED BY <2>2, <2>3
<1> QED BY <1>1, <1>2, <1>3, <1>4, <1>5, <1>6, <1>7

\* ApplyDelete keeps the invariant.
LEMMA ApplyDeleteInv ==
    ASSUME IInv, NEW x \in Procs, ApplyDelete(x)
    PROVE  IInv'
<1> USE ProcsAssumption DEF ApplyDelete, IInv, Parts, TypeOK, server, request, history
<1>1. TypeOK'
  <2>1. store' \in [Keys -> Procs \cup {None}]
    BY DEF KeyDeleted
  <2> QED BY <2>1
<1>2. StartPlaces'
  <2> SUFFICES ASSUME NEW p \in Procs PROVE StartPlace(p)'
    BY DEF StartPlaces
  <2>1. StartPlace(p)
    BY DEF StartPlaces
  <2>2. CASE p = x
    BY <2>1, <2>2 DEF StartPlace
  <2>3. CASE p # x
    BY <2>1, <2>3 DEF StartPlace
  <2> QED BY <2>2, <2>3
<1>3. ClosePlaces'
  BY DEF ClosePlaces
<1>4. Held'
  BY DEF Held, StartPlaces, StartPlace, KeyDeleted
<1>5. Ported'
  BY DEF Ported, PortFree, StartPlaces, StartPlace
<1>6. Unlisted'
  <2> SUFFICES ASSUME NEW p \in Procs, del'[p] = "ok", p \notin raced',
                        start'[p] \in {"serving", "stopped"}, store'[Key[p]] = p
               PROVE  FALSE
    BY DEF Unlisted, Listed
  <2>1. StartPlace(p) /\ Key[p] \in Keys
    BY DEF StartPlaces
  <2>2. store[Key[p]] = p
    BY <2>1 DEF KeyDeleted
  <2>3. CASE p = x
    <3>1. del[x] = "sent"
      BY <2>3 DEF ClosePlaces
    <3> QED BY <2>1, <2>2, <2>3, <3>1 DEF Held, KeyDeleted
  <2>4. CASE p # x
    BY <2>2, <2>4 DEF Unlisted, Listed
  <2> QED BY <2>3, <2>4
<1>7. PutHolds'
  <2> SUFFICES ASSUME NEW p \in WithRegistry, put'[p] = "ok",
                        start'[p] \in {"registering", "registered", "serving"},
                        ~crashed'[p], lease'[p], tries'[p] = 0, OwnKey(p),
                        Key[p] \notin late'
               PROVE  store'[Key[p]] = p
    BY DEF PutHolds, Listed, OwnKey
  <2>1. p \in Procs /\ Key[p] \in Keys
    OBVIOUS
  <2>2. store[Key[p]] = p
    BY <2>1 DEF PutHolds, Listed
  <2>3. bound[p]
    BY <2>1 DEF Ported
  <2>4. p # x
    BY <2>1 DEF ClosePlaces
  <2>5. CASE del[x] = "sent" /\ Key[x] = Key[p]
    <3>1. inst[x] /\ close[x] = "unregistering" /\ ~crashed[x]
      BY <2>5 DEF ClosePlaces
    <3>2. ~stopped[x] /\ start[x] # "stopped"
      BY <3>1 DEF ClosePlaces
    <3>3. start[x] \notin {"idle", "listening"}
      <4>1. StartPlace(x)
        BY DEF StartPlaces
      <4> QED BY <4>1, <3>1 DEF StartPlace
    <3>4. start[x] \in {"registering", "registered", "serving", "failed"}
      BY <3>2, <3>3
    <3>5. bound[x]
      BY <2>5, <3>1, <3>4 DEF Ported
    <3>6. Port[x] = Port[p]
      BY <2>5 DEF OwnKey
    <3> QED BY <2>1, <2>3, <2>4, <3>5, <3>6 DEF Ported
  <2>6. CASE ~(del[x] = "sent" /\ Key[x] = Key[p])
    BY <2>1, <2>2, <2>6 DEF KeyDeleted
  <2> QED BY <2>5, <2>6
<1> QED BY <1>1, <1>2, <1>3, <1>4, <1>5, <1>6, <1>7

\* ApplyStray keeps the invariant.
LEMMA ApplyStrayInv ==
    ASSUME IInv, NEW x \in Procs, ApplyStray(x)
    PROVE  IInv'
<1> USE ProcsAssumption DEF ApplyStray, IInv, Parts, TypeOK, server, request, history
<1>1. TypeOK'
  OBVIOUS
<1>2. StartPlaces'
  <2> SUFFICES ASSUME NEW p \in Procs PROVE StartPlace(p)'
    BY DEF StartPlaces
  <2>1. StartPlace(p)
    BY DEF StartPlaces
  <2>2. CASE p = x
    BY <2>1, <2>2 DEF StartPlace
  <2>3. CASE p # x
    BY <2>1, <2>3 DEF StartPlace
  <2> QED BY <2>2, <2>3
<1>3. ClosePlaces'
  BY DEF ClosePlaces
<1>4. Held'
  <2> SUFFICES ASSUME NEW k \in Keys, NEW p \in Procs, store'[k] = p
               PROVE  /\ p \in WithRegistry /\ k = Key[p]
                      /\ lease'[p] /\ inst'[p]
    BY DEF Held
  <2>1. StartPlace(x)
    BY DEF StartPlaces
  <2>2. CASE k = Key[x] /\ lease[x]
    BY <2>1, <2>2 DEF StartPlace
  <2>3. CASE ~(k = Key[x] /\ lease[x])
    BY <2>3 DEF Held
  <2> QED BY <2>2, <2>3
<1>5. Ported'
  BY DEF Ported, PortFree, StartPlaces, StartPlace
<1>6. Unlisted'
  BY DEF Unlisted, Listed, StartPlaces, StartPlace, ClosePlaces, KeyDeleted, Held
<1>7. PutHolds'
  BY DEF PutHolds, Listed, OwnKey, StartPlaces, StartPlace, ClosePlaces, Ported, KeyDeleted, Held
<1> QED BY <1>1, <1>2, <1>3, <1>4, <1>5, <1>6, <1>7

\* LeaseExpire keeps the invariant.
LEMMA LeaseExpireInv ==
    ASSUME IInv, NEW x \in Procs, LeaseExpire(x)
    PROVE  IInv'
<1> USE ProcsAssumption DEF LeaseExpire, IInv, Parts, TypeOK, server, request, history
<1>1. TypeOK'
  OBVIOUS
<1>2. StartPlaces'
  <2> SUFFICES ASSUME NEW p \in Procs PROVE StartPlace(p)'
    BY DEF StartPlaces
  <2>1. StartPlace(p)
    BY DEF StartPlaces
  <2>2. CASE p = x
    BY <2>1, <2>2 DEF StartPlace
  <2>3. CASE p # x
    BY <2>1, <2>3 DEF StartPlace
  <2> QED BY <2>2, <2>3
<1>3. ClosePlaces'
  BY DEF ClosePlaces
<1>4. Held'
  BY DEF Held, StartPlaces, StartPlace, KeyDeleted
<1>5. Ported'
  BY DEF Ported, PortFree, StartPlaces, StartPlace
<1>6. Unlisted'
  <2> SUFFICES ASSUME NEW p \in Procs, del'[p] = "ok", p \notin raced',
                        start'[p] \in {"serving", "stopped"}, store'[Key[p]] = p
               PROVE  FALSE
    BY DEF Unlisted, Listed
  <2>1. StartPlace(p) /\ Key[p] \in Keys
    BY DEF StartPlaces
  <2>2. store[Key[p]] = p
    BY <2>1
  <2> QED BY <2>2 DEF Unlisted, Listed
<1>7. PutHolds'
  <2> SUFFICES ASSUME NEW p \in WithRegistry, put'[p] = "ok",
                        start'[p] \in {"registering", "registered", "serving"},
                        ~crashed'[p], lease'[p], tries'[p] = 0, OwnKey(p),
                        Key[p] \notin late'
               PROVE  store'[Key[p]] = p
    BY DEF PutHolds, Listed, OwnKey
  <2>1. p \in Procs /\ Key[p] \in Keys
    OBVIOUS
  <2>2. p # x
    BY <2>1
  <2> QED BY <2>1, <2>2 DEF PutHolds, Listed
<1> QED BY <1>1, <1>2, <1>3, <1>4, <1>5, <1>6, <1>7

\* Crash keeps the invariant.
LEMMA CrashInv ==
    ASSUME IInv, NEW x \in Procs, Crash(x), ~crashed[x]
    PROVE  IInv'
<1> USE ProcsAssumption DEF Crash, IInv, Parts, TypeOK, server, request, history
<1>1. TypeOK'
  OBVIOUS
<1>2. StartPlaces'
  <2> SUFFICES ASSUME NEW p \in Procs PROVE StartPlace(p)'
    BY DEF StartPlaces
  <2>1. StartPlace(p)
    BY DEF StartPlaces
  <2>2. CASE p = x
    BY <2>1, <2>2 DEF StartPlace
  <2>3. CASE p # x
    BY <2>1, <2>3 DEF StartPlace
  <2> QED BY <2>2, <2>3
<1>3. ClosePlaces'
  BY DEF ClosePlaces
<1>4. Held'
  BY DEF Held, StartPlaces, StartPlace, KeyDeleted
<1>5. Ported'
  BY DEF Ported, PortFree, StartPlaces, StartPlace
<1>6. Unlisted'
  BY DEF Unlisted, Listed, StartPlaces, StartPlace, ClosePlaces, KeyDeleted, Held
<1>7. PutHolds'
  BY DEF PutHolds, Listed, OwnKey, StartPlaces, StartPlace, ClosePlaces, Ported, KeyDeleted, Held
<1> QED BY <1>1, <1>2, <1>3, <1>4, <1>5, <1>6, <1>7

\* So every step keeps the invariant.
LEMMA InvStep == IInv /\ [Next]_vars => IInv'
<1> SUFFICES ASSUME IInv, [Next]_vars PROVE IInv'
  OBVIOUS
<1>1. ASSUME NEW p \in Procs, ~crashed[p], StartStep(p) PROVE IInv'
  BY <1>1, ListenInv, ListenFailInv, RegisterInv, RegisterOkInv,
     RegisterErrInv, ServeInv
  DEF StartStep
<1>2. ASSUME NEW p \in Procs, ~crashed[p], CloseStep(p) PROVE IInv'
  BY <1>2, CloseBeginInv, UnregisterErrInv, GracefulStopInv, CloseReturnInv
  DEF CloseStep
<1>3. ASSUME NEW p \in Procs, EtcdStep(p) PROVE IInv'
  BY <1>3, ApplyPutInv, ApplyDeleteInv, ApplyStrayInv, LeaseExpireInv
  DEF EtcdStep
<1>4. ASSUME NEW p \in Procs, ~crashed[p], RegistryClose(p) \/ Crash(p)
      PROVE  IInv'
  BY <1>4, LeaseExpireInv, CrashInv DEF RegistryClose
<1>5. CASE UNCHANGED vars
  <2> USE <1>5 DEF vars, IInv, Parts
  <2>1. TypeOK'
    BY DEF TypeOK
  <2>2. StartPlaces' /\ ClosePlaces'
    BY DEF StartPlaces, StartPlace, ClosePlaces
  <2>3. Held' /\ Ported'
    BY DEF Held, Ported
  <2>4. Unlisted' /\ PutHolds'
    BY DEF Unlisted, PutHolds, Listed
  <2> QED BY <2>1, <2>2, <2>3, <2>4
<1> QED BY <1>1, <1>2, <1>3, <1>4, <1>5 DEF Next

-----------------------------------------------------------------------------
(***************************************************************************)
(* The inductive invariant holds throughout.  About the whole of           *)
(* server.go's Start and Close.                                            *)
(***************************************************************************)
THEOREM Invariance == Spec => []IInv
BY InitIInv, InvStep, PTL DEF Spec

(***************************************************************************)
(* Type correctness of Registration.  About server.go:51-98.               *)
(***************************************************************************)
THEOREM TypeCorrect == Spec => []TypeOK
<1>1. IInv => TypeOK
  BY DEF IInv
<1> QED BY <1>1, Invariance, PTL

\* A process that is listed and has not died is where Start still holds its port.
LEMMA BoundByInv == IInv => BoundWhileListed
<1> SUFFICES ASSUME IInv, NEW p \in Procs, Listed(p), ~crashed[p],
                    p \notin raced
             PROVE  bound[p]
  BY DEF BoundWhileListed
<1> USE DEF IInv, Parts
<1>1. inst[p] /\ StartPlace(p) /\ Key[p] \in Keys
  BY ProcsAssumption DEF Held, Listed, StartPlaces
<1>2. start[p] # "stopped"
  \* Else its Delete was answered, and it would not be listed.
  BY DEF Unlisted, ClosePlaces
<1>3. start[p] \notin {"idle", "listening"}
  BY <1>1 DEF StartPlace
<1>4. start[p] \in {"registering", "registered", "serving", "failed"}
  BY <1>2, <1>3 DEF TypeOK
<1> QED BY <1>1, <1>4 DEF Ported

(***************************************************************************)
(* However many processes there are: a listed process holds its port, has  *)
(* died, or was closed before it served.  About the order of Start and of  *)
(* Close, server.go:51-98.                                                 *)
(***************************************************************************)
THEOREM ListedBound == Spec => []BoundWhileListed
BY BoundByInv, Invariance, PTL

\* A serving process that was not asked to close keeps what its Put wrote.
LEMMA ListedByInv == IInv => ServingListed
BY ProcsAssumption
DEF IInv, Parts, ServingListed, PutHolds, StartPlaces, StartPlace

(***************************************************************************)
(* However many processes succeed each other at an address: one that       *)
(* serves and was not asked to close is listed while its lease lives,      *)
(* unless a stray request hit its key.  About instanceKey and Unregister   *)
(* by key, etcd/registry.go:59-62 and 196-198, and server.go:90-94.        *)
(***************************************************************************)
THEOREM ServingIsListed == Spec => []ServingListed
BY ListedByInv, Invariance, PTL

(***************************************************************************)
(* A process whose Close returned without an error, and not too early, is  *)
(* neither listed nor bound.  About Server.Close, server.go:85-98.         *)
(***************************************************************************)
THEOREM ClosedIsGone == Spec => []ClosedMeansGone
<1>1. IInv => ClosedMeansGone
  BY DEF IInv, Parts, ClosedMeansGone, Unlisted, ClosePlaces
<1> QED BY <1>1, Invariance, PTL
=============================================================================
