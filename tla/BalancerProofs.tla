---------------------------- MODULE BalancerProofs ----------------------------
(***************************************************************************)
(* What holds of the pickers of loadbalance for any number of callers and  *)
(* connections, any groups and weights, and any forcePick and logInterval. *)
(***************************************************************************)
EXTENDS Balancers, SumProofs, TLAPS

-----------------------------------------------------------------------------
(***************************************************************************)
(* The power of two choices.                                               *)
(***************************************************************************)
\* The types that the arguments below need.
Typed ==
    /\ len \in 0 .. NConns
    /\ now \in Nat /\ now >= Start
    /\ pc \in [Callers -> {"idle", "choose", "call", "swap", "load", "store",
                           "stamp", "cas", "log"}]
    /\ pair \in [Callers -> Int \X Int]
    /\ chosen \in [Callers -> Conns \cup {0}]
    /\ start \in [Callers -> Nat]
    /\ pick \in [Conns -> Nat]
    /\ inflight \in [Conns -> Int]
    /\ latest \in Nat /\ picks \in {0, 1, 2} /\ slow \in BOOLEAN

\* The lock is held by one caller, whose time is no earlier than the last
\* pick's, and which chooses from a pair of this picker.
Choosing ==
    /\ \A g, h \in Callers : pc[g] = "choose" /\ pc[h] = "choose" => g = h
    /\ latest <= now
    /\ \A g \in Callers :
          pc[g] = "choose" =>
            /\ latest <= start[g] /\ Start <= start[g] /\ start[g] <= now
            /\ len > 0 /\ pair[g] \in Pairs

\* Of two connections one was picked last; the other one was not picked yet,
\* or, as long as no pick came late, within forcePick before.
Spread(a, b) ==
    /\ pick[a] = latest
    /\ picks = 1 => pick[b] = 0
    /\ picks = 2 /\ ~slow => pick[b] >= latest - ForcePick /\ pick[b] <= latest

Picked ==
    len = 2 =>
        /\ picks = 0 => pick[1] = 0 /\ pick[2] = 0
        /\ picks > 0 => Spread(1, 2) \/ Spread(2, 1)

IInv == Typed /\ Choosing /\ Picked /\ InflightCounts

-----------------------------------------------------------------------------
\* The pair to choose from is one of the picker's connections, the second
\* one perhaps nil (picker.go:97-115).
LEMMA PairsType ==
    ASSUME Typed, len > 0, NEW p \in Pairs
    PROVE  /\ p[1] \in Conns /\ p[2] \in Conns \cup {0} /\ p \in Int \X Int
           /\ len = 2 => p = <<1, 2>>
<1> USE ConnsAssumption DEF Typed, Conns
<1>1. CASE len <= 2
  BY <1>1 DEF Pairs
<1>2. CASE len > 2
  BY <1>2 DEF Pairs
<1> QED BY <1>1, <1>2 DEF Typed

\* choose takes one of the pair; of two, it passes an overdue one over only
\* for another overdue one (picker.go:123-142).
LEMMA ChosenOfPair ==
    ASSUME Typed, Choosing, NEW g \in Callers, pc[g] = "choose"
    PROVE  /\ Chosen(g) \in Conns
           /\ len = 2 => \E d \in {1, 2} :
                            /\ {Chosen(g), d} = {1, 2}
                            /\ Overdue(g, d) => Overdue(g, Chosen(g))
<1>1. len > 0 /\ pair[g] \in Pairs
  BY DEF Choosing
<1>2. /\ pair[g][1] \in Conns /\ pair[g][2] \in Conns \cup {0}
      /\ len = 2 => pair[g] = <<1, 2>>
  BY <1>1, PairsType
<1>3. CASE pair[g][2] = 0
  BY <1>2, <1>3 DEF Chosen
<1>4. CASE pair[g][2] # 0
  <2> DEFINE less == ByLoad(g)[1]
             more == ByLoad(g)[2]
  <2>1. \/ less = pair[g][1] /\ more = pair[g][2]
        \/ less = pair[g][2] /\ more = pair[g][1]
    BY DEF ByLoad
  <2>2. Chosen(g) = IF Overdue(g, more) THEN more ELSE less
    BY <1>4 DEF Chosen
  <2>3. Chosen(g) \in Conns
    BY <1>2, <1>4, <2>1, <2>2
  <2>4. ASSUME len = 2
        PROVE  \E d \in {1, 2} : /\ {Chosen(g), d} = {1, 2}
                                 /\ Overdue(g, d) => Overdue(g, Chosen(g))
    <3>1. pair[g][1] = 1 /\ pair[g][2] = 2
      BY <1>2, <2>4
    <3> HIDE DEF less, more
    <3>2. {less, more} = {1, 2}
      BY <2>1, <3>1
    <3>3. CASE Overdue(g, more)
      <4>1. Chosen(g) = more
        BY <2>2, <3>3
      <4> QED BY <4>1, <3>2, <3>3
    <3>4. CASE ~Overdue(g, more)
      <4>1. Chosen(g) = less
        BY <2>2, <3>4
      <4> QED BY <4>1, <3>2, <3>4
    <3> QED BY <3>3, <3>4
  <2> QED BY <2>3, <2>4
<1> QED BY <1>3, <1>4

\* Type correctness of what is argued about (picker.go:81-88, 203-229).
LEMMA TypedKept == Typed /\ Choosing /\ [Next]_vars => Typed'
<1> SUFFICES ASSUME Typed, Choosing, [Next]_vars PROVE Typed'
  OBVIOUS
<1> USE P2CAssumption DEF Typed, Start
<1>1. CASE Tick
  BY <1>1 DEF Tick, conns, local, seen
<1>2. ASSUME NEW g \in Callers, Pick(g) PROVE Typed'
  <2>1. PICK p \in Pairs : pair' = [pair EXCEPT ![g] = p]
    BY <1>2 DEF Pick
  <2>2. p \in Int \X Int
    BY <1>2, PairsType DEF Pick
  <2> QED BY <1>2, <2>1, <2>2 DEF Pick, Goto, conns, seen
<1>3. ASSUME NEW g \in Callers, Choose(g) PROVE Typed'
  <2>1. Chosen(g) \in Conns
    BY <1>3, ChosenOfPair DEF Choose
  <2> HIDE DEF Typed
  <2> DEFINE c == Chosen(g)
  <2>2. /\ pick' = [pick EXCEPT ![c] = start[g]]
        /\ inflight' = [inflight EXCEPT ![c] = @ + 1]
        /\ chosen' = [chosen EXCEPT ![g] = c]
    BY <1>3 DEF Choose
  <2> HIDE DEF c
  <2>3. c \in Conns
    BY <2>1 DEF c
  <2> USE DEF Typed
  <2>4. /\ pick' \in [Conns -> Nat] /\ inflight' \in [Conns -> Int]
        /\ chosen' \in [Callers -> Conns \cup {0}]
    BY <2>2, <2>3
  <2> QED BY <1>3, <2>4 DEF Choose, Goto
<1>4. ASSUME NEW g \in Callers, Done(g) PROVE Typed'
  <2>1. inflight' \in [Conns -> Int]
    <3> DEFINE c == chosen[g]
    <3>1. inflight' = [inflight EXCEPT ![c] = @ - 1]
      BY <1>4 DEF Done
    <3> HIDE DEF c
    <3>2. CASE c \in Conns
      BY <3>1, <3>2
    <3>3. CASE c \notin Conns
      BY <3>1, <3>3
    <3> QED BY <3>2, <3>3
  <2>2. pc' \in [Callers -> {"idle", "choose", "call", "swap", "load", "store",
                            "stamp", "cas", "log"}]
    BY <1>4 DEF Done, Goto
  <2> QED BY <1>4, <2>1, <2>2 DEF Done, seen
<1>5. ASSUME NEW g \in Callers, SwapLast(g) PROVE Typed'
  BY <1>5 DEF SwapLast, Goto, seen
<1>6. ASSUME NEW g \in Callers, LoadLatency(g) PROVE Typed'
  BY <1>6 DEF LoadLatency, Goto, conns, seen
<1>7. ASSUME NEW g \in Callers, StoreLatency(g) PROVE Typed'
  BY <1>7 DEF StoreLatency, Goto, seen
<1>8. ASSUME NEW g \in Callers, LoadStamp(g) PROVE Typed'
  BY <1>8 DEF LoadStamp, Goto, conns, seen
<1>9. ASSUME NEW g \in Callers, SwapStamp(g) PROVE Typed'
  BY <1>9 DEF SwapStamp, Goto, conns, seen
<1>10. ASSUME NEW g \in Callers, LogStats(g) PROVE Typed'
  BY <1>10 DEF LogStats, conns, local, seen
<1>11. CASE UNCHANGED vars
  BY <1>11 DEF vars, conns, local, seen
<1> QED
  BY <1>1, <1>2, <1>3, <1>4, <1>5, <1>6, <1>7, <1>8, <1>9, <1>10, <1>11 DEF Next

\* The steps of a Done, which hold no lock (picker.go:149-190).
DoneStep(g) ==
    \/ Done(g) \/ SwapLast(g) \/ LoadLatency(g) \/ StoreLatency(g)
    \/ LoadStamp(g) \/ SwapStamp(g) \/ LogStats(g)

\* A Done changes nothing that Pick's invariants are about.
LEMMA DoneApart ==
    ASSUME Typed, NEW g \in Callers, DoneStep(g)
    PROVE  /\ UNCHANGED <<len, now, pair, pick, latest, picks, slow>>
           /\ pc[g] # "choose" /\ pc'[g] # "choose"
           /\ \A h \in Callers \ {g} : pc'[h] = pc[h] /\ start'[h] = start[h]
<1> USE DEF Typed, Goto, conns, local, seen
<1>1. CASE Done(g)
  BY <1>1 DEF Done
<1>2. CASE SwapLast(g)
  BY <1>2 DEF SwapLast
<1>3. CASE LoadLatency(g)
  BY <1>3 DEF LoadLatency
<1>4. CASE StoreLatency(g)
  BY <1>4 DEF StoreLatency
<1>5. CASE LoadStamp(g)
  BY <1>5 DEF LoadStamp
<1>6. CASE SwapStamp(g)
  BY <1>6 DEF SwapStamp
<1>7. CASE LogStats(g)
  BY <1>7 DEF LogStats
<1> QED BY <1>1, <1>2, <1>3, <1>4, <1>5, <1>6, <1>7 DEF DoneStep

\* Pick is alone with the lock, and the clock does not go back
\* (picker.go:91-92, 124).
LEMMA ChoosingKept == Typed /\ Choosing /\ [Next]_vars => Choosing'
<1> SUFFICES ASSUME Typed, Choosing, [Next]_vars PROVE Choosing'
  OBVIOUS
<1>1. CASE Tick
  BY <1>1 DEF Tick, Typed, Choosing, Pairs, conns, local, seen
<1>2. ASSUME NEW g \in Callers, Pick(g) PROVE Choosing'
  <2>1. /\ pair'[g] \in Pairs /\ start'[g] = now /\ pc'[g] = "choose"
        /\ len > 0 /\ now \in Nat /\ now >= Start
    BY <1>2 DEF Pick, Goto, Typed
  <2>2. \A h \in Callers : h # g => pc'[h] # "choose"
    BY <1>2 DEF Pick, Goto, Typed, Locked
  <2>3. UNCHANGED <<len, now, latest>> /\ Pairs' = Pairs
    BY <1>2 DEF Pick, seen, Pairs
  <2> QED BY <2>1, <2>2, <2>3 DEF Choosing, Typed
<1>3. ASSUME NEW g \in Callers, Choose(g) PROVE Choosing'
  <2>1. \A h \in Callers : pc'[h] # "choose"
    BY <1>3 DEF Choose, Goto, Typed, Choosing
  <2>2. latest' = start[g] /\ now' = now /\ start[g] <= now
    BY <1>3 DEF Choose, Choosing
  <2> QED BY <2>1, <2>2 DEF Choosing
<1>4. ASSUME NEW g \in Callers, DoneStep(g) PROVE Choosing'
  <2>1. Pairs' = Pairs
    BY <1>4, DoneApart DEF Pairs
  <2> QED BY <1>4, <2>1, DoneApart DEF Choosing
<1>5. CASE UNCHANGED vars
  BY <1>5 DEF vars, local, seen, Choosing, Pairs
<1> QED BY <1>1, <1>2, <1>3, <1>4, <1>5 DEF Next, DoneStep

\* A pick of c, one of two connections, keeps the other one within forcePick
\* (picker.go:132-141).
LEMMA SpreadKept ==
    ASSUME Typed, Choosing, Picked, len = 2, NEW g \in Callers, Choose(g)
    PROVE  Spread(1, 2)' \/ Spread(2, 1)'
<1>1. PICK c \in {1, 2}, d \in {1, 2} :
          c = Chosen(g) /\ {c, d} = {1, 2} /\ (Overdue(g, d) => Overdue(g, c))
  <2>1. PICK e \in {1, 2} : /\ {Chosen(g), e} = {1, 2}
                            /\ Overdue(g, e) => Overdue(g, Chosen(g))
    BY ChosenOfPair DEF Choose
  <2>2. Chosen(g) \in {1, 2}
    BY <2>1
  <2> QED BY <2>1, <2>2
<1>2. /\ pick' = [pick EXCEPT ![c] = start[g]]
      /\ latest' = start[g]
      /\ picks' = IF picks = 2 THEN 2 ELSE picks + 1
      /\ slow' = (slow \/ (picks > 0 /\ start[g] - latest > ForcePick))
  BY <1>1 DEF Choose
<1>3. /\ start[g] - pick[d] > ForcePick => start[g] - pick[c] > ForcePick
      /\ latest <= start[g] /\ Start <= start[g] /\ start[g] \in Nat
      /\ latest \in Nat /\ pick[c] \in Nat /\ pick[d] \in Nat
      /\ start[g] - pick[d] \in Int /\ start[g] - pick[c] \in Int
      /\ c \in Conns /\ d \in Conns
  <2>1. len \in 0 .. NConns
    BY Zenon DEF Typed
  <2>2. c \in Conns /\ d \in Conns
    <3> HIDE DEF Typed
    <3> QED BY <2>1, ConnsAssumption DEF Conns
  <2> QED BY <1>1, <2>2 DEF Overdue, Choosing, Choose, Typed
<1>4. c \in {1, 2} /\ c # d
  BY <1>1
<1>5. pick'[c] = latest' /\ pick'[d] = pick[d]
  BY <1>2, <1>3, <1>4 DEF Typed
<1>6. \/ picks = 0 /\ pick[c] = 0 /\ pick[d] = 0
      \/ picks > 0 /\ (Spread(c, d) \/ Spread(d, c))
  BY <1>4 DEF Picked, Typed
<1>7. ForcePick \in Nat /\ LogInterval \in Nat /\ ForcePick < LogInterval
  BY P2CAssumption
<1>8. ~slow' /\ picks > 0 => ~slow /\ start[g] <= latest + ForcePick
  <2>1. ~slow' => ~slow /\ ~(picks > 0 /\ start[g] - latest > ForcePick)
    BY <1>2
  <2> QED BY <2>1, <1>3, <1>7
<1>9. Spread(c, d)'
  <2>1. CASE picks = 0
    BY <1>2, <1>5, <1>6, <2>1 DEF Spread
  <2>2. CASE picks = 1
    <3>1. picks' = 2
      BY <1>2, <2>2
    <3>2. CASE Spread(c, d)
      \* The other one was not picked yet: it is overdue and c is not.
      <4>1. pick[c] = latest /\ pick[d] = 0
        BY <2>2, <3>2 DEF Spread
      <4>2. ~slow' => FALSE
        BY <1>3, <1>7, <1>8, <2>2, <4>1 DEF Start
      <4> QED BY <1>5, <3>1, <4>2 DEF Spread
    <3>3. CASE Spread(d, c)
      <4>1. pick[d] = latest
        BY <3>3 DEF Spread
      <4>2. ~slow' => pick[d] >= latest' - ForcePick /\ pick[d] <= latest'
        BY <1>2, <1>3, <1>7, <1>8, <2>2, <4>1
      <4> QED BY <1>5, <3>1, <4>2 DEF Spread
    <3> QED BY <1>6, <2>2, <3>2, <3>3
  <2>3. CASE picks = 2
    <3>1. picks' = 2
      BY <1>2, <2>3
    <3>2. ~slow' => pick[d] <= latest
      BY <1>3, <1>6, <1>8, <2>3 DEF Spread
    <3>3. ~slow' => start[g] - pick[d] <= ForcePick
      <4>1. CASE Spread(c, d)
        \* If the other one is overdue, so is c, which was picked last.
        <5>1. pick[c] = latest
          BY <4>1 DEF Spread
        <5> QED BY <1>3, <1>7, <1>8, <2>3, <5>1
      <4>2. CASE Spread(d, c)
        <5>1. pick[d] = latest
          BY <4>2 DEF Spread
        <5> QED BY <1>3, <1>7, <1>8, <2>3, <5>1
      <4> QED BY <1>6, <2>3, <4>1, <4>2
    <3>4. ~slow' => pick[d] >= latest' - ForcePick /\ pick[d] <= latest'
      BY <1>2, <1>3, <1>7, <3>2, <3>3
    <3> QED BY <1>5, <3>1, <3>4 DEF Spread
  <2> QED BY <2>1, <2>2, <2>3 DEF Typed
<1> QED BY <1>1, <1>4, <1>9

\* The bound on missed picks is kept by every step.
LEMMA PickedKept == Typed /\ Choosing /\ Picked /\ [Next]_vars => Picked'
<1> SUFFICES ASSUME Typed, Choosing, Picked, [Next]_vars PROVE Picked'
  OBVIOUS
<1>1. ASSUME UNCHANGED <<len, pick, latest, picks, slow>> PROVE Picked'
  BY <1>1 DEF Picked, Spread
<1>2. ASSUME NEW g \in Callers, Choose(g) PROVE Picked'
  <2>1. len' = len /\ picks' > 0
    BY <1>2 DEF Choose, Typed
  <2>2. len = 2 => Spread(1, 2)' \/ Spread(2, 1)'
    BY <1>2, SpreadKept
  <2> QED BY <2>1, <2>2 DEF Picked
<1>3. CASE Tick
  BY <1>1, <1>3 DEF Tick, conns, seen
<1>4. ASSUME NEW g \in Callers, Pick(g) PROVE Picked'
  BY <1>1, <1>4 DEF Pick, conns, seen
<1>5. ASSUME NEW g \in Callers, DoneStep(g) PROVE Picked'
  BY <1>1, <1>5, DoneApart
<1>6. CASE UNCHANGED vars
  BY <1>1, <1>6 DEF vars, conns, seen
<1> QED BY <1>2, <1>3, <1>4, <1>5, <1>6 DEF Next, DoneStep

\* A caller that comes to hold a connection, or leaves it, is one more or one
\* less (picker.go:147, 150).
LEMMA Counting ==
    ASSUME NEW g \in Callers, NEW S \in SUBSET Callers, IsFiniteSet(Callers)
    PROVE  /\ g \notin S => Cardinality(S \cup {g}) = Cardinality(S) + 1
           /\ g \in S => Cardinality(S \ {g}) = Cardinality(S) - 1
<1>1. IsFiniteSet(S)
  BY FS_Subset
<1> QED BY <1>1, FS_AddElement, FS_RemoveElement

\* Only choose and the start of a Done move a call, with the counter that
\* belongs to it (picker.go:146-150).
LEMMA InflightKept ==
    Typed /\ Choosing /\ InflightCounts /\ [Next]_vars => InflightCounts'
<1> SUFFICES ASSUME Typed, Choosing, InflightCounts, [Next]_vars,
                    NEW c \in Conns
             PROVE  inflight'[c] = Cardinality({g \in Callers : Holds(g, c)})'
  BY DEF InflightCounts
<1> DEFINE Held == {g \in Callers : Holds(g, c)}
<1>1. inflight[c] = Cardinality(Held)
  BY DEF InflightCounts
<1>2. ASSUME UNCHANGED inflight, \A g \in Callers : Holds(g, c)' <=> Holds(g, c)
      PROVE  inflight'[c] = Cardinality(Held)'
  <2>1. Held' = Held
    BY <1>2
  <2> QED BY <1>1, <1>2, <2>1
<1>3. ASSUME NEW g \in Callers, Choose(g)
      PROVE  inflight'[c] = Cardinality(Held)'
  <2>1. PICK d \in Conns : /\ d = Chosen(g)
                           /\ inflight' = [inflight EXCEPT ![d] = @ + 1]
                           /\ chosen' = [chosen EXCEPT ![g] = d]
    BY <1>3, ChosenOfPair DEF Choose
  <2>2. pc[g] = "choose" /\ pc' = [pc EXCEPT ![g] = "call"]
    BY <1>3 DEF Choose, Goto
  <2>3. CASE d = c
    <3>1. g \notin Held /\ Held' = Held \cup {g}
      BY <2>1, <2>2, <2>3 DEF Holds, Typed
    <3>2. inflight'[c] = inflight[c] + 1
      BY <2>1, <2>3 DEF Typed
    <3> HIDE DEF Held
    <3> QED BY <1>1, <3>1, <3>2, Counting, P2CAssumption DEF Held
  <2>4. CASE d # c
    <3>1. Held' = Held /\ inflight'[c] = inflight[c]
      BY <2>1, <2>2, <2>4 DEF Holds, Typed
    <3> QED BY <1>1, <3>1
  <2> QED BY <2>3, <2>4
<1>4. ASSUME NEW g \in Callers, Done(g)
      PROVE  inflight'[c] = Cardinality(Held)'
  <2>1. /\ pc[g] = "call" /\ pc' = [pc EXCEPT ![g] = "swap"]
        /\ inflight' = [inflight EXCEPT ![chosen[g]] = @ - 1]
        /\ chosen' = chosen
    BY <1>4 DEF Done, Goto
  <2>2. CASE chosen[g] = c
    <3>1. g \in Held /\ Held' = Held \ {g}
      BY <2>1, <2>2 DEF Holds, Typed
    <3>2. inflight'[c] = inflight[c] - 1
      BY <2>1, <2>2 DEF Typed
    <3> HIDE DEF Held
    <3> QED BY <1>1, <3>1, <3>2, Counting, P2CAssumption DEF Held
  <2>3. CASE chosen[g] # c
    <3>1. Held' = Held /\ inflight'[c] = inflight[c]
      BY <2>1, <2>3 DEF Holds, Typed
    <3> QED BY <1>1, <3>1
  <2> QED BY <2>2, <2>3
<1> USE DEF Holds, Goto, Typed, conns, local
<1>5. CASE Tick
  BY <1>2, <1>5 DEF Tick
<1>6. ASSUME NEW g \in Callers, Pick(g) PROVE inflight'[c] = Cardinality(Held)'
  BY <1>2, <1>6 DEF Pick
<1>7. ASSUME NEW g \in Callers, SwapLast(g) PROVE inflight'[c] = Cardinality(Held)'
  BY <1>2, <1>7 DEF SwapLast
<1>8. ASSUME NEW g \in Callers, LoadLatency(g) PROVE inflight'[c] = Cardinality(Held)'
  BY <1>2, <1>8 DEF LoadLatency
<1>9. ASSUME NEW g \in Callers, StoreLatency(g) PROVE inflight'[c] = Cardinality(Held)'
  BY <1>2, <1>9 DEF StoreLatency
<1>10. ASSUME NEW g \in Callers, LoadStamp(g) PROVE inflight'[c] = Cardinality(Held)'
  BY <1>2, <1>10 DEF LoadStamp
<1>11. ASSUME NEW g \in Callers, SwapStamp(g) PROVE inflight'[c] = Cardinality(Held)'
  BY <1>2, <1>11 DEF SwapStamp
<1>12. ASSUME NEW g \in Callers, LogStats(g) PROVE inflight'[c] = Cardinality(Held)'
  BY <1>2, <1>12 DEF LogStats
<1>13. CASE UNCHANGED vars
  BY <1>2, <1>13 DEF vars
<1> QED
  BY <1>3, <1>4, <1>5, <1>6, <1>7, <1>8, <1>9, <1>10, <1>11, <1>12, <1>13 DEF Next

\* The invariant of Pick and Done holds at first (picker.go:53-75).
LEMMA IInvInit == Init => IInv
<1> SUFFICES ASSUME Init PROVE IInv
  OBVIOUS
<1> USE DEF Init
<1>1. Typed
  <2>1. pair \in [Callers -> Int \X Int]
    OBVIOUS
  <2>2. now \in Nat /\ now >= Start
    BY P2CAssumption DEF Start
  <2>3. /\ pick \in [Conns -> Nat] /\ inflight \in [Conns -> Int]
        /\ start \in [Callers -> Nat] /\ chosen \in [Callers -> Conns \cup {0}]
    OBVIOUS
  <2>4. pc \in [Callers -> {"idle", "choose", "call", "swap", "load", "store",
                           "stamp", "cas", "log"}]
    OBVIOUS
  <2> QED BY <2>1, <2>2, <2>3, <2>4 DEF Typed
<1>2. Choosing
  BY P2CAssumption DEF Choosing, Start
<1>3. Picked
  BY ConnsAssumption DEF Picked, Conns
<1>4. InflightCounts
  <2>1. \A c \in Conns : {g \in Callers : Holds(g, c)} = {}
    BY DEF Holds
  <2> QED BY <2>1, FS_EmptySet DEF InflightCounts
<1> QED BY <1>1, <1>2, <1>3, <1>4 DEF IInv

\* The strengthened invariant of Pick and Done (picker.go:90-190).
LEMMA Inductive == Spec => []IInv
<1>1. IInv /\ [Next]_vars => IInv'
  BY TypedKept, ChoosingKept, PickedKept, InflightKept DEF IInv
<1> QED BY IInvInit, <1>1, PTL DEF Spec

(***************************************************************************)
(* Of two connections neither is passed over for more than forcePick while *)
(* picks come no further apart than that, however many goroutines pick and *)
(* whatever the loads (picker.go:123-142).                                 *)
(***************************************************************************)
THEOREM NoneStarved == Spec => []NoneStarves
<1>1. IInv => NoneStarves
  <2> SUFFICES ASSUME IInv, len = 2, picks = 2, ~slow,
                      NEW c \in {1, 2}, NEW d \in {1, 2}
               PROVE  pick[c] - pick[d] <= ForcePick
    BY DEF NoneStarves
  <2>1. pick[1] \in Nat /\ pick[2] \in Nat /\ latest \in Nat /\ ForcePick \in Nat
    BY P2CAssumption, ConnsAssumption DEF IInv, Typed, Conns
  <2>2. Spread(1, 2) \/ Spread(2, 1)
    BY DEF IInv, Picked
  <2> QED BY <2>1, <2>2 DEF Spread
<1> QED BY <1>1, Inductive, PTL

(***************************************************************************)
(* inflight is the number of calls that are under way on a connection,     *)
(* whatever callbacks run while others pick (picker.go:147, 150).          *)
(***************************************************************************)
THEOREM InflightIsCalls == Spec => []InflightCounts
<1>1. IInv => InflightCounts
  BY DEF IInv
<1> QED BY <1>1, Inductive, PTL

-----------------------------------------------------------------------------
(***************************************************************************)
(* The types of P2C.  Load takes a root, which exists; an average is of a  *)
(* call that began before it ended.                                        *)
(***************************************************************************)
LEMMA RootType ==
    ASSUME NEW n \in Nat
    PROVE  Root(n) \in Nat
<1> DEFINE S == {m \in Nat : n < m * m}
<1>1. n + 1 \in S
  <2>1. (n + 1) * (n + 1) >= n + 1
    BY AtLeast
  <2> QED BY <2>1
<1>2. PICK m \in S : \A j \in S : m <= j
  <2>1. S \in SUBSET Nat /\ S # {}
    BY <1>1
  <2> HIDE DEF S
  <2> QED BY <2>1, LeastOf
<1>3. m \in Nat /\ n < m * m
  BY <1>2
<1>4. m # 0
  BY <1>3
<1> DEFINE r == m - 1
<1>5. r \in Nat /\ r + 1 = m
  BY <1>3, <1>4
<1>6. r \notin S
  BY <1>2, <1>5
<1>7. r * r <= n
  <2>1. r * r \in Nat
    BY <1>5
  <2> QED BY <1>5, <1>6, <2>1
<1>8. r <= r * r
  <2>1. CASE r = 0
    BY <2>1
  <2>2. CASE r >= 1
    <3> HIDE DEF r
    <3> QED BY <1>5, <2>2, AtLeast
  <2> QED BY <1>5, <2>1, <2>2
<1>9. r \in 0 .. n
  <2>1. r * r \in Nat
    BY <1>5
  <2> QED BY <1>5, <1>7, <1>8, <2>1
<1>10. n < (r + 1) * (r + 1)
  BY <1>3, <1>5
<1> HIDE DEF r
<1>11. \E s \in 0 .. n : s * s <= n /\ n < (s + 1) * (s + 1)
  BY <1>7, <1>9, <1>10
<1> DEFINE Is(s) == s * s <= n /\ n < (s + 1) * (s + 1)
<1>12. \E s \in 0 .. n : Is(s)
  BY <1>11
<1>13. Root(n) = CHOOSE s \in 0 .. n : Is(s)
  BY DEF Root
<1> HIDE DEF Is
<1>14. Root(n) \in 0 .. n
  BY <1>12, <1>13
<1> QED BY <1>14

\* A load is a number (picker.go:246-258).
LEMMA LoadType ==
    ASSUME TypeOK, NEW c \in Conns
    PROVE  Load(c) \in Nat
<1>1. latency[c] + 1 \in Nat /\ inflight[c] + 1 \in Nat
  BY P2CAssumption, FS_CardinalityType DEF TypeOK
<1>2. Root(latency[c] + 1) \in Nat
  BY <1>1, RootType
<1> DEFINE a == Root(latency[c] + 1)
           b == inflight[c] + 1
<1>3. a \in Nat /\ b \in Nat
  BY <1>1, <1>2
<1> HIDE DEF a, b
<1>4. a * b \in Nat
  BY <1>3
<1> QED BY <1>4 DEF Load, a, b

\* A call has a connection until its latency is stored, and began before it
\* ended.
CallsTyped ==
    \A g \in Callers :
        /\ pc[g] \in {"call", "swap", "load", "store"} => chosen[g] \in Conns
        /\ pc[g] = "call" => start[g] <= now
        /\ pc[g] \in {"swap", "load", "store"} => start[g] <= end[g]

P2CInv == IInv /\ TypeOK /\ CallsTyped

\* Calls keep their connection and their time as they go through Done.
LEMMA CallsTypedKept == P2CInv /\ [Next]_vars => CallsTyped'
<1> SUFFICES ASSUME P2CInv, [Next]_vars PROVE CallsTyped'
  OBVIOUS
<1> USE P2CAssumption DEF P2CInv, IInv, Typed, CallsTyped, TypeOK, Readings, Start
<1>1. CASE Tick
  BY <1>1 DEF Tick, conns, local
<1>2. ASSUME NEW g \in Callers, Pick(g) PROVE CallsTyped'
  BY <1>2 DEF Pick, Goto
<1>3. ASSUME NEW g \in Callers, Choose(g) PROVE CallsTyped'
  <2>1. Chosen(g) \in Conns
    BY <1>3, ChosenOfPair DEF Choose
  <2>2. /\ chosen' = [chosen EXCEPT ![g] = Chosen(g)] /\ start' = [start EXCEPT ![g] = now]
        /\ pc' = [pc EXCEPT ![g] = "call"] /\ now' = now /\ end' = end
    BY <1>3 DEF Choose, Goto
  <2> QED BY <2>1, <2>2
<1>4. ASSUME NEW g \in Callers, Done(g) PROVE CallsTyped'
  BY <1>4 DEF Done, Goto
<1>5. ASSUME NEW g \in Callers, SwapLast(g) PROVE CallsTyped'
  BY <1>5 DEF SwapLast, Goto
<1>6. ASSUME NEW g \in Callers, LoadLatency(g) PROVE CallsTyped'
  BY <1>6 DEF LoadLatency, Goto
<1>7. ASSUME NEW g \in Callers, StoreLatency(g) PROVE CallsTyped'
  BY <1>7 DEF StoreLatency, Goto
<1>8. ASSUME NEW g \in Callers, LoadStamp(g) PROVE CallsTyped'
  BY <1>8 DEF LoadStamp, Goto
<1>9. ASSUME NEW g \in Callers, SwapStamp(g) PROVE CallsTyped'
  BY <1>9 DEF SwapStamp, Goto
<1>10. ASSUME NEW g \in Callers, LogStats(g) PROVE CallsTyped'
  BY <1>10 DEF LogStats, local
<1>11. CASE UNCHANGED vars
  BY <1>11 DEF vars, local
<1> QED
  BY <1>1, <1>2, <1>3, <1>4, <1>5, <1>6, <1>7, <1>8, <1>9, <1>10, <1>11 DEF Next

\* The counter is a number of callers.
LEMMA InflightType ==
    Typed /\ InflightCounts => inflight \in [Conns -> 0 .. Cardinality(Callers)]
<1> SUFFICES ASSUME Typed, InflightCounts
             PROVE  inflight \in [Conns -> 0 .. Cardinality(Callers)]
  OBVIOUS
<1>1. ASSUME NEW c \in Conns PROVE inflight[c] \in 0 .. Cardinality(Callers)
  <2> DEFINE Held == {g \in Callers : Holds(g, c)}
  <2>1. Held \subseteq Callers /\ inflight[c] = Cardinality(Held)
    BY DEF InflightCounts
  <2> HIDE DEF Held
  <2>2. Cardinality(Held) \in Nat /\ Cardinality(Callers) \in Nat
        /\ Cardinality(Held) <= Cardinality(Callers)
    BY <2>1, P2CAssumption, FS_Subset, FS_CardinalityType
  <2> QED BY <2>1, <2>2
<1> QED BY <1>1 DEF Typed

\* What an average of latencies is.
LEMMA AverageType ==
    ASSUME NEW o \in Nat, NEW l \in Nat, NEW t, NEW n \in Averages(o, l, t)
    PROVE  n \in Nat
BY DEF Averages

\* Every step keeps the types (picker.go:90-258).
LEMMA TypeOKKept ==
    P2CInv /\ [Next]_vars /\ Typed' /\ InflightCounts' => TypeOK'
<1> SUFFICES ASSUME P2CInv, [Next]_vars, Typed', InflightCounts' PROVE TypeOK'
  OBVIOUS
<1>0. inflight' \in [Conns -> 0 .. Cardinality(Callers)]
  <2>1. (Typed /\ InflightCounts => inflight \in [Conns -> 0 .. Cardinality(Callers)])'
    BY InflightType, PTL
  <2> QED BY <2>1
<1> USE <1>0, P2CAssumption DEF P2CInv, IInv, TypeOK, Readings, Start
<1>1. CASE Tick
  BY <1>1 DEF Tick, conns, local
<1>2. ASSUME NEW g \in Callers, Pick(g) PROVE TypeOK'
  <2>1. PICK p \in Pairs :
          /\ pair' = [pair EXCEPT ![g] = p]
          /\ load1' = [load1 EXCEPT ![g] = IF p[2] = 0 THEN 0 ELSE Load(p[1])]
    BY <1>2 DEF Pick
  <2>2. p[1] \in Conns /\ p[2] \in Conns \cup {0} /\ p \in Int \X Int
    BY <1>2, PairsType DEF Pick
  <2>3. p \in (Conns \cup {0}) \X (Conns \cup {0})
    BY <2>2
  <2>4. Load(p[1]) \in Nat
    BY <2>2, LoadType
  <2>5. pair' \in [Callers -> (Conns \cup {0}) \X (Conns \cup {0})]
    BY <2>1, <2>3
  <2>6. load1' \in [Callers -> Nat]
    BY <2>1, <2>4
  <2> QED BY <1>2, <2>5, <2>6 DEF Pick, Goto, conns
<1>3. ASSUME NEW g \in Callers, Choose(g) PROVE TypeOK'
  <2>1. Chosen(g) \in Conns
    BY <1>3, ChosenOfPair DEF Choose
  <2>2. /\ pick' = [pick EXCEPT ![Chosen(g)] = start[g]]
        /\ chosen' = [chosen EXCEPT ![g] = Chosen(g)]
        /\ pair' = [pair EXCEPT ![g] = <<0, 0>>]
    BY <1>3 DEF Choose
  <2>3. pick' \in [Conns -> Readings] /\ chosen' \in [Callers -> Conns \cup {0}]
        /\ pair' \in [Callers -> (Conns \cup {0}) \X (Conns \cup {0})]
    BY <2>1, <2>2
  <2>4. now \in Readings
    OBVIOUS
  <2> QED BY <1>3, <2>3, <2>4 DEF Choose, Goto
<1>4. ASSUME NEW g \in Callers, Done(g) PROVE TypeOK'
  BY <1>4 DEF Done, Goto
<1>5. ASSUME NEW g \in Callers, SwapLast(g) PROVE TypeOK'
  <2>1. chosen[g] \in Conns /\ end[g] \in Readings
    BY <1>5 DEF SwapLast, CallsTyped
  <2>2. last' \in [Conns -> Readings]
    BY <1>5, <2>1 DEF SwapLast
  <2>3. td' \in [Callers -> Readings]
    BY <1>5, <2>1 DEF SwapLast
  <2> QED BY <1>5, <2>2, <2>3 DEF SwapLast, Goto
<1>6. ASSUME NEW g \in Callers, LoadLatency(g) PROVE TypeOK'
  <2>1. chosen[g] \in Conns
    BY <1>6 DEF LoadLatency, CallsTyped
  <2>2. old' \in [Callers -> Nat]
    BY <1>6, <2>1 DEF LoadLatency
  <2> QED BY <1>6, <2>2 DEF LoadLatency, Goto, conns
<1>7. ASSUME NEW g \in Callers, StoreLatency(g) PROVE TypeOK'
  <2>1. chosen[g] \in Conns /\ end[g] - start[g] \in Nat
    BY <1>7 DEF StoreLatency, CallsTyped
  <2>2. PICK n \in Averages(old[g], end[g] - start[g], td[g]) :
          latency' = [latency EXCEPT ![chosen[g]] = n]
    BY <1>7 DEF StoreLatency
  <2>3. n \in Nat
    BY <2>1, AverageType
  <2>4. latency' \in [Conns -> Nat]
    BY <2>1, <2>2, <2>3
  <2> QED BY <1>7, <2>4 DEF StoreLatency, Goto
<1>8. ASSUME NEW g \in Callers, LoadStamp(g) PROVE TypeOK'
  <2>1. stamp \in Nat
    OBVIOUS
  <2>2. old' \in [Callers -> Nat] /\ end' \in [Callers -> Readings]
    <3>1. CASE end[g] - stamp >= LogInterval
      BY <1>8, <2>1, <3>1 DEF LoadStamp
    <3>2. CASE ~(end[g] - stamp >= LogInterval)
      <4>1. old' = old /\ end' = [end EXCEPT ![g] = 0]
        BY <1>8, <3>2 DEF LoadStamp
      <4>2. 0 \in Readings
        OBVIOUS
      <4> QED BY <4>1, <4>2
    <3> QED BY <3>1, <3>2
  <2> QED BY <1>8, <2>2 DEF LoadStamp, Goto, conns
<1>9. ASSUME NEW g \in Callers, SwapStamp(g) PROVE TypeOK'
  BY <1>9 DEF SwapStamp, Goto, conns
<1>10. ASSUME NEW g \in Callers, LogStats(g) PROVE TypeOK'
  BY <1>10 DEF LogStats, conns, local
<1>11. CASE UNCHANGED vars
  BY <1>11 DEF vars, conns, local
<1> QED
  BY <1>1, <1>2, <1>3, <1>4, <1>5, <1>6, <1>7, <1>8, <1>9, <1>10, <1>11 DEF Next

\* Types and the invariants of Pick together.
LEMMA P2CInvKept == P2CInv /\ [Next]_vars => P2CInv'
<1> SUFFICES ASSUME P2CInv, [Next]_vars PROVE P2CInv'
  OBVIOUS
<1>1. IInv'
  BY TypedKept, ChoosingKept, PickedKept, InflightKept DEF P2CInv, IInv
<1>2. CallsTyped'
  BY CallsTypedKept
<1>3. TypeOK'
  BY <1>1, TypeOKKept DEF IInv
<1> QED BY <1>1, <1>2, <1>3 DEF P2CInv

\* They hold in a new picker (picker.go:53-75).
LEMMA P2CInit == Init => P2CInv
<1> SUFFICES ASSUME Init PROVE P2CInv
  OBVIOUS
<1>1. IInv
  BY IInvInit
<1>2. CallsTyped
  BY DEF Init, CallsTyped
<1>3. TypeOK
  <2>1. inflight \in [Conns -> 0 .. Cardinality(Callers)]
    BY <1>1, InflightType DEF IInv
  <2>2. now \in Start .. Start + MaxTime /\ 0 \in Readings
    BY P2CAssumption DEF Init, Start, Readings
  <2>3. pair \in [Callers -> (Conns \cup {0}) \X (Conns \cup {0})]
    BY DEF Init
  <2> QED BY <2>1, <2>2, <2>3 DEF Init, TypeOK
<1> QED BY <1>1, <1>2, <1>3 DEF P2CInv

-----------------------------------------------------------------------------
(***************************************************************************)
(* Round robin.  Even is not inductive: of two candidates picked equally   *)
(* often either may be the next one.  Whose turn it is follows from the    *)
(* counter: Rank is how many picks of the series come before a             *)
(* candidate's, and who comes later was picked no less often.              *)
(***************************************************************************)
Place(S, c) == Cardinality({d \in S : d < c})

Rank(S, k, c) ==
    LET turn == k % Cardinality(S)
    IN  IF Place(S, c) >= turn THEN Place(S, c) - turn
        ELSE Place(S, c) - turn + Cardinality(S)

Fair(S, times, k) ==
    \A c, d \in S :
        /\ times[d] <= times[c] + 1
        /\ Rank(S, k, c) <= Rank(S, k, d) => times[c] <= times[d]

\* The elements of a finite set of numbers have the places 0, 1, ...
LEMMA Places ==
    ASSUME NEW S \in SUBSET Int, IsFiniteSet(S)
    PROVE  /\ \A c \in S : Place(S, c) \in 0 .. Cardinality(S) - 1
           /\ \A c, d \in S : Place(S, c) = Place(S, d) => c = d
           /\ \A i \in 0 .. Cardinality(S) - 1 : \E c \in S : Place(S, c) = i
<1> DEFINE n == Cardinality(S)
<1>1. n \in Nat /\ IsFiniteSet(0 .. n - 1) /\ Cardinality(0 .. n - 1) = n
  <2>1. n \in Nat
    BY FS_CardinalityType
  <2> HIDE DEF n
  <2> QED BY <2>1, FS_Interval
<1>2. \A T \in SUBSET S : IsFiniteSet(T) /\ Cardinality(T) \in Nat
  BY FS_Subset, FS_CardinalityType
<1>3. ASSUME NEW c \in S PROVE Place(S, c) \in 0 .. n - 1
  <2> DEFINE T == {d \in S : d < c}
  <2>1. T \in SUBSET S /\ T # S
    BY <1>3
  <2>2. Cardinality(T) \in Nat /\ Cardinality(T) <= n /\ Cardinality(T) # n
    BY <1>2, <2>1, FS_Subset
  <2> QED BY <1>1, <2>2 DEF Place
<1>4. ASSUME NEW c \in S, NEW d \in S, c < d PROVE Place(S, c) < Place(S, d)
  <2> DEFINE T == {e \in S : e < c}
             U == {e \in S : e < d}
  <2>1. T \in SUBSET U
    <3>1. \A e \in S : e < c => e < d
      BY <1>4
    <3> QED BY <3>1
  <2>2. c \in U /\ c \notin T /\ U \in SUBSET S
    BY <1>4
  <2>3. IsFiniteSet(U) /\ Cardinality(T) \in Nat /\ Cardinality(U) \in Nat
    BY <1>2, <2>1, <2>2
  <2>4. Cardinality(T) <= Cardinality(U) /\ Cardinality(T) # Cardinality(U)
    BY <2>1, <2>2, <2>3, FS_Subset
  <2> QED BY <2>3, <2>4 DEF Place
<1>5. \A c, d \in S : Place(S, c) = Place(S, d) => c = d
  <2> SUFFICES ASSUME NEW c \in S, NEW d \in S, Place(S, c) = Place(S, d), c # d
               PROVE  FALSE
    OBVIOUS
  <2>1. c < d \/ d < c
    OBVIOUS
  <2> QED BY <1>1, <1>3, <1>4, <2>1
<1> DEFINE f == [c \in S |-> Place(S, c)]
<1>6. f \in Injection(S, 0 .. n - 1)
  BY <1>3, <1>5 DEF Injection, IsInjective
<1>7. f \in Surjection(S, 0 .. n - 1)
  <2> HIDE DEF f
  <2> QED BY <1>1, <1>6, FS_Injection
<1>8. \A i \in 0 .. n - 1 : \E c \in S : Place(S, c) = i
  BY <1>7 DEF Surjection
<1> QED BY <1>3, <1>5, <1>8

\* A pick of the candidate whose turn it is (roundrobin/picker.go:55-57).
LEMMA FairPick ==
    ASSUME NEW S \in SUBSET Int, IsFiniteSet(S), NEW times \in [S -> Nat],
           NEW k \in Nat, Fair(S, times, k),
           NEW x \in S, Place(S, x) = k % Cardinality(S)
    PROVE  Fair(S, [times EXCEPT ![x] = @ + 1], k + 1)
<1> DEFINE n == Cardinality(S)
           p == k % n
           next == (k + 1) % n
           after == [times EXCEPT ![x] = @ + 1]
<1>1. n \in Nat \ {0}
  BY FS_CardinalityType, FS_EmptySet
<1>2. p \in 0 .. n - 1 /\ (p = n - 1 => next = 0) /\ (p # n - 1 => next = p + 1)
  <2> HIDE DEF n
  <2> QED BY <1>1, NextPlace
<1>3. \A c \in S : Place(S, c) \in 0 .. n - 1 /\ (Place(S, c) = Place(S, x) => c = x)
  BY Places
<1>4. \A c \in S : Rank(S, k, c) = IF Place(S, c) >= p THEN Place(S, c) - p
                                   ELSE Place(S, c) - p + n
  BY DEF Rank
<1>5. \A c \in S : Rank(S, k + 1, c)
                     = IF Place(S, c) >= next THEN Place(S, c) - next
                       ELSE Place(S, c) - next + n
  BY DEF Rank
<1>6. Place(S, x) = p
  OBVIOUS
<1> HIDE DEF n, p, next
<1>7. Rank(S, k, x) = 0 /\ Rank(S, k + 1, x) = n - 1
  BY <1>1, <1>2, <1>4, <1>5, <1>6
<1>8. ASSUME NEW c \in S, c # x
      PROVE  /\ Rank(S, k, c) \in 1 .. n - 1
             /\ Rank(S, k + 1, c) = Rank(S, k, c) - 1
  BY <1>1, <1>2, <1>3, <1>4, <1>5, <1>6, <1>8
<1>9. after[x] = times[x] + 1 /\ \A c \in S : c # x => after[c] = times[c]
  OBVIOUS
<1>10. \A c \in S : times[c] \in Nat
  OBVIOUS
<1> HIDE DEF after
<1>11. ASSUME NEW c \in S, NEW d \in S
       PROVE  /\ after[d] <= after[c] + 1
              /\ Rank(S, k + 1, c) <= Rank(S, k + 1, d) => after[c] <= after[d]
  <2>1. /\ times[d] <= times[c] + 1
        /\ times[c] <= times[d] + 1
        /\ Rank(S, k, c) <= Rank(S, k, d) => times[c] <= times[d]
        /\ Rank(S, k, d) <= Rank(S, k, c) => times[d] <= times[c]
    BY DEF Fair
  <2>2. CASE c = x /\ d = x
    BY <1>9, <1>10, <2>2
  <2>3. CASE c = x /\ d # x
    BY <1>1, <1>7, <1>8, <1>9, <1>10, <2>1, <2>3
  <2>4. CASE c # x /\ d = x
    BY <1>1, <1>7, <1>8, <1>9, <1>10, <2>1, <2>4
  <2>5. CASE c # x /\ d # x
    BY <1>1, <1>8, <1>9, <1>10, <2>1, <2>5
  <2> QED BY <2>2, <2>3, <2>4, <2>5
<1> QED BY <1>11 DEF Fair, after

RobinCandidates(g) == Robin!Candidates(filter, call[g])

\* The mutex is held by one caller, whose index is the counter's.
RobinHolds ==
    /\ mutex \subseteq Callers
    /\ \A g, h \in mutex : g = h
    /\ \A g \in mutex :
          /\ RobinCandidates(g) # {}
          /\ index[g] = cnt % Cardinality(RobinCandidates(g))

RobinSeries ==
    /\ series.among \in SUBSET Conns
    /\ series.times \in [series.among -> Nat]
    /\ Fair(series.among, series.times, cnt)

RobinInv ==
    /\ cnt \in Nat
    /\ DOMAIN call = Callers /\ DOMAIN index = Callers
    /\ RobinHolds /\ RobinSeries

\* An instance has its own Cardinality, which is the same.
LEMMA RobinCards == \A S : Robin!Cardinality(S) = Cardinality(S)
  BY DEF Robin!Cardinality, Cardinality

\* Connections are finitely many numbers.
LEMMA ConnsFinite ==
    /\ Conns \in SUBSET Int
    /\ \A S \in SUBSET Conns : IsFiniteSet(S) /\ Cardinality(S) \in Nat /\ S \in SUBSET Int
<1>1. IsFiniteSet(Conns) /\ Conns \in SUBSET Int
  BY ConnsAssumption, FS_Interval DEF Conns
<1> QED BY <1>1, FS_Subset, FS_CardinalityType

\* cnt modulo the number of candidates is the place of one of them.
LEMMA RobinChoice ==
    ASSUME NEW S \in SUBSET Conns, S # {}, NEW k \in Nat
    PROVE  LET c == Robin!Nth(S, k % Cardinality(S))
           IN  c \in S /\ Place(S, c) = k % Cardinality(S)
<1>1. Cardinality(S) \in Nat \ {0} /\ IsFiniteSet(S) /\ S \in SUBSET Int
  BY ConnsFinite, FS_EmptySet
<1>2. k % Cardinality(S) \in 0 .. Cardinality(S) - 1
  BY <1>1, NextPlace
<1>3. \E c \in S : Place(S, c) = k % Cardinality(S)
  BY <1>1, <1>2, Places
<1>4. \E c \in S : Robin!Cardinality({d \in S : d < c}) = k % Cardinality(S)
  BY <1>3, RobinCards DEF Place
<1> QED BY <1>4, RobinCards DEF Place, Robin!Nth

\* A pick hands out the candidate next in turn.
LEMMA RobinReturn ==
    ASSUME RobinInv, NEW g \in Callers, Robin!Return(g)
    PROVE  RobinInv'
<1> DEFINE S == RobinCandidates(g)
           c == Robin!Nth(S, index[g])
           before == IF series.among = S THEN series.times ELSE [d \in S |-> 0]
<1>1. g \in mutex /\ S # {} /\ index[g] = cnt % Cardinality(S) /\ mutex = {g}
  BY DEF RobinInv, RobinHolds, Robin!Return
<1>2. S \in SUBSET Conns
  BY DEF RobinCandidates, Robin!Candidates, Robin!Conns, Conns
<1>3. c \in S /\ Place(S, c) = cnt % Cardinality(S)
  BY <1>1, <1>2, RobinChoice DEF RobinInv
<1>4. before \in [S -> Nat] /\ Fair(S, before, cnt)
  <2>1. CASE series.among = S
    BY <2>1 DEF RobinInv, RobinSeries
  <2>2. CASE series.among # S
    BY <2>2 DEF Fair
  <2> QED BY <2>1, <2>2
<1>5. series' = [among |-> S, times |-> [before EXCEPT ![c] = @ + 1]]
  BY DEF Robin!Return, Robin!Counted, RobinCandidates
<1>6. cnt' = cnt + 1 /\ mutex' = {}
  BY <1>1 DEF Robin!Return
<1> HIDE DEF S, c, before
<1>7. Fair(S, [before EXCEPT ![c] = @ + 1], cnt + 1)
  BY <1>2, <1>3, <1>4, ConnsFinite, FairPick DEF RobinInv
<1>8. [before EXCEPT ![c] = @ + 1] \in [S -> Nat]
  BY <1>3, <1>4
<1>9. RobinSeries'
  BY <1>2, <1>5, <1>6, <1>7, <1>8 DEF RobinSeries
<1>10. cnt' \in Nat /\ DOMAIN call' = Callers /\ DOMAIN index' = Callers
  BY DEF RobinInv, Robin!Return
<1>11. RobinHolds'
  BY <1>6 DEF RobinHolds
<1> QED BY <1>9, <1>10, <1>11 DEF RobinInv

\* Every step keeps the ranks of the connections picked.
LEMMA RobinStep ==
    ASSUME RobinInv, [Robin!Next]_Robin!vars
    PROVE  RobinInv'
<1>1. ASSUME NEW g \in Callers, NEW group \in Groups, Robin!Pick(g, group)
      PROVE  RobinInv'
  <2>1. mutex = {}
    BY <1>1 DEF Robin!Pick, Robin!Locked
  <2>2. UNCHANGED <<filter, cnt, series>> /\ mutex' = {g} /\ call'[g] = group
        /\ index'[g] = cnt % Cardinality(Robin!Candidates(filter, group))
        /\ Robin!Candidates(filter, group) # {}
        /\ DOMAIN call' = Callers /\ DOMAIN index' = Callers
    BY <1>1, <2>1, RobinCards DEF Robin!Pick, RobinInv
  <2> QED BY <2>2 DEF RobinInv, RobinHolds, RobinCandidates, RobinSeries
<1>2. ASSUME NEW g \in Callers, NEW group \in Groups, Robin!PickNone(g, group)
      PROVE  RobinInv'
  BY <1>2 DEF Robin!PickNone, RobinInv, RobinHolds, RobinCandidates, RobinSeries
<1>3. ASSUME NEW g \in Callers, Robin!Return(g)
      PROVE  RobinInv'
  BY <1>3, RobinReturn
<1>4. CASE UNCHANGED Robin!vars
  BY <1>4 DEF Robin!vars, RobinInv, RobinHolds, RobinCandidates, RobinSeries
<1> QED BY <1>1, <1>2, <1>3, <1>4 DEF Robin!Next

\* RobinInv holds in a new picker (roundrobin/picker.go:22-41).
LEMMA RobinInit == Robin!Init => RobinInv
  BY DEF Robin!Init, RobinInv, RobinHolds, RobinSeries, Fair

(***************************************************************************)
(* Strict polling: among the same candidates none is picked twice more     *)
(* than another, for any callers, connections and groups, and any number   *)
(* of picks, MaxPicks, that the uint64 counter does not wrap in.  About    *)
(* that counter under the mutex (roundrobin/picker.go:55-57).              *)
(***************************************************************************)
THEOREM PollingIsEven == Robin!Spec => []Even
<1>1. RobinInv => Even
  BY DEF RobinInv, RobinSeries, Fair, Even, Robin!Even
<1>2. RobinInv /\ [Robin!Next]_Robin!vars => RobinInv'
  BY RobinStep
<1> QED BY <1>1, <1>2, RobinInit, PTL DEF Robin!Spec

-----------------------------------------------------------------------------
(***************************************************************************)
(* Groups.  Nil, which stands for no group, is no string.                  *)
(***************************************************************************)
Filters3 == {"none", "group", "built"}

\* Both filters leave a call that names a group the connections of that group
\* (types.go:10-36).
LEMMA CandidatesOfGroup ==
    ASSUME NEW f \in Filters3 \ {"none"}, NEW group \in Strings \ {""}
    PROVE  Candidates(f, group) = {c \in Conns : Attr[c] = group}
<1>1. ASSUME NEW c \in Conns PROVE Allows(f, group, c) <=> Attr[c] = group
  BY FiltersAssumption DEF Filters3, Allows, GroupFilter, BuiltFilter, AsString
<1> QED BY <1>1 DEF Candidates

\* A result among the candidates, or none when there are none.
LEMMA FromCandidates ==
    ASSUME NEW f \in Filters3 \ {"none"}, NEW group,
           NEW c, c \in Candidates(f, group) \/ (c = 0 /\ Candidates(f, group) = {})
    PROVE  OfItsGroup(Result(group, c))
<1>1. CASE group \in Strings \ {""}
  <2>1. Candidates(f, group) = {d \in Conns : Attr[d] = group}
    BY <1>1, CandidatesOfGroup
  <2> QED BY <1>1, <2>1 DEF OfItsGroup, Result
<1>2. CASE group \notin Strings \ {""}
  BY <1>2 DEF OfItsGroup, Result
<1> QED BY <1>1, <1>2

\* An instance has its own filters, which are the same.
LEMMA RobinSame ==
    /\ \A f, group : Robin!Candidates(f, group) = Candidates(f, group)
    /\ \A group, c : Robin!Result(group, c) = Result(group, c)
    /\ \A got : Robin!OfItsGroup(got) = OfItsGroup(got)
    /\ Robin!NoResult = Result(Nil, -1)
BY DEF Robin!Candidates, Candidates, Robin!Allows, Allows, Robin!GroupFilter,
       GroupFilter, Robin!BuiltFilter, BuiltFilter, Robin!AsString, AsString,
       Robin!Conns, Conns, Robin!Result, Result, Robin!OfItsGroup, OfItsGroup,
       Robin!NoResult

RobinGroups ==
    /\ filter \in Filters3 /\ DOMAIN result = Callers
    /\ filter # "none" => \A g \in Callers : OfItsGroup(result[g])

\* A pick under way, and the last one, are of their group.
LEMMA RobinGroupStep ==
    ASSUME RobinInv, RobinGroups, [Robin!Next]_Robin!vars
    PROVE  RobinGroups'
<1>1. ASSUME NEW g \in Callers, NEW group \in Groups, Robin!Pick(g, group)
      PROVE  RobinGroups'
  BY <1>1 DEF Robin!Pick, RobinGroups
<1>2. ASSUME NEW g \in Callers, NEW group \in Groups, Robin!PickNone(g, group)
      PROVE  RobinGroups'
  <2>1. result' = [result EXCEPT ![g] = Result(group, 0)] /\ filter' = filter
        /\ Candidates(filter, group) = {}
    BY <1>2, RobinSame DEF Robin!PickNone
  <2>2. filter # "none" => OfItsGroup(Result(group, 0))
    BY <2>1, FromCandidates DEF RobinGroups
  <2> QED BY <2>1, <2>2 DEF RobinGroups
<1>3. ASSUME NEW g \in Callers, Robin!Return(g)
      PROVE  RobinGroups'
  <2> DEFINE S == RobinCandidates(g)
             c == Robin!Nth(S, index[g])
  <2>1. g \in mutex /\ S # {} /\ index[g] = cnt % Cardinality(S)
    BY <1>3 DEF RobinInv, RobinHolds, Robin!Return
  <2>2. S \in SUBSET Conns /\ S = Candidates(filter, call[g])
    BY RobinSame DEF RobinCandidates, Candidates
  <2>3. c \in S
    BY <2>1, <2>2, RobinChoice DEF RobinInv
  <2>4. result' = [result EXCEPT ![g] = Result(call[g], c)] /\ filter' = filter
    BY <1>3, RobinSame DEF Robin!Return, RobinCandidates
  <2> HIDE DEF S, c
  <2>5. filter # "none" => OfItsGroup(Result(call[g], c))
    BY <2>2, <2>3, FromCandidates DEF RobinGroups
  <2> QED BY <2>4, <2>5 DEF RobinGroups
<1>4. CASE UNCHANGED Robin!vars
  BY <1>4 DEF Robin!vars, RobinGroups
<1> QED BY <1>1, <1>2, <1>3, <1>4 DEF Robin!Next

\* Before its first pick no caller has a result (roundrobin/picker.go:22-41).
LEMMA RobinGroupInit == Robin!Init => RobinGroups
<1> SUFFICES ASSUME Robin!Init PROVE RobinGroups
  OBVIOUS
<1>1. OfItsGroup(Result(Nil, -1))
  BY DEF OfItsGroup, Result
<1> QED BY <1>1, RobinSame DEF Robin!Init, RobinGroups, Filters3

\* An instance has its own filters, which are the same.
LEMMA RandomSame ==
    /\ \A f, group : Random!Candidates(f, group) = Candidates(f, group)
    /\ \A group, c : Random!Result(group, c) = Result(group, c)
    /\ \A got : Random!OfItsGroup(got) = OfItsGroup(got)
    /\ Random!NoResult = Result(Nil, -1)
BY DEF Random!Candidates, Candidates, Random!Allows, Allows, Random!GroupFilter,
       GroupFilter, Random!BuiltFilter, BuiltFilter, Random!AsString, AsString,
       Random!Conns, Conns, Random!Result, Result, Random!OfItsGroup, OfItsGroup,
       Random!NoResult

\* An instance has its own sums, which are the same.
LEMMA RandomSums ==
    \A f, S : Random!SumFunctionOnSet(f, S) = SumFunctionOnSet(f, S)
BY DEF Random!SumFunctionOnSet, Random!FoldFunctionOnSet, Random!MapThenFoldSet,
       SumFunctionOnSet, FoldFunctionOnSet, MapThenFoldSet

\* Of some connections one is the last.
LEMMA GreatestOf ==
    ASSUME NEW S \in SUBSET Conns, S # {}
    PROVE  \E m \in S : \A j \in S : j <= m
<1> DEFINE T == {NConns - c : c \in S}
<1>1. T \in SUBSET Nat /\ T # {}
  <2>1. \A c \in S : NConns - c \in Nat
    BY ConnsAssumption DEF Conns
  <2> QED BY <2>1
<1>2. PICK t \in T : \A j \in T : t <= j
  <2> HIDE DEF T
  <2> QED BY <1>1, LeastOf
<1>3. PICK m \in S : t = NConns - m
  BY <1>2
<1>4. ASSUME NEW j \in S PROVE j <= m
  <2>1. NConns - m <= NConns - j
    BY <1>2, <1>3
  <2> QED BY <2>1, ConnsAssumption DEF Conns
<1> QED BY <1>4

\* A number that is drawn from the sum is spent at some connection
\* (random/weight_picker.go:66-82).
LEMMA SpentSomewhere ==
    ASSUME NEW S \in SUBSET Conns, S # {}, NEW val \in 0 .. Random!TotalWeight(S)
    PROVE  Random!Spent(S, val) # {} /\ Random!Spent(S, val) \subseteq S
<1> DEFINE sum == SumFunctionOnSet(Weight, S)
<1>1. IsFiniteSet(S) /\ S \subseteq Conns /\ \A c \in S : Weight[c] \in Int /\ Weight[c] >= 0
  BY ConnsFinite, WeightsAssumption
<1>2. sum \in Nat
  <2>1. sum \in Int /\ sum >= 0
    BY <1>1, SumType
  <2> QED BY <2>1
<1>3. Random!TotalWeight(S) = sum % Word
  BY RandomSums DEF Random!TotalWeight
<1> HIDE DEF sum
<1>4. sum % Word <= sum
  <2>1. /\ sum \div Word \in Int /\ sum % Word \in 0 .. Word - 1
        /\ sum = Word * (sum \div Word) + (sum % Word)
    BY <1>2, WeightsAssumption, Division
  <2> DEFINE q == sum \div Word
             r == sum % Word
  <2>2. q \in Int /\ r \in 0 .. Word - 1 /\ sum = Word * q + r
    BY <2>1
  <2> HIDE DEF q, r
  <2>3. q >= 0
    <3>1. CASE q <= -1
      <4>1. Word * (-q) >= Word
        BY <2>2, <3>1, AtLeast, WeightsAssumption
      <4> QED BY <1>2, <2>2, <4>1, WeightsAssumption
    <3> QED BY <2>2, <3>1
  <2>4. Word * q >= 0
    BY <2>2, <2>3, WeightsAssumption
  <2>5. r <= sum
    BY <1>2, <2>2, <2>4, WeightsAssumption
  <2> QED BY <2>5 DEF r
<1>5. val \in Int /\ val <= sum
  BY <1>2, <1>3, <1>4, WeightsAssumption
<1>6. PICK m \in S : \A j \in S : j <= m
  BY GreatestOf
<1>7. {d \in S : d <= m} = S
  BY <1>6
<1>8. SumFunctionOnSet(Weight, {d \in S : d <= m}) >= val
  BY <1>5, <1>7 DEF sum
<1>9. m \in Random!Spent(S, val)
  BY <1>6, <1>8, RandomSums DEF Random!Spent
<1> QED BY <1>9 DEF Random!Spent

RandomGroups ==
    /\ filter \in Filters3 /\ DOMAIN result = Callers
    /\ picker \in {"random", "weight", "hash", "consistent"}
    /\ picker \in {"random", "weight"} /\ filter # "none" =>
          \A g \in Callers : OfItsGroup(result[g])

\* The last pick is of its group, whatever the picker.
LEMMA RandomGroupStep ==
    ASSUME RandomGroups, [Random!Next]_Random!vars
    PROVE  RandomGroups'
<1>1. ASSUME NEW g \in Callers, NEW group \in Groups, NEW c,
             c \in Candidates(filter, group) \/ (c = 0 /\ Candidates(filter, group) = {}),
             Random!Return(g, group, c)
      PROVE  RandomGroups'
  <2>1. /\ result' = [result EXCEPT ![g] = Result(group, c)]
        /\ filter' = filter /\ picker' = picker
    BY <1>1, RandomSame DEF Random!Return
  <2>2. filter # "none" => OfItsGroup(Result(group, c))
    BY <1>1, FromCandidates DEF RandomGroups
  <2> QED BY <2>1, <2>2 DEF RandomGroups
<1>2. ASSUME NEW g \in Callers, NEW group \in Groups, Random!RandomPick(g, group)
      PROVE  RandomGroups'
  BY <1>1, <1>2, RandomSame DEF Random!RandomPick
<1>3. ASSUME NEW g \in Callers, NEW group \in Groups, Random!WeightPick(g, group)
      PROVE  RandomGroups'
  <2> DEFINE S == Candidates(filter, group)
  <2>1. S \in SUBSET Conns
    BY DEF Candidates
  <2>2. PICK val \in 0 .. Random!TotalWeight(S) :
             \/ Random!Spent(S, val) = {} /\ Random!Return(g, group, 0)
             \/ \E c \in Random!Spent(S, val) : Random!Return(g, group, c)
    BY <1>3, RandomSame DEF Random!WeightPick
  <2> HIDE DEF S
  <2>3. Random!Spent(S, val) \subseteq S
    BY DEF Random!Spent
  <2>4. CASE Random!Spent(S, val) = {} /\ Random!Return(g, group, 0)
    <3>1. S = {}
      BY <2>1, <2>2, <2>4, SpentSomewhere
    <3> QED BY <1>1, <2>4, <3>1 DEF S
  <2>5. ASSUME NEW c \in Random!Spent(S, val), Random!Return(g, group, c)
        PROVE  RandomGroups'
    BY <1>1, <2>3, <2>5 DEF S
  <2> QED BY <2>2, <2>4, <2>5
<1>4. ASSUME NEW g \in Callers, NEW group \in Groups,
             Random!HashPick(g, group) \/ Random!ConsistentPick(g, group)
      PROVE  RandomGroups'
  <2>1. /\ picker \in {"hash", "consistent"}
        /\ DOMAIN result' = Callers /\ filter' = filter /\ picker' = picker
    BY <1>4 DEF Random!HashPick, Random!ConsistentPick, Random!Return, RandomGroups
  <2> QED BY <2>1 DEF RandomGroups
<1>5. CASE UNCHANGED Random!vars
  BY <1>5 DEF Random!vars, RandomGroups
<1> QED BY <1>2, <1>3, <1>4, <1>5 DEF Random!Next

\* Before its first pick no caller has a result (random/picker.go:22-40).
LEMMA RandomGroupInit == Random!Init => RandomGroups
<1> SUFFICES ASSUME Random!Init PROVE RandomGroups
  OBVIOUS
<1>1. OfItsGroup(Result(Nil, -1))
  BY DEF OfItsGroup, Result
<1>2. filter \in Filters3 /\ picker \in {"random", "weight", "hash", "consistent"}
  BY DEF Random!Init, Random!RandomBuild, Random!WeightBuild, Random!HashBuild,
         Random!ConsistentBuild, Filters3
<1>3. result = [g \in Callers |-> Result(Nil, -1)]
  BY RandomSame DEF Random!Init
<1> QED BY <1>1, <1>2, <1>3 DEF RandomGroups

-----------------------------------------------------------------------------
(***************************************************************************)
(* Weighted round robin, for any callers, connections and weights.  Wanted *)
(* is what the callers' filters leave of the connections.                  *)
(***************************************************************************)
\* A caller that compares or adds is at a connection it may take, one that
\* subtracts or calls has found one, and one outside Pick has nothing left.
WeightPlaces ==
    \A g \in Callers :
        /\ best[g] \in Wanted[g] \cup {0}
        /\ step[g] \in {"add", "compare"} => at[g] \in Wanted[g]
        /\ step[g] \in {"subtract", "call"} => best[g] \in Wanted[g]
        /\ step[g] = "idle" => best[g] = 0
        /\ step[g] \in {"idle", "call"} => total[g] = 0

WeightTyped == Weighted!TypeOK /\ WeightPlaces

\* An instance has its own Conns, which are the same.
LEMMA WeightedConns == Weighted!Conns = Conns
  BY DEF Weighted!Conns, Conns

\* Numbers modulo the word are weights.
LEMMA WordMod ==
    \A x \in Int : x % Word \in Weighted!Weights /\ 0 \in Weighted!Weights
BY WeightsAssumption DEF Weighted!Weights

\* First is the least of some connections.
LEMMA FirstOf ==
    ASSUME NEW S \in SUBSET Conns, S # {}
    PROVE  Weighted!First(S) \in S /\ \A d \in S : Weighted!First(S) <= d
<1>1. S \in SUBSET Nat
  BY ConnsAssumption DEF Conns
<1>2. \E m \in S : \A j \in S : m <= j
  BY <1>1, LeastOf
<1> QED BY <1>2 DEF Weighted!First

\* What a callback makes of a weight is a weight (weight_picker.go:122-136).
LEMMA ChangedWeights ==
    ASSUME Weighted!TypeOK, NEW c \in Conns
    PROVE  /\ Weighted!Raised(c) \in Weighted!Weights
           /\ Weighted!Raised(c) >= efficientWeight[c]
           /\ Weighted!Lowered(c) \in Weighted!Weights
<1>1. efficientWeight[c] \in 0 .. Word - 1
  BY WeightedConns DEF Weighted!TypeOK, Weighted!Weights
<1>2. Weighted!Raised(c) \in Weighted!Weights /\ Weighted!Raised(c) >= efficientWeight[c]
  BY <1>1, WeightsAssumption DEF Weighted!Raised, Weighted!Weights
<1>3. Weighted!Lowered(c) \in Weighted!Weights
  BY <1>1, WordMod DEF Weighted!Lowered, Weighted!Weights
<1> QED BY <1>2, <1>3

\* Steps keep types and places: a pick begins.
LEMMA WeightPick ==
    ASSUME WeightTyped, NEW g \in Callers, Weighted!Pick(g)
    PROVE  WeightTyped'
<1>1. Wanted[g] \in SUBSET Conns /\ Weighted!First(Wanted[g]) \in Wanted[g]
  BY FirstOf, WantedAssumption DEF Weighted!Pick
<1>2. Weighted!TypeOK'
  BY <1>1, WeightedConns
  DEF WeightTyped, Weighted!TypeOK, Weighted!Pick, Weighted!Goto, Weighted!weights
<1>3. ASSUME NEW h \in Callers
      PROVE  /\ best'[h] = best[h] /\ total'[h] = total[h]
             /\ h # g => step'[h] = step[h] /\ at'[h] = at[h]
             /\ step'[g] = "add" /\ at'[g] \in Wanted[g]
  BY <1>1 DEF WeightTyped, Weighted!TypeOK, Weighted!Pick, Weighted!Goto
<1>4. WeightPlaces'
  BY <1>3 DEF WeightTyped, WeightPlaces
<1> QED BY <1>2, <1>4 DEF WeightTyped

\* The two additions.
LEMMA WeightAdd ==
    ASSUME WeightTyped, NEW g \in Callers, Weighted!Add(g)
    PROVE  WeightTyped'
<1> DEFINE e == efficientWeight[at[g]]
<1>1. at[g] \in Wanted[g] /\ at[g] \in Conns
  BY WantedAssumption DEF WeightTyped, WeightPlaces, Weighted!Add
<1>2. /\ e \in Int /\ currentWeight[at[g]] \in Int /\ total[g] \in Int
  BY <1>1, WeightedConns, WeightsAssumption DEF WeightTyped, Weighted!TypeOK, Weighted!Weights
<1>3. /\ (currentWeight[at[g]] + e) % Word \in Weighted!Weights
      /\ (total[g] + e) % Word \in Weighted!Weights
  BY <1>2, WordMod
<1>4. /\ Weighted!NoBase \in [Weighted!Conns -> Weighted!Weights]
  BY WordMod DEF Weighted!NoBase
<1>5. Weighted!TypeOK'
  BY <1>1, <1>3, <1>4, WeightedConns
  DEF WeightTyped, Weighted!TypeOK, Weighted!Add, Weighted!Goto, Weighted!Disturb
<1>6. ASSUME NEW h \in Callers
      PROVE  /\ best'[h] = best[h] /\ at'[h] = at[h]
             /\ h # g => step'[h] = step[h] /\ total'[h] = total[h]
             /\ step'[g] = "compare"
  BY DEF WeightTyped, Weighted!TypeOK, Weighted!Add, Weighted!Goto
<1>7. WeightPlaces'
  BY <1>1, <1>6 DEF WeightTyped, WeightPlaces
<1> QED BY <1>5, <1>7 DEF WeightTyped

\* The comparison.
LEMMA WeightCompare ==
    ASSUME WeightTyped, NEW g \in Callers, Weighted!Compare(g)
    PROVE  WeightTyped'
<1> DEFINE rest == {c \in Wanted[g] : c > at[g]}
<1>1. at[g] \in Wanted[g] /\ best[g] \in Wanted[g] \cup {0} /\ Wanted[g] \in SUBSET Conns
  BY WantedAssumption DEF WeightTyped, WeightPlaces, Weighted!Compare
<1>2. rest # {} => Weighted!First(rest) \in rest
  BY <1>1, FirstOf
<1>3. /\ best' = [best EXCEPT ![g] = IF Weighted!Heavier(g) THEN at[g] ELSE best[g]]
      /\ at' = [at EXCEPT ![g] = IF rest = {} THEN 0 ELSE Weighted!First(rest)]
      /\ step' = [step EXCEPT ![g] = IF rest = {} THEN "subtract" ELSE "add"]
      /\ UNCHANGED <<currentWeight, efficientWeight, total, base, solo>>
  BY DEF Weighted!Compare, Weighted!Goto, Weighted!weights
<1>4. best'[g] \in Wanted[g]
  BY <1>1, <1>3 DEF Weighted!Heavier, WeightTyped, Weighted!TypeOK
<1>5. /\ step'[g] \in {"add", "subtract"}
      /\ step'[g] = "add" => at'[g] \in Wanted[g]
      /\ at'[g] \in Conns \cup {0}
  BY <1>1, <1>2, <1>3 DEF WeightTyped, Weighted!TypeOK
<1> HIDE DEF rest
<1>6. ASSUME NEW h \in Callers, h # g
      PROVE  best'[h] = best[h] /\ at'[h] = at[h] /\ step'[h] = step[h]
  BY <1>3, <1>6 DEF WeightTyped, Weighted!TypeOK
<1>7. Weighted!TypeOK'
  BY <1>1, <1>3, <1>4, <1>5, <1>6, WeightedConns DEF WeightTyped, Weighted!TypeOK
<1>8. WeightPlaces'
  BY <1>3, <1>4, <1>5, <1>6 DEF WeightTyped, WeightPlaces
<1> QED BY <1>7, <1>8 DEF WeightTyped

\* The subtraction.
LEMMA WeightSubtract ==
    ASSUME WeightTyped, NEW g \in Callers, Weighted!Subtract(g)
    PROVE  WeightTyped'
<1>1. best[g] \in Wanted[g] /\ best[g] \in Conns
  BY WantedAssumption DEF WeightTyped, WeightPlaces, Weighted!Subtract
<1>2. currentWeight[best[g]] \in Int /\ total[g] \in Int
  BY <1>1, WeightedConns, WeightsAssumption DEF WeightTyped, Weighted!TypeOK, Weighted!Weights
<1>3. (currentWeight[best[g]] - total[g]) % Word \in Weighted!Weights
  BY <1>2, WordMod
<1>4. Weighted!NoBase \in [Weighted!Conns -> Weighted!Weights] /\ 0 \in Weighted!Weights
  BY WordMod DEF Weighted!NoBase
<1>5. Weighted!TypeOK'
  BY <1>1, <1>3, <1>4, WeightedConns
  DEF WeightTyped, Weighted!TypeOK, Weighted!Subtract, Weighted!Goto
<1>6. ASSUME NEW h \in Callers
      PROVE  /\ best'[h] = best[h] /\ at'[h] = at[h]
             /\ h # g => step'[h] = step[h] /\ total'[h] = total[h]
             /\ step'[g] = "call" /\ total'[g] = 0
  BY DEF WeightTyped, Weighted!TypeOK, Weighted!Subtract, Weighted!Goto
<1>7. WeightPlaces'
  BY <1>1, <1>6 DEF WeightTyped, WeightPlaces
<1> QED BY <1>5, <1>7 DEF WeightTyped

\* The callback.
LEMMA WeightDone ==
    ASSUME WeightTyped, NEW g \in Callers,
           Weighted!Succeed(g) \/ Weighted!Fail(g)
    PROVE  WeightTyped'
<1>1. PICK w : Weighted!Done(g, w) /\ w \in {Weighted!Raised(best[g]), Weighted!Lowered(best[g])}
  BY DEF Weighted!Succeed, Weighted!Fail
<1>2. best[g] \in Conns
  BY <1>1, WantedAssumption DEF WeightTyped, WeightPlaces, Weighted!Done
<1>3. w \in Weighted!Weights
  BY <1>1, <1>2, ChangedWeights DEF WeightTyped
<1>4. Weighted!NoBase \in [Weighted!Conns -> Weighted!Weights]
  BY WordMod DEF Weighted!NoBase
<1>5. Weighted!TypeOK'
  BY <1>1, <1>2, <1>3, <1>4, WeightedConns
  DEF WeightTyped, Weighted!TypeOK, Weighted!Done, Weighted!Goto, Weighted!Disturb
<1>6. ASSUME NEW h \in Callers
      PROVE  /\ at'[h] = at[h] /\ total'[h] = total[h]
             /\ h # g => step'[h] = step[h] /\ best'[h] = best[h]
             /\ step'[g] = "idle" /\ best'[g] = 0 /\ total[g] = 0
  BY <1>1 DEF WeightTyped, WeightPlaces, Weighted!TypeOK, Weighted!Done, Weighted!Goto
<1>7. WeightPlaces'
  BY <1>6 DEF WeightTyped, WeightPlaces
<1> QED BY <1>5, <1>7 DEF WeightTyped

\* The picker as Build makes it.
LEMMA WeightInit ==
    ASSUME Weighted!Init
    PROVE  WeightTyped
<1>1. Weight \in [Weighted!Conns -> Weighted!Weights]
  BY WeightedConns, WeightsAssumption DEF Weighted!Weights
<1>2. Weighted!NoBase \in [Weighted!Conns -> Weighted!Weights] /\ 0 \in Weighted!Weights
  BY WordMod DEF Weighted!NoBase
<1>3. Weighted!TypeOK
  BY <1>1, <1>2 DEF Weighted!Init, Weighted!TypeOK
<1>4. WeightPlaces
  BY DEF Weighted!Init, WeightPlaces
<1> QED BY <1>3, <1>4 DEF WeightTyped

\* Every step keeps the types and places (weight_picker.go:60-136).
LEMMA WeightStep ==
    ASSUME WeightTyped, [Weighted!Next]_Weighted!vars
    PROVE  WeightTyped'
<1>1. CASE UNCHANGED Weighted!vars
  BY <1>1 DEF Weighted!vars, WeightTyped, WeightPlaces, Weighted!TypeOK
<1> QED BY <1>1, WeightPick, WeightAdd, WeightCompare, WeightSubtract, WeightDone
  DEF Weighted!Next

\* The types hold in every state of the weighted picker.
LEMMA WeightTypes == Weighted!Spec => []WeightTyped
<1>1. WeightTyped /\ [Weighted!Next]_Weighted!vars => WeightTyped'
  BY WeightStep
<1> QED BY <1>1, WeightInit, PTL DEF Weighted!Spec

(***************************************************************************)
(* A successful call never lowers a weight, for any weights and however    *)
(* callbacks interleave.  About the look at math.MaxUint32 before the      *)
(* increment (weight_picker.go:97, 127).                                   *)
(***************************************************************************)
THEOREM RaisesOnly == Weighted!Spec => SuccessNeverLowers
<1> DEFINE Raising == (\E g \in Callers : Weighted!Succeed(g)) =>
                         \A c \in Weighted!Conns : efficientWeight'[c] >= efficientWeight[c]
<1>1. ASSUME WeightTyped PROVE Raising
  <2> SUFFICES ASSUME NEW g \in Callers, Weighted!Succeed(g), NEW c \in Conns
               PROVE  efficientWeight'[c] >= efficientWeight[c]
    BY WeightedConns
  <2>1. best[g] \in Conns
    BY <1>1, WantedAssumption DEF WeightTyped, WeightPlaces, Weighted!Succeed, Weighted!Done
  <2>2. efficientWeight' = [efficientWeight EXCEPT ![best[g]] = Weighted!Raised(best[g])]
    BY DEF Weighted!Succeed, Weighted!Done
  <2>3. Weighted!Raised(best[g]) >= efficientWeight[best[g]]
    BY <1>1, <2>1, ChangedWeights DEF WeightTyped
  <2>4. efficientWeight \in [Conns -> 0 .. Word - 1]
    BY <1>1, WeightedConns DEF WeightTyped, Weighted!TypeOK, Weighted!Weights
  <2> QED BY <2>1, <2>2, <2>3, <2>4, WeightsAssumption
<1>2. WeightTyped => [Raising]_Weighted!vars
  BY <1>1
<1> QED BY <1>2, WeightTypes, PTL DEF SuccessNeverLowers, Weighted!SuccessNeverLowers

\* What a failed call does to the weights: it lowers them, but for a 0 of a
\* connection whose configured weight is not, which becomes the largest number.
FailureRaisesFromZero ==
    [][(\E g \in Callers : Weighted!Fail(g)) =>
         \A c \in Conns :
            \/ efficientWeight'[c] <= efficientWeight[c]
            \/ efficientWeight[c] = 0 /\ Weight[c] # 0
                 /\ efficientWeight'[c] = Word - 1]_Weighted!vars

(***************************************************************************)
(* That a 0 wraps is the only way in which a failed call raises a weight,  *)
(* for any weights and however callbacks interleave.  About the look at    *)
(* the configured weight before the decrement (weight_picker.go:95-96,     *)
(* 124).                                                                   *)
(***************************************************************************)
THEOREM RaisesFromZeroOnly == Weighted!Spec => FailureRaisesFromZero
<1> DEFINE Lowering == (\E g \in Callers : Weighted!Fail(g)) =>
                          \A c \in Conns :
                             \/ efficientWeight'[c] <= efficientWeight[c]
                             \/ efficientWeight[c] = 0 /\ Weight[c] # 0
                                  /\ efficientWeight'[c] = Word - 1
<1>1. ASSUME WeightTyped PROVE Lowering
  <2> SUFFICES ASSUME NEW g \in Callers, Weighted!Fail(g), NEW c \in Conns
               PROVE  \/ efficientWeight'[c] <= efficientWeight[c]
                      \/ efficientWeight[c] = 0 /\ Weight[c] # 0
                           /\ efficientWeight'[c] = Word - 1
    OBVIOUS
  <2> DEFINE b == best[g]
             low == Weighted!Lowered(b)
  <2>1. b \in Conns
    BY <1>1, WantedAssumption DEF WeightTyped, WeightPlaces, Weighted!Fail, Weighted!Done
  <2>2. efficientWeight' = [efficientWeight EXCEPT ![b] = low]
    BY DEF Weighted!Fail, Weighted!Done
  <2>3. efficientWeight \in [Conns -> 0 .. Word - 1]
    BY <1>1, WeightedConns DEF WeightTyped, Weighted!TypeOK, Weighted!Weights
  <2>4. /\ Weight[b] = 0 => low = efficientWeight[b]
        /\ Weight[b] # 0 => low = (efficientWeight[b] - 1) % Word
    BY DEF Weighted!Lowered
  <2>5. Word \in Nat \ {0} /\ efficientWeight[b] \in 0 .. Word - 1
    BY <2>1, <2>3, WeightsAssumption
  <2> HIDE DEF b, low
  <2>6. /\ efficientWeight[b] # 0 => (efficientWeight[b] - 1) % Word = efficientWeight[b] - 1
        /\ efficientWeight[b] = 0 => (efficientWeight[b] - 1) % Word = Word - 1
    <3> DEFINE e == efficientWeight[b]
    <3>1. e \in Int /\ e - 1 \in Int /\ Word \in Nat \ {0}
      BY <2>5
    <3>2. CASE e # 0
      <4>1. e - 1 = Word * 0 + (e - 1) /\ e - 1 \in 0 .. Word - 1 /\ 0 \in Int
        BY <2>5, <3>2
      <4>2. (e - 1) % Word = e - 1
        <5> HIDE DEF e
        <5> QED BY <3>1, <4>1, Remainder, Zenon
      <4> QED BY <3>2, <4>2
    <3>3. CASE e = 0
      <4>1. e - 1 = Word * (-1) + (Word - 1) /\ Word - 1 \in 0 .. Word - 1 /\ -1 \in Int
        BY <2>5, <3>3
      <4>2. (e - 1) % Word = Word - 1
        <5> HIDE DEF e
        <5> QED BY <3>1, <4>1, Remainder, Zenon
      <4> QED BY <3>3, <4>2
    <3> QED BY <3>2, <3>3
  <2>7. \/ low <= efficientWeight[b]
        \/ efficientWeight[b] = 0 /\ Weight[b] # 0 /\ low = Word - 1
    BY <2>4, <2>5, <2>6
  <2>8. CASE c = b
    BY <2>1, <2>2, <2>3, <2>7, <2>8
  <2>9. CASE c # b
    BY <2>2, <2>3, <2>9
  <2> QED BY <2>8, <2>9
<1>2. WeightTyped => [Lowering]_Weighted!vars
  BY <1>1
<1> QED BY <1>2, WeightTypes, PTL DEF FailureRaisesFromZero

-----------------------------------------------------------------------------
(***************************************************************************)
(* Conserved, as an equation with the multiple of Word that wrapped around.*)
(***************************************************************************)
Balanced(current, added) ==
    \E q \in Int :
        SumFunctionOnSet(current, Conns)
          = SumFunctionOnSet(Weight, Conns) + SumFunctionOnSet(added, Callers) + Word * q

\* An instance has its own sums, which are the same.
LEMMA WeightedSums ==
    /\ \A f, S : Weighted!SumFunctionOnSet(f, S) = SumFunctionOnSet(f, S)
    /\ \A f : Weighted!SumFunction(f) = SumFunctionOnSet(f, DOMAIN f)
<1>1. \A f, S : Weighted!SumFunctionOnSet(f, S) = SumFunctionOnSet(f, S)
  BY DEF Weighted!SumFunctionOnSet, Weighted!FoldFunctionOnSet, Weighted!MapThenFoldSet,
         SumFunctionOnSet, FoldFunctionOnSet, MapThenFoldSet
<1> QED BY <1>1 DEF Weighted!SumFunction

\* The sums of current weights and totals are integers.
LEMMA WeightSums ==
    ASSUME WeightTyped
    PROVE  /\ \A c \in Conns : currentWeight[c] \in Int
           /\ \A g \in Callers : total[g] \in Int
           /\ SumFunctionOnSet(currentWeight, Conns) \in Int
           /\ SumFunctionOnSet(Weight, Conns) \in Int
           /\ SumFunctionOnSet(total, Callers) \in Int
<1>1. Weighted!Weights \subseteq Int
  BY DEF Weighted!Weights
<1>2. \A c \in Conns : currentWeight[c] \in Int
  BY <1>1, WeightedConns DEF WeightTyped, Weighted!TypeOK
<1>3. \A c \in Conns : Weight[c] \in Int
  BY WeightsAssumption
<1>4. \A g \in Callers : total[g] \in Int
  BY <1>1 DEF WeightTyped, Weighted!TypeOK
<1> QED BY <1>2, <1>3, <1>4, ConnsFinite, SumType, P2CAssumption

\* An addition under the connection's mutex adds to both (weight_picker.go:72-74).
LEMMA BalancedAdd ==
    ASSUME WeightTyped, NEW g \in Callers,
           Balanced(currentWeight, total), Weighted!Add(g)
    PROVE  Balanced(currentWeight', total')
<1> DEFINE c == at[g]
           e == efficientWeight[c]
           x == currentWeight[c]
           t == total[g]
           x1 == (x + e) % Word
           t1 == (t + e) % Word
<1>1. c \in Conns
  BY WantedAssumption DEF WeightTyped, WeightPlaces, Weighted!Add
<1>2. e \in Int /\ x \in Int /\ t \in Int
  BY <1>1, WeightedConns, WeightsAssumption DEF WeightTyped, Weighted!TypeOK, Weighted!Weights
<1>3. /\ currentWeight'[c] = x1 /\ \A d \in Conns : d # c => currentWeight'[d] = currentWeight[d]
      /\ total'[g] = t1 /\ \A h \in Callers : h # g => total'[h] = total[h]
  BY <1>1, WeightedConns DEF Weighted!Add, WeightTyped, Weighted!TypeOK
<1> HIDE DEF e, x, t
<1>4. PICK q1 \in Int : x1 = x + e + Word * q1
  <2>1. x + e \in Int
    BY <1>2
  <2> QED BY <2>1, LessMultiple, WeightsAssumption DEF x1
<1>5. PICK q2 \in Int : t1 = t + e + Word * q2
  <2>1. t + e \in Int
    BY <1>2
  <2> QED BY <2>1, LessMultiple, WeightsAssumption DEF t1
<1> HIDE DEF x1, t1
<1>6. x1 \in Int /\ t1 \in Int
  BY <1>2, <1>4, <1>5, WeightsAssumption
<1>7. SumFunctionOnSet(currentWeight', Conns)
        = SumFunctionOnSet(currentWeight, Conns) - x + x1
  <2>1. IsFiniteSet(Conns) /\ \A d \in Conns : currentWeight[d] \in Int
    BY ConnsFinite, WeightSums
  <2> HIDE DEF c
  <2> QED BY <2>1, <1>1, <1>3, <1>6, SumEdit DEF x
<1>8. SumFunctionOnSet(total', Callers) = SumFunctionOnSet(total, Callers) - t + t1
  BY <1>3, <1>6, WeightSums, SumEdit, P2CAssumption DEF t
<1>9. PICK q \in Int : SumFunctionOnSet(currentWeight, Conns)
          = SumFunctionOnSet(Weight, Conns) + SumFunctionOnSet(total, Callers) + Word * q
  BY DEF Balanced
<1>10. SumFunctionOnSet(currentWeight', Conns)
          = SumFunctionOnSet(Weight, Conns) + SumFunctionOnSet(total', Callers)
              + Word * (q + q1 - q2)
  BY <1>2, <1>4, <1>5, <1>7, <1>8, <1>9, WeightSums, WeightsAssumption
<1>11. q + q1 - q2 \in Int
  OBVIOUS
<1> QED BY <1>10, <1>11 DEF Balanced

\* The subtraction takes back the total (weight_picker.go:83-85).
LEMMA BalancedSubtract ==
    ASSUME WeightTyped, NEW g \in Callers,
           Balanced(currentWeight, total), Weighted!Subtract(g)
    PROVE  Balanced(currentWeight', total')
<1> DEFINE c == best[g]
           x == currentWeight[c]
           t == total[g]
           x1 == (x - t) % Word
<1>1. c \in Conns
  BY WantedAssumption DEF WeightTyped, WeightPlaces, Weighted!Subtract
<1>2. x \in Int /\ t \in Int
  BY <1>1, WeightedConns, WeightsAssumption DEF WeightTyped, Weighted!TypeOK, Weighted!Weights
<1>3. /\ currentWeight'[c] = x1 /\ \A d \in Conns : d # c => currentWeight'[d] = currentWeight[d]
      /\ total'[g] = 0 /\ \A h \in Callers : h # g => total'[h] = total[h]
  BY <1>1, WeightedConns DEF Weighted!Subtract, WeightTyped, Weighted!TypeOK
<1> HIDE DEF x, t
<1>4. PICK q1 \in Int : x1 = x - t + Word * q1
  <2>1. x - t \in Int
    BY <1>2
  <2> QED BY <2>1, LessMultiple, WeightsAssumption DEF x1
<1> HIDE DEF x1
<1>5. x1 \in Int
  BY <1>2, <1>4, WeightsAssumption
<1>6. SumFunctionOnSet(currentWeight', Conns)
        = SumFunctionOnSet(currentWeight, Conns) - x + x1
  <2>1. IsFiniteSet(Conns) /\ \A d \in Conns : currentWeight[d] \in Int
    BY ConnsFinite, WeightSums
  <2> HIDE DEF c
  <2> QED BY <2>1, <1>1, <1>3, <1>5, SumEdit DEF x
<1>7. SumFunctionOnSet(total', Callers) = SumFunctionOnSet(total, Callers) - t + 0
  BY <1>3, WeightSums, SumEdit, P2CAssumption DEF t
<1>8. PICK q \in Int : SumFunctionOnSet(currentWeight, Conns)
          = SumFunctionOnSet(Weight, Conns) + SumFunctionOnSet(total, Callers) + Word * q
  BY DEF Balanced
<1>9. SumFunctionOnSet(currentWeight', Conns)
          = SumFunctionOnSet(Weight, Conns) + SumFunctionOnSet(total', Callers)
              + Word * (q + q1)
  BY <1>2, <1>4, <1>6, <1>7, <1>8, WeightSums, WeightsAssumption
<1>10. q + q1 \in Int
  OBVIOUS
<1> QED BY <1>9, <1>10 DEF Balanced

\* No other step touches currentWeight or total.
LEMMA BalancedStep ==
    ASSUME WeightTyped,
           Balanced(currentWeight, total), [Weighted!Next]_Weighted!vars
    PROVE  Balanced(currentWeight', total')
<1>1. ASSUME NEW g \in Callers,
             Weighted!Pick(g) \/ Weighted!Compare(g) \/ Weighted!Succeed(g) \/ Weighted!Fail(g)
      PROVE  UNCHANGED <<currentWeight, total>>
  BY <1>1 DEF Weighted!Pick, Weighted!Compare, Weighted!Succeed, Weighted!Fail,
              Weighted!Done, Weighted!weights
<1>2. UNCHANGED Weighted!vars => UNCHANGED <<currentWeight, total>>
  BY DEF Weighted!vars
<1>3. UNCHANGED <<currentWeight, total>> => Balanced(currentWeight', total')
  OBVIOUS
<1> QED BY <1>1, <1>2, <1>3, BalancedAdd, BalancedSubtract DEF Weighted!Next

(***************************************************************************)
(* Weight is neither made nor lost, for any callers, connections and       *)
(* weights, and however picks and callbacks interleave.  About the pair of *)
(* additions under one mutex and the subtraction under another             *)
(* (weight_picker.go:72-85).                                               *)
(***************************************************************************)
THEOREM WeightIsConserved == Weighted!Spec => []Conserved
<1>1. ASSUME Weighted!Init PROVE Balanced(currentWeight, total)
  <2>1. SumFunctionOnSet(total, Callers) = 0
    BY <1>1, SumZero, P2CAssumption DEF Weighted!Init
  <2>2. currentWeight = Weight
    BY <1>1 DEF Weighted!Init
  <2>3. SumFunctionOnSet(Weight, Conns) \in Int
    BY <1>1, WeightInit, WeightSums
  <2>4. SumFunctionOnSet(currentWeight, Conns)
          = SumFunctionOnSet(Weight, Conns) + SumFunctionOnSet(total, Callers) + Word * 0
    BY <2>1, <2>2, <2>3, WeightsAssumption
  <2> QED BY <2>4 DEF Balanced
<1>2. WeightTyped /\ Balanced(currentWeight, total) /\ [Weighted!Next]_Weighted!vars
        => Balanced(currentWeight, total)'
  BY BalancedStep
<1>3. ASSUME WeightTyped, Balanced(currentWeight, total) PROVE Conserved
  <2>1. DOMAIN currentWeight = Conns /\ DOMAIN Weight = Conns /\ DOMAIN total = Callers
    BY <1>3, WeightedConns, WeightsAssumption DEF WeightTyped, Weighted!TypeOK
  <2> DEFINE a == SumFunctionOnSet(currentWeight, Conns)
             b == SumFunctionOnSet(Weight, Conns) + SumFunctionOnSet(total, Callers)
  <2>2. a \in Int /\ b \in Int
    BY <1>3, WeightSums
  <2>3. PICK q \in Int : a = b + Word * q
    BY <1>3 DEF Balanced
  <2>4. Conserved <=> a % Word = b % Word
    BY <2>1, WeightedSums DEF Conserved, Weighted!Conserved
  <2> HIDE DEF a, b
  <2>5. a % Word = b % Word
    BY <2>2, <2>3, Congruent, WeightsAssumption
  <2> QED BY <2>4, <2>5
<1> QED BY <1>1, <1>2, <1>3, WeightTypes, PTL DEF Weighted!Spec

-----------------------------------------------------------------------------
(***************************************************************************)
(* A pick that nobody disturbs, which has come to connection a in place l: *)
(* the connections that it has added to, those that it has compared, and   *)
(* the first of the heaviest of these.                                     *)
(***************************************************************************)
Passed(W, l, a) ==
    {c \in W : l = "subtract" \/ c < a \/ (l = "compare" /\ c = a)}
Compared(W, l, a) == {c \in W : l = "subtract" \/ c < a}

Leads(cur, b, S) ==
    IF S = {} THEN b = 0
    ELSE b \in S /\ \A d \in S : cur[d] < cur[b] \/ (cur[d] = cur[b] /\ b <= d)

Sequential(W, l, a, cur, eff, was, sum, b) ==
    /\ l \in {"add", "compare", "subtract"}
    /\ \A c \in Passed(W, l, a) : cur[c] = (was[c] + eff[c]) % Word
    /\ \A c \in Conns \ Passed(W, l, a) : cur[c] = was[c]
    /\ sum = SumFunctionOnSet(eff, Passed(W, l, a)) % Word
    /\ Leads(cur, b, Compared(W, l, a))

Undisturbed(g) ==
    Sequential(Wanted[g], step[g], at[g], currentWeight, efficientWeight,
               base[g], total[g], best[g])

SoloInv == \A g \in Callers : solo[g] => Undisturbed(g)

\* A pick that begins has added and compared nothing.
LEMMA SequentialStart ==
    ASSUME NEW W \in SUBSET Conns, W # {}, NEW cur, NEW eff
    PROVE  Sequential(W, "add", Weighted!First(W), cur, eff, cur, 0, 0)
<1> DEFINE a == Weighted!First(W)
<1>1. a \in W /\ \A d \in W : a <= d
  BY FirstOf
<1>2. a \in Int /\ \A d \in W : d \in Int
  BY <1>1, ConnsFinite
<1> HIDE DEF a
<1>3. Passed(W, "add", a) = {} /\ Compared(W, "add", a) = {}
  <2>1. \A c \in W : ~(c < a)
    BY <1>1, <1>2
  <2> QED BY <2>1 DEF Passed, Compared
<1>4. SumFunctionOnSet(eff, {}) = 0 /\ 0 % Word = 0
  <2>1. SumFunctionOnSet(eff, {}) = 0
    BY SumAny, FS_EmptySet
  <2> QED BY <2>1, WeightsAssumption
<1> QED BY <1>3, <1>4 DEF Sequential, Leads, a

\* The two additions (weight_picker.go:72-74).
LEMMA SequentialAdd ==
    ASSUME NEW W \in SUBSET Conns, NEW a \in W, NEW b, NEW sum,
           NEW cur \in [Conns -> Weighted!Weights],
           NEW eff \in [Conns -> Weighted!Weights], NEW was,
           Sequential(W, "add", a, cur, eff, was, sum, b)
    PROVE  Sequential(W, "compare", a, [cur EXCEPT ![a] = (cur[a] + eff[a]) % Word],
                      eff, was, (sum + eff[a]) % Word, b)
<1> DEFINE S == Passed(W, "add", a)
           T == Passed(W, "compare", a)
           next == [cur EXCEPT ![a] = (cur[a] + eff[a]) % Word]
<1>1. a \in Conns /\ a \in Int /\ \A c \in W : c \in Int
  BY ConnsFinite
<1>2. a \notin S /\ T = S \cup {a} /\ S \in SUBSET Conns /\ T \in SUBSET Conns
  <2>1. S = {c \in W : c < a} /\ T = {c \in W : c < a \/ c = a}
    BY DEF Passed
  <2>2. ~(a < a)
    BY <1>1
  <2> HIDE DEF S, T
  <2> QED BY <2>1, <2>2
<1>3. Compared(W, "compare", a) = Compared(W, "add", a) /\ a \notin Compared(W, "add", a)
      /\ Compared(W, "add", a) \subseteq Conns
  <2>1. Compared(W, "compare", a) = {c \in W : c < a} /\ Compared(W, "add", a) = {c \in W : c < a}
    BY DEF Compared
  <2>2. ~(a < a)
    BY <1>1
  <2> QED BY <2>1, <2>2
<1>4. cur[a] = was[a]
  BY <1>1, <1>2 DEF Sequential
<1>5. next[a] = (was[a] + eff[a]) % Word /\ \A c \in Conns : c # a => next[c] = cur[c]
  BY <1>1, <1>4
<1>6. (sum + eff[a]) % Word = SumFunctionOnSet(eff, T) % Word
  <2> DEFINE u == SumFunctionOnSet(eff, S)
             v == SumFunctionOnSet(eff, T)
             e == eff[a]
  <2>1. \A c \in Conns : eff[c] \in Int
    BY DEF Weighted!Weights
  <2>2. IsFiniteSet(S) /\ IsFiniteSet(T) /\ (\A c \in S : eff[c] \in Int) /\ \A c \in T : eff[c] \in Int
    BY <1>2, <2>1, ConnsFinite
  <2>3. u \in Int /\ e \in Int
    BY <1>1, <2>1, <2>2, SumType
  <2>4. T \ {a} = S /\ a \in T
    BY <1>2
  <2>5. v = e + u
    <3> HIDE DEF S, T
    <3>1. v = e + SumFunctionOnSet(eff, T \ {a})
      BY <2>2, <2>4, SumSplit
    <3> QED BY <2>4, <3>1
  <2>6. sum = u % Word
    BY DEF Sequential
  <2> HIDE DEF u, v, e
  <2>7. ((u % Word) + e) % Word = (u + e) % Word
    BY <2>3, AddRemainder, WeightsAssumption
  <2>8. u + e = v
    BY <2>3, <2>5
  <2> QED BY <2>6, <2>7, <2>8 DEF v, e
<1>7. \A c \in T : next[c] = (was[c] + eff[c]) % Word
  BY <1>2, <1>5 DEF Sequential
<1>8. \A c \in Conns \ T : next[c] = was[c]
  BY <1>2, <1>5 DEF Sequential
<1>9. Leads(next, b, Compared(W, "compare", a))
  <2>1. \A c \in Compared(W, "add", a) : next[c] = cur[c]
    BY <1>3, <1>5
  <2>2. Leads(cur, b, Compared(W, "add", a))
    BY DEF Sequential
  <2> HIDE DEF next
  <2> QED BY <1>3, <2>1, <2>2 DEF Leads
<1> QED BY <1>6, <1>7, <1>8, <1>9 DEF Sequential

\* The comparison, and the next connection (weight_picker.go:75-79).
LEMMA SequentialCompare ==
    ASSUME NEW W \in SUBSET Conns, NEW a \in W, NEW b, NEW sum,
           NEW cur \in [Conns -> Weighted!Weights], NEW eff, NEW was,
           Sequential(W, "compare", a, cur, eff, was, sum, b),
           NEW rest, rest = {c \in W : c > a},
           NEW l, l = IF rest = {} THEN "subtract" ELSE "add",
           NEW n, n = IF rest = {} THEN 0 ELSE Weighted!First(rest),
           NEW m, m = IF b = 0 \/ cur[b] < cur[a] THEN a ELSE b
    PROVE  Sequential(W, l, n, cur, eff, was, sum, m)
<1> DEFINE S == Compared(W, "compare", a)
           T == {c \in W : c <= a}
<1>1. a \in Int /\ (\A c \in W : c \in Int) /\ \A c \in W : cur[c] \in Int
  BY ConnsFinite DEF Weighted!Weights
<1>2. rest # {} => n \in rest /\ \A d \in rest : n <= d
  <2>1. rest \in SUBSET Conns
    OBVIOUS
  <2> QED BY <2>1, FirstOf
<1>3. Passed(W, "compare", a) = T /\ T = S \cup {a} /\ a \notin S /\ S \subseteq W
  <2>1. S = {c \in W : c < a} /\ Passed(W, "compare", a) = {c \in W : c < a \/ c = a}
    BY DEF Passed, Compared
  <2>2. ~(a < a) /\ a <= a /\ \A c \in W : (c <= a) <=> (c < a \/ c = a)
    BY <1>1
  <2> HIDE DEF S
  <2> QED BY <2>1, <2>2
<1>4. Passed(W, l, n) = T /\ Compared(W, l, n) = T
  <2>1. CASE rest = {}
    <3>1. \A c \in W : c <= a
      BY <1>1, <2>1
    <3> QED BY <2>1, <3>1 DEF Passed, Compared
  <2>2. CASE rest # {}
    <3>1. n \in W /\ n \in Int /\ n > a /\ l = "add"
      BY <1>1, <1>2, <2>2
    <3>2. ASSUME NEW c \in W PROVE (c < n) <=> (c <= a)
      <4>1. c \in Int
        BY <1>1
      <4>2. CASE c > a
        <5>1. n <= c
          BY <1>2, <2>2, <4>2
        <5> QED BY <1>1, <3>1, <4>1, <4>2, <5>1
      <4>3. CASE ~(c > a)
        BY <1>1, <3>1, <4>1, <4>3
      <4> QED BY <4>2, <4>3
    <3>3. Passed(W, l, n) = {c \in W : c < n} /\ Compared(W, l, n) = {c \in W : c < n}
      BY <3>1 DEF Passed, Compared
    <3> QED BY <3>2, <3>3
  <2> QED BY <2>1, <2>2
<1>5. Leads(cur, b, S)
  BY DEF Sequential
<1>6. \A c \in S : c < a
  BY DEF S, Compared
<1>7. Leads(cur, m, T)
  <2>1. CASE S = {}
    <3>1. T = {a} /\ b = 0 /\ m = a
      BY <1>3, <1>5, <2>1 DEF Leads
    <3> QED BY <1>1, <3>1 DEF Leads
  <2>2. CASE S # {}
    <3>1. b \in S /\ \A d \in S : cur[d] < cur[b] \/ (cur[d] = cur[b] /\ b <= d)
      BY <1>5, <2>2 DEF Leads
    <3>2. b # 0 /\ b \in Int /\ b < a
      <4>1. b \in Conns /\ b < a
        BY <1>3, <1>6, <3>1
      <4> QED BY <4>1, ConnsFinite DEF Conns
    <3>3. CASE cur[b] < cur[a]
      <4>1. m = a /\ m \in T
        BY <1>3, <3>3
      <4>2. ASSUME NEW d \in T PROVE cur[d] < cur[a] \/ (cur[d] = cur[a] /\ a <= d)
        <5>1. CASE d = a
          BY <1>1, <5>1
        <5>2. CASE d # a
          <6>1. d \in S /\ cur[d] \in Int /\ cur[b] \in Int /\ cur[a] \in Int
            BY <1>1, <1>3, <3>1, <5>2
          <6> QED BY <3>1, <3>3, <6>1
        <5> QED BY <5>1, <5>2
      <4> HIDE DEF T
      <4> QED BY <4>1, <4>2 DEF Leads
    <3>4. CASE ~(cur[b] < cur[a])
      <4>1. m = b /\ m \in T
        BY <1>3, <3>1, <3>2, <3>4
      <4>2. ASSUME NEW d \in T PROVE cur[d] < cur[b] \/ (cur[d] = cur[b] /\ b <= d)
        <5>1. CASE d = a
          <6>1. cur[b] \in Int /\ cur[a] \in Int
            BY <1>1, <1>3, <3>1
          <6> QED BY <1>1, <3>2, <3>4, <5>1, <6>1
        <5>2. CASE d # a
          BY <1>3, <3>1, <5>2
        <5> QED BY <5>1, <5>2
      <4> HIDE DEF T
      <4> QED BY <4>1, <4>2 DEF Leads
    <3> QED BY <3>3, <3>4
  <2> QED BY <2>1, <2>2
<1>8. Sequential(W, l, n, cur, eff, was, sum, m)
  <2>1. l \in {"add", "compare", "subtract"}
    OBVIOUS
  <2> HIDE DEF T
  <2> QED BY <1>3, <1>4, <1>7, <2>1 DEF Sequential
<1> QED BY <1>8

\* A pick remains sequential until somebody disturbs it.
LEMMA SoloStep ==
    ASSUME WeightTyped, SoloInv, [Weighted!Next]_Weighted!vars
    PROVE  SoloInv'
<1>1. /\ currentWeight \in [Conns -> Weighted!Weights]
      /\ efficientWeight \in [Conns -> Weighted!Weights]
      /\ \A g \in Callers : Wanted[g] \in SUBSET Conns
  BY WeightedConns, WantedAssumption DEF WeightTyped, Weighted!TypeOK
<1>2. ASSUME NEW g \in Callers, Weighted!Pick(g) PROVE SoloInv'
  <2>1. Undisturbed(g)'
    <3>1. best[g] = 0 /\ total[g] = 0
      BY <1>2 DEF WeightTyped, WeightPlaces, Weighted!Pick
    <3>2. /\ step'[g] = "add" /\ at'[g] = Weighted!First(Wanted[g])
          /\ base'[g] = currentWeight /\ total'[g] = 0 /\ best'[g] = 0
          /\ currentWeight' = currentWeight /\ efficientWeight' = efficientWeight
      BY <1>2, <3>1 DEF Weighted!Pick, Weighted!Goto, Weighted!weights, WeightTyped, Weighted!TypeOK
    <3>3. Wanted[g] # {}
      BY <1>2 DEF Weighted!Pick
    <3> QED BY <1>1, <3>2, <3>3, SequentialStart DEF Undisturbed
  <2>2. ASSUME NEW h \in Callers, h # g, solo'[h] PROVE Undisturbed(h)'
    <3>1. /\ step'[h] = step[h] /\ at'[h] = at[h] /\ base'[h] = base[h]
          /\ total' = total /\ best' = best /\ solo[h]
          /\ currentWeight' = currentWeight /\ efficientWeight' = efficientWeight
      BY <1>2, <2>2 DEF Weighted!Pick, Weighted!Goto, Weighted!weights, WeightTyped, Weighted!TypeOK
    <3> QED BY <3>1 DEF SoloInv, Undisturbed
  <2> QED BY <2>1, <2>2 DEF SoloInv
<1>3. ASSUME NEW g \in Callers, Weighted!Add(g) PROVE SoloInv'
  <2>1. \A h \in Callers : solo'[h] => h = g /\ solo[g]
    BY <1>3 DEF Weighted!Add, Weighted!Disturb
  <2>2. ASSUME solo[g] PROVE Undisturbed(g)'
    <3>1. Undisturbed(g) /\ step[g] = "add" /\ at[g] \in Wanted[g]
      BY <1>3, <2>2 DEF SoloInv, WeightTyped, WeightPlaces, Weighted!Add
    <3>2. /\ step'[g] = "compare" /\ at'[g] = at[g] /\ base'[g] = base[g] /\ best'[g] = best[g]
          /\ total'[g] = (total[g] + efficientWeight[at[g]]) % Word
          /\ efficientWeight' = efficientWeight
          /\ currentWeight' = [currentWeight EXCEPT
                ![at[g]] = (currentWeight[at[g]] + efficientWeight[at[g]]) % Word]
      BY <1>3 DEF Weighted!Add, Weighted!Goto, Weighted!Disturb, WeightTyped, Weighted!TypeOK
    <3> DEFINE W == Wanted[g]
               a == at[g]
               cur == currentWeight
               eff == efficientWeight
               was == base[g]
               sum == total[g]
               b == best[g]
    <3>3. /\ W \in SUBSET Conns /\ a \in W /\ Sequential(W, "add", a, cur, eff, was, sum, b)
          /\ cur \in [Conns -> Weighted!Weights] /\ eff \in [Conns -> Weighted!Weights]
      BY <1>1, <3>1 DEF Undisturbed
    <3>4. Sequential(W, "compare", a, [cur EXCEPT ![a] = (cur[a] + eff[a]) % Word],
                     eff, was, (sum + eff[a]) % Word, b)
      <4> HIDE DEF W, a, cur, eff, was, sum, b
      <4> QED BY <3>3, SequentialAdd, Zenon
    <3> QED BY <1>1, <3>2, <3>4 DEF Undisturbed
  <2> QED BY <2>1, <2>2 DEF SoloInv
<1>4. ASSUME NEW g \in Callers, Weighted!Compare(g) PROVE SoloInv'
  <2>1. /\ UNCHANGED <<currentWeight, efficientWeight, total, base, solo>>
        /\ \A h \in Callers : h # g => step'[h] = step[h] /\ at'[h] = at[h] /\ best'[h] = best[h]
    BY <1>4 DEF Weighted!Compare, Weighted!Goto, Weighted!weights, WeightTyped, Weighted!TypeOK
  <2>2. ASSUME NEW h \in Callers, h # g, solo'[h] PROVE Undisturbed(h)'
    BY <2>1, <2>2 DEF SoloInv, Undisturbed
  <2>3. ASSUME solo[g] PROVE Undisturbed(g)'
    <3> DEFINE rest == {c \in Wanted[g] : c > at[g]}
    <3>1. Undisturbed(g) /\ step[g] = "compare" /\ at[g] \in Wanted[g]
      BY <1>4, <2>3 DEF SoloInv, WeightTyped, WeightPlaces, Weighted!Compare
    <3>2. /\ step'[g] = IF rest = {} THEN "subtract" ELSE "add"
          /\ at'[g] = IF rest = {} THEN 0 ELSE Weighted!First(rest)
          /\ best'[g] = IF best[g] = 0 \/ currentWeight[best[g]] < currentWeight[at[g]]
                        THEN at[g] ELSE best[g]
      BY <1>4 DEF Weighted!Compare, Weighted!Goto, Weighted!Heavier, WeightTyped, Weighted!TypeOK
    <3>3. Sequential(Wanted[g], step'[g], at'[g], currentWeight, efficientWeight,
                     base[g], total[g], best'[g])
      <4>1. Sequential(Wanted[g], "compare", at[g], currentWeight, efficientWeight,
                       base[g], total[g], best[g])
        BY <3>1 DEF Undisturbed
      <4>2. Wanted[g] \in SUBSET Conns /\ at[g] \in Wanted[g]
        BY <1>1, <3>1
      <4> DEFINE W == Wanted[g]
                 a == at[g]
                 b == best[g]
                 cur == currentWeight
                 l == step'[g]
                 n == at'[g]
                 m == best'[g]
      <4>3. /\ W \in SUBSET Conns /\ a \in W /\ cur \in [Conns -> Weighted!Weights]
            /\ Sequential(W, "compare", a, cur, efficientWeight, base[g], total[g], b)
            /\ rest = {c \in W : c > a}
            /\ l = (IF rest = {} THEN "subtract" ELSE "add")
            /\ n = (IF rest = {} THEN 0 ELSE Weighted!First(rest))
            /\ m = (IF b = 0 \/ cur[b] < cur[a] THEN a ELSE b)
        BY <1>1, <3>2, <4>1, <4>2
      <4> HIDE DEF rest, W, a, b, cur, l, n, m
      <4>4. Sequential(W, l, n, cur, efficientWeight, base[g], total[g], m)
        BY <4>3, SequentialCompare, Zenon
      <4> QED BY <4>4 DEF W, cur, l, n, m
    <3> QED BY <2>1, <3>3 DEF Undisturbed
  <2> QED BY <2>1, <2>2, <2>3 DEF SoloInv
<1>5. ASSUME NEW g \in Callers, Weighted!Subtract(g) PROVE SoloInv'
  BY <1>5 DEF Weighted!Subtract, SoloInv
<1>6. ASSUME NEW g \in Callers, Weighted!Succeed(g) \/ Weighted!Fail(g) PROVE SoloInv'
  <2>1. step[g] = "call" /\ \A h \in Callers : solo'[h] => h = g /\ solo[g]
    BY <1>6 DEF Weighted!Succeed, Weighted!Fail, Weighted!Done, Weighted!Disturb
  <2>2. ~solo[g]
    BY <2>1 DEF SoloInv, Undisturbed, Sequential
  <2> QED BY <2>1, <2>2 DEF SoloInv
<1>7. CASE UNCHANGED Weighted!vars
  BY <1>7 DEF Weighted!vars, SoloInv, Undisturbed
<1> QED BY <1>2, <1>3, <1>4, <1>5, <1>6, <1>7 DEF Weighted!Next

(***************************************************************************)
(* A pick that nobody disturbs takes the first of the heaviest and has     *)
(* added up what it will take back, for any callers, connections and       *)
(* weights.  About the loop (weight_picker.go:68-79).                      *)
(***************************************************************************)
THEOREM SoloPicksSequentially == Weighted!Spec => []SoloIsSequential
<1>1. Weighted!Init => SoloInv
  BY DEF Weighted!Init, SoloInv
<1>2. WeightTyped /\ SoloInv /\ [Weighted!Next]_Weighted!vars => SoloInv'
  BY SoloStep
<1>3. ASSUME WeightTyped, SoloInv PROVE SoloIsSequential
  <2> SUFFICES ASSUME NEW g \in Callers, step[g] = "subtract", solo[g]
               PROVE  LET then == [c \in Wanted[g] |-> (base[g][c] + efficientWeight[c]) % Word]
                      IN  /\ best[g] = Weighted!First({c \in Wanted[g] :
                                \A d \in Wanted[g] : then[c] >= then[d]})
                          /\ total[g] = SumFunctionOnSet(efficientWeight, Wanted[g]) % Word
    BY WeightedSums DEF SoloIsSequential, Weighted!SoloIsSequential
  <2> DEFINE W == Wanted[g]
             then == [c \in W |-> (base[g][c] + efficientWeight[c]) % Word]
             most == {c \in W : \A d \in W : then[c] >= then[d]}
  <2>1. Sequential(W, "subtract", at[g], currentWeight, efficientWeight,
                   base[g], total[g], best[g])
    BY <1>3 DEF SoloInv, Undisturbed
  <2>2. Passed(W, "subtract", at[g]) = W /\ Compared(W, "subtract", at[g]) = W
    BY DEF Passed, Compared
  <2>3. best[g] \in W /\ W \in SUBSET Conns
    BY <1>3, WantedAssumption DEF WeightTyped, WeightPlaces
  <2>4. \A c \in W : then[c] = currentWeight[c] /\ currentWeight[c] \in Int /\ c \in Int
    <3>1. currentWeight \in [Conns -> Weighted!Weights]
      BY <1>3, WeightedConns DEF WeightTyped, Weighted!TypeOK
    <3>2. \A c \in Conns : currentWeight[c] \in Int /\ c \in Int
      BY <3>1, ConnsFinite DEF Weighted!Weights
    <3>3. \A c \in W : currentWeight[c] \in Int /\ c \in Int
      BY <2>3, <3>2
    <3>4. \A c \in W : currentWeight[c] = (base[g][c] + efficientWeight[c]) % Word
      BY <2>1, <2>2 DEF Sequential
    <3> QED BY <3>3, <3>4
  <2>5. \A d \in W : \/ currentWeight[d] < currentWeight[best[g]]
                     \/ currentWeight[d] = currentWeight[best[g]] /\ best[g] <= d
    BY <2>1, <2>2, <2>3 DEF Sequential, Leads
  <2> HIDE DEF W, then
  <2>6. best[g] \in most /\ most \subseteq W
    BY <2>3, <2>4, <2>5
  <2>7. \A d \in most : best[g] <= d
    <3> SUFFICES ASSUME NEW d \in most PROVE best[g] <= d
      OBVIOUS
    <3>1. d \in W /\ then[d] >= then[best[g]]
      BY <2>3
    <3> QED BY <2>3, <2>4, <2>5, <3>1
  <2>8. Weighted!First(most) \in most /\ \A d \in most : Weighted!First(most) <= d
    <3> HIDE DEF most
    <3> QED BY <2>3, <2>6, FirstOf
  <2>9. best[g] = Weighted!First(most)
    <3> HIDE DEF most
    <3> QED BY <2>4, <2>6, <2>7, <2>8
  <2>10. total[g] = SumFunctionOnSet(efficientWeight, W) % Word
    BY <2>1, <2>2 DEF Sequential
  <2> QED BY <2>9, <2>10 DEF W, then
<1> QED BY <1>1, <1>2, <1>3, WeightTypes, PTL DEF Weighted!Spec

-----------------------------------------------------------------------------
(***************************************************************************)
(* The pickers together: a client has one of them.                         *)
(***************************************************************************)

\* A step is one of the picker that the client has (RobinInv is not about
\* results, all that the random pickers change).
LEMMA AnySteps ==
    ASSUME [AnyNext]_allVars
    PROVE  /\ kind' = kind
           /\ [Next]_vars /\ [Weighted!Next]_Weighted!vars
           /\ \/ kind = "robin" /\ [Robin!Next]_Robin!vars /\ UNCHANGED picker
              \/ kind = "random" /\ [Random!Next]_Random!vars /\ UNCHANGED robinVars
              \/ UNCHANGED <<Robin!vars, Random!vars>>
<1> USE DEF weightVars, robinVars, choiceVars, Weighted!vars, Robin!vars, Random!vars
<1>1. CASE P2CNext
  BY <1>1 DEF P2CNext
<1>2. CASE WeightedNext
  BY <1>2 DEF WeightedNext
<1>3. CASE RobinNext
  BY <1>3 DEF RobinNext
<1>4. CASE RandomNext
  BY <1>4 DEF RandomNext
<1>5. CASE UNCHANGED allVars
  BY <1>5 DEF allVars
<1> QED BY <1>1, <1>2, <1>3, <1>4, <1>5 DEF AnyNext

(***************************************************************************)
(* The picker that a client has behaves as its own module says, so what is *)
(* proved of a module holds of every behaviour of that kind.  About the    *)
(* pickers of package loadbalance, which share nothing.                    *)
(***************************************************************************)
THEOREM EachAsItsModule ==
    AnySpec => /\ Spec /\ Weighted!Spec
               /\ kind = "robin" => Robin!Spec
               /\ kind = "random" => Random!Spec
<1>1. AnyInit => Init /\ Weighted!Init /\ Robin!Init /\ Random!Init
  BY DEF AnyInit
<1>2. [AnyNext]_allVars => [Next]_vars /\ [Weighted!Next]_Weighted!vars
  BY AnySteps
<1>3. kind = "robin" /\ [AnyNext]_allVars => (kind = "robin")' /\ [Robin!Next]_Robin!vars
  BY AnySteps
<1>4. kind = "random" /\ [AnyNext]_allVars
        => (kind = "random")' /\ [Random!Next]_Random!vars
  BY AnySteps
<1> QED BY <1>1, <1>2, <1>3, <1>4, PTL DEF AnySpec, Spec, Weighted!Spec, Robin!Spec, Random!Spec

\* A random pick is among the connections, and keeps the filter.
LEMMA RandomStep ==
    ASSUME NEW g \in Callers, NEW group \in Groups,
           \/ Random!RandomPick(g, group) \/ Random!WeightPick(g, group)
           \/ Random!HashPick(g, group) \/ Random!ConsistentPick(g, group)
    PROVE  /\ UNCHANGED <<picker, filter>>
           /\ \E c \in Conns \cup {0} : result' = [result EXCEPT ![g] = Result(group, c)]
<1>1. \A c : Random!Return(g, group, c) =>
              /\ UNCHANGED <<picker, filter>>
              /\ result' = [result EXCEPT ![g] = Result(group, c)]
  BY RandomSame DEF Random!Return
<1>2. CASE Random!RandomPick(g, group)
  BY <1>1, <1>2, RandomSame DEF Random!RandomPick, Candidates
<1>3. CASE Random!WeightPick(g, group)
  <2>1. \A S, val : Random!Spent(S, val) \subseteq S
    BY DEF Random!Spent
  <2>2. Candidates(filter, group) \subseteq Conns
    BY DEF Candidates
  <2> QED BY <1>1, <1>3, <2>1, <2>2, RandomSame DEF Random!WeightPick
<1>4. CASE Random!HashPick(g, group) \/ Random!ConsistentPick(g, group)
  <2>1. (IF NConns = 0 THEN 0 ELSE 1) \in Conns \cup {0}
    BY ConnsAssumption DEF Conns
  <2> QED BY <1>1, <1>4, <2>1 DEF Random!HashPick, Random!ConsistentPick
<1> QED BY <1>2, <1>3, <1>4

AnyGroups ==
    /\ RobinInv
    /\ kind = "robin" => RobinGroups
    /\ kind = "random" => RandomGroups
    /\ kind # "random" => picker = "hash"

(***************************************************************************)
(* A call that names a group is given a connection of that group, by round *)
(* robin and by the random pickers, for any callers, connections, groups   *)
(* and weights, of which the sum may wrap around.  About the loops over    *)
(* the connections (roundrobin/picker.go:64-74, random/picker.go:55-70,    *)
(* random/weight_picker.go:61-84).                                         *)
(***************************************************************************)
THEOREM GroupsAreKept == AnySpec => []OwnGroup
<1>1. AnyInit => AnyGroups
  BY RobinInit, RobinGroupInit, RandomGroupInit DEF AnyInit, AnyGroups
<1>2. AnyGroups /\ [AnyNext]_allVars => AnyGroups'
  <2> SUFFICES ASSUME AnyGroups, [AnyNext]_allVars PROVE AnyGroups'
    OBVIOUS
  <2>1. kind' = kind
    BY AnySteps
  <2>2. CASE kind = "robin" /\ [Robin!Next]_Robin!vars /\ UNCHANGED picker
    BY <2>1, <2>2, RobinStep, RobinGroupStep DEF AnyGroups
  <2>3. CASE kind = "random" /\ [Random!Next]_Random!vars /\ UNCHANGED robinVars
    <3>1. RandomGroups'
      BY <2>3, RandomGroupStep DEF AnyGroups
    <3>2. filter' = filter
      BY <2>3, RandomStep DEF Random!Next, Random!vars
    <3>3. RobinInv'
      BY <2>3, <3>2 DEF AnyGroups, RobinInv, RobinHolds, RobinCandidates, RobinSeries, robinVars
    <3> QED BY <2>1, <2>3, <3>1, <3>3 DEF AnyGroups
  <2>4. CASE UNCHANGED <<Robin!vars, Random!vars>>
    BY <2>1, <2>4, RobinStep, RobinGroupStep, RandomGroupStep
    DEF AnyGroups, Robin!vars, Random!vars
  <2> QED BY <2>2, <2>3, <2>4, AnySteps
<1>3. AnyGroups => OwnGroup
  BY RobinSame, RandomSame
  DEF AnyGroups, RobinGroups, RandomGroups, OwnGroup, Robin!OwnGroup, Random!OwnGroup
<1> QED BY <1>1, <1>2, <1>3, PTL DEF AnySpec

\* Round robin's types need that a pick under way may still be counted, and
\* that no connection was picked more often than all were.
RobinTyped ==
    /\ Robin!TypeOK
    /\ mutex # {} => cnt < MaxPicks
    /\ \A c \in series.among : series.times[c] <= cnt

\* The types hold in a new picker (roundrobin/picker.go:22-41).
LEMMA RobinTypedInit == Robin!Init => RobinTyped
<1> SUFFICES ASSUME Robin!Init PROVE RobinTyped
  OBVIOUS
<1>1. Result(Nil, -1) \in [group : Groups, conn : -1 .. NConns]
  BY FiltersAssumption, ConnsAssumption DEF Result
<1>2. Nil \in Groups /\ -1 \in -1 .. NConns - 1 /\ 0 \in 0 .. MaxPicks
  BY FiltersAssumption, ConnsAssumption, PicksAssumption
<1> QED BY <1>1, <1>2, RobinSame DEF Robin!Init, RobinTyped, Robin!TypeOK

\* Some of the connections are no more than all.
LEMMA FewConns ==
    ASSUME NEW S \in SUBSET Conns
    PROVE  Cardinality(S) \in 0 .. NConns
<1>1. IsFiniteSet(Conns) /\ Cardinality(Conns) = NConns
  BY ConnsAssumption, FS_Interval DEF Conns
<1> QED BY <1>1, FS_Subset, FS_CardinalityType, ConnsAssumption

\* Every step keeps them (roundrobin/picker.go:54-76).
LEMMA RobinTypedStep ==
    ASSUME RobinInv, RobinTyped, [Robin!Next]_Robin!vars
    PROVE  RobinTyped'
<1> USE DEF RobinTyped, Robin!TypeOK
<1>1. ASSUME NEW g \in Callers, NEW group \in Groups, Robin!Pick(g, group)
      PROVE  RobinTyped'
  <2> DEFINE n == Cardinality(Candidates(filter, group))
  <2>1. Candidates(filter, group) \in SUBSET Conns /\ Candidates(filter, group) # {}
    BY <1>1, RobinSame DEF Robin!Pick, Candidates
  <2>2. n \in 1 .. NConns
    BY <2>1, FewConns, ConnsFinite, FS_EmptySet
  <2>3. index' = [index EXCEPT ![g] = cnt % n]
    BY <1>1, RobinSame, RobinCards DEF Robin!Pick
  <2> HIDE DEF n
  <2>4. cnt % n \in 0 .. NConns - 1
    BY <2>2, ConnsAssumption, NextPlace, PicksAssumption
  <2>5. index' \in [Callers -> -1 .. NConns - 1]
    BY <2>3, <2>4, ConnsAssumption
  <2> QED BY <1>1, <2>5 DEF Robin!Pick
<1>2. ASSUME NEW g \in Callers, NEW group \in Groups, Robin!PickNone(g, group)
      PROVE  RobinTyped'
  <2>1. result' = [result EXCEPT ![g] = Result(group, 0)]
    BY <1>2, RobinSame DEF Robin!PickNone
  <2>2. Result(group, 0) \in [group : Groups, conn : -1 .. NConns]
    BY ConnsAssumption DEF Result
  <2>3. result' \in [Callers -> [group : Groups, conn : -1 .. NConns]]
    BY <2>1, <2>2
  <2> QED BY <1>2, <2>3 DEF Robin!PickNone
<1>3. ASSUME NEW g \in Callers, Robin!Return(g)
      PROVE  RobinTyped'
  <2> DEFINE S == RobinCandidates(g)
             c == Robin!Nth(S, index[g])
             before == IF series.among = S THEN series.times ELSE [d \in S |-> 0]
  <2>1. /\ g \in mutex /\ S # {} /\ index[g] = cnt % Cardinality(S) /\ mutex = {g}
        /\ cnt < MaxPicks
    BY <1>3 DEF RobinInv, RobinHolds, Robin!Return
  <2>2. S \in SUBSET Conns
    BY DEF RobinCandidates, Robin!Candidates, Robin!Conns, Conns
  <2>3. c \in S /\ c \in Conns
    BY <2>1, <2>2, RobinChoice DEF RobinInv
  <2>4. /\ result' = [result EXCEPT ![g] = Result(call[g], c)]
        /\ series' = [among |-> S, times |-> [before EXCEPT ![c] = @ + 1]]
        /\ cnt' = cnt + 1 /\ mutex' = {}
        /\ call' = [call EXCEPT ![g] = Nil] /\ index' = [index EXCEPT ![g] = -1]
        /\ filter' = filter
    BY <1>3, <2>1, RobinSame DEF Robin!Return, Robin!Counted, RobinCandidates
  <2>5. /\ before \in [S -> 0 .. MaxPicks] /\ \A d \in S : before[d] <= cnt
    <3>1. CASE series.among = S
      BY <3>1
    <3>2. CASE series.among # S
      BY <3>2, PicksAssumption
    <3> QED BY <3>1, <3>2
  <2> HIDE DEF S, c, before
  <2>6. Result(call[g], c) \in [group : Groups, conn : -1 .. NConns]
    BY <2>3, ConnsAssumption DEF Result, Conns
  <2>7. result' \in [Callers -> [group : Groups, conn : -1 .. NConns]]
    BY <2>4, <2>6
  <2>8. cnt' \in 0 .. MaxPicks
    BY <2>1, <2>4, PicksAssumption
  <2>9. series'.times \in [series'.among -> 0 .. MaxPicks]
    BY <2>1, <2>3, <2>4, <2>5, PicksAssumption
  <2>10. \A d \in series'.among : series'.times[d] <= cnt'
    BY <2>1, <2>3, <2>4, <2>5, PicksAssumption
  <2>11. call' \in [Callers -> Groups] /\ index' \in [Callers -> -1 .. NConns - 1]
    BY <2>4, FiltersAssumption, ConnsAssumption
  <2> QED BY <2>4, <2>7, <2>8, <2>9, <2>10, <2>11
<1>4. CASE UNCHANGED Robin!vars
  BY <1>4 DEF Robin!vars
<1> QED BY <1>1, <1>2, <1>3, <1>4 DEF Robin!Next

AnyTyped == P2CInv /\ WeightTyped /\ RobinInv /\ RobinTyped

(***************************************************************************)
(* Type correctness of all pickers, for any callers, connections, weights, *)
(* groups and times.  It says among others that no load is negative, that  *)
(* a root is always found, and that every index is one of a connection     *)
(* (p2c/picker.go:90-258, roundrobin/picker.go:54-76,                      *)
(* roundrobin/weight_picker.go:55-136, random/picker.go:52-70).            *)
(***************************************************************************)
THEOREM BalancersTyped == AnySpec => []TypesOK
<1>1. AnyInit => AnyTyped
  BY P2CInit, WeightInit, RobinInit, RobinTypedInit DEF AnyInit, AnyTyped
<1>2. AnyTyped /\ [AnyNext]_allVars => AnyTyped'
  <2> SUFFICES ASSUME AnyTyped, [AnyNext]_allVars PROVE AnyTyped'
    OBVIOUS
  <2>1. P2CInv' /\ WeightTyped'
    BY AnySteps, P2CInvKept, WeightStep DEF AnyTyped
  <2>2. CASE kind = "robin" /\ [Robin!Next]_Robin!vars /\ UNCHANGED picker
    BY <2>1, <2>2, RobinStep, RobinTypedStep DEF AnyTyped
  <2>3. CASE kind = "random" /\ [Random!Next]_Random!vars /\ UNCHANGED robinVars
    <3>1. CASE UNCHANGED Random!vars
      BY <2>1, <2>3, <3>1, RobinStep, RobinTypedStep
      DEF AnyTyped, Random!vars, robinVars, Robin!vars
    <3>2. ASSUME NEW g \in Callers, NEW group \in Groups,
                 \/ Random!RandomPick(g, group) \/ Random!WeightPick(g, group)
                 \/ Random!HashPick(g, group) \/ Random!ConsistentPick(g, group)
          PROVE  AnyTyped'
      <4>1. PICK c \in Conns \cup {0} : result' = [result EXCEPT ![g] = Result(group, c)]
        BY <3>2, RandomStep
      <4>2. filter' = filter
        BY <3>2, RandomStep
      <4>3. Result(group, c) \in [group : Groups, conn : -1 .. NConns]
        BY ConnsAssumption DEF Result, Conns
      <4>4. result' \in [Callers -> [group : Groups, conn : -1 .. NConns]]
        BY <4>1, <4>3 DEF AnyTyped, RobinTyped, Robin!TypeOK
      <4>5. RobinTyped'
        BY <2>3, <4>2, <4>4 DEF AnyTyped, RobinTyped, Robin!TypeOK, robinVars
      <4>6. RobinInv'
        BY <2>3, <4>2 DEF AnyTyped, RobinInv, RobinHolds, RobinCandidates, RobinSeries, robinVars
      <4> QED BY <2>1, <4>5, <4>6 DEF AnyTyped
    <3> QED BY <2>3, <3>1, <3>2 DEF Random!Next
  <2>4. CASE UNCHANGED <<Robin!vars, Random!vars>>
    BY <2>1, <2>4, RobinStep, RobinTypedStep DEF AnyTyped
  <2> QED BY <2>2, <2>3, <2>4, AnySteps
<1>3. AnyTyped => TypesOK
  BY DEF AnyTyped, P2CInv, WeightTyped, RobinTyped, TypesOK
<1> QED BY <1>1, <1>2, <1>3, PTL DEF AnySpec
=============================================================================
