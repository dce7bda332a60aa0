----------------------------- MODULE LimiterProofs -----------------------------
(***************************************************************************)
(* How many requests the windows and the buckets let through, for any      *)
(* requests, rate, interval, clock, horizon, retries, skew and buffer.     *)
(***************************************************************************)
EXTENDS Limiters, SumProofs, SequenceTheorems, TLAPS

CONSTANT Capacity
VARIABLE credit

Full == INSTANCE Bucket WITH granted <- taken

-----------------------------------------------------------------------------
(***************************************************************************)
(* The fixed window.  RatePerWindow is not inductive: between a CAS and    *)
(* the Store that goes with it the window is counted but its numbers are   *)
(* still to come.  Every such pending Store stands for maxRate numbers     *)
(* that nobody has drawn yet; Accounts says so.  WindowsSpaced needs what  *)
(* the check has found out about a request that goes on to the CAS,        *)
(* Decided.                                                                *)
(***************************************************************************)
\* Requests that have opened a window and not yet reset cnt.
Pending == {r \in Requests : place[r] = "store"}

Drawn == IF number < MaxRate THEN number ELSE MaxRate

Accounts == admitted + MaxRate * Cardinality(Pending)
              <= MaxRate * opened + Drawn

Decided == \A r \in Requests :
             place[r] = "cas" => from[r] + Interval < current[r]

IInv == Fix!TypeOK /\ Decided /\ Accounts

(* A request's step that neither wins a CAS nor resets cnt leaves Pending  *)
(* alone; those two add and remove one request.                            *)
LEMMA PendingFinite ==
    ASSUME Fix!TypeOK
    PROVE  IsFiniteSet(Pending) /\ Cardinality(Pending) \in Nat
BY RequestsAssumption, FS_Subset, FS_CardinalityType DEF Pending

\* One window more gives maxRate numbers more.
LEMMA Distributes ==
    ASSUME NEW m \in Nat, NEW k \in Nat
    PROVE  m * (k + 1) = m * k + m
OBVIOUS

\* The limiter as it is made.
LEMMA InitHolds == Fix!Init => IInv
<1>1. SUFFICES ASSUME Fix!Init PROVE IInv
  OBVIOUS
<1>2. Fix!TypeOK
  BY SecondAssumption, RateAssumption, <1>1 DEF Fix!Init, Fix!TypeOK, Fix!PCs
<1>3. Decided
  BY <1>1 DEF Fix!Init, Decided
<1>4. Pending = {}
  BY <1>1 DEF Fix!Init, Pending
<1>5. Accounts
  BY <1>1, <1>4, FS_EmptySet, RateAssumption DEF Fix!Init, Accounts, Drawn
<1> QED  BY <1>2, <1>3, <1>5 DEF IInv

\* Steps keep the types.
LEMMA TypeStep == Fix!TypeOK /\ [Fix!Next]_Fix!vars => Fix!TypeOK'
<1>1. SUFFICES ASSUME Fix!TypeOK, [Fix!Next]_Fix!vars PROVE Fix!TypeOK'
  OBVIOUS
<1> USE SecondAssumption, RateAssumption, IntervalAssumption
<1>2. CASE Fix!Tick
  <2>1. (clock + 1) % Second \in 0 .. Second - 1
    BY <1>1 DEF Fix!TypeOK
  <2> QED  BY <1>1, <1>2, <2>1 DEF Fix!TypeOK, Fix!Tick
<1>3. ASSUME NEW r \in Requests, Fix!Arrive(r) PROVE Fix!TypeOK'
  BY <1>1, <1>3 DEF Fix!TypeOK, Fix!Arrive, Fix!Goto, Fix!PCs
<1>4. ASSUME NEW r \in Requests, Fix!Load(r) PROVE Fix!TypeOK'
  BY <1>1, <1>4 DEF Fix!TypeOK, Fix!Load, Fix!Goto, Fix!PCs
<1>5. ASSUME NEW r \in Requests, Fix!CompareAndSwap(r) PROVE Fix!TypeOK'
  BY <1>1, <1>5 DEF Fix!TypeOK, Fix!CompareAndSwap, Fix!Goto, Fix!PCs
<1>6. ASSUME NEW r \in Requests, Fix!Store(r) PROVE Fix!TypeOK'
  BY <1>1, <1>6 DEF Fix!TypeOK, Fix!Store, Fix!Goto, Fix!PCs
<1>7. ASSUME NEW r \in Requests, Fix!Take(r) PROVE Fix!TypeOK'
  BY <1>1, <1>7 DEF Fix!TypeOK, Fix!Take, Fix!Goto, Fix!PCs
<1>8. CASE UNCHANGED Fix!vars
  BY <1>1, <1>8 DEF Fix!TypeOK, Fix!vars
<1> QED  BY <1>1, <1>2, <1>3, <1>4, <1>5, <1>6, <1>7, <1>8 DEF Fix!Next, Fix!Serve

\* What a request on its way to the CAS knows stays true.
LEMMA DecidedStep == Fix!TypeOK /\ Decided /\ [Fix!Next]_Fix!vars => Decided'
<1>1. SUFFICES ASSUME Fix!TypeOK, Decided, [Fix!Next]_Fix!vars PROVE Decided'
  OBVIOUS
<1>2. CASE Fix!Tick
  BY <1>1, <1>2 DEF Decided, Fix!Tick
<1>3. ASSUME NEW r \in Requests, Fix!Arrive(r) PROVE Decided'
  BY <1>1, <1>3 DEF Decided, Fix!TypeOK, Fix!Arrive, Fix!Goto
<1>4. ASSUME NEW r \in Requests, Fix!Load(r) PROVE Decided'
  BY <1>1, <1>4 DEF Decided, Fix!TypeOK, Fix!Load, Fix!Goto
<1>5. ASSUME NEW r \in Requests, Fix!CompareAndSwap(r) PROVE Decided'
  BY <1>1, <1>5 DEF Decided, Fix!TypeOK, Fix!CompareAndSwap, Fix!Goto
<1>6. ASSUME NEW r \in Requests, Fix!Store(r) PROVE Decided'
  BY <1>1, <1>6 DEF Decided, Fix!TypeOK, Fix!Store, Fix!Goto
<1>7. ASSUME NEW r \in Requests, Fix!Take(r) PROVE Decided'
  BY <1>1, <1>7 DEF Decided, Fix!TypeOK, Fix!Take, Fix!Goto
<1>8. CASE UNCHANGED Fix!vars
  BY <1>1, <1>8 DEF Decided, Fix!vars
<1> QED  BY <1>1, <1>2, <1>3, <1>4, <1>5, <1>6, <1>7, <1>8 DEF Fix!Next, Fix!Serve

\* A CAS opens an account, a Store fills it, a number drawn spends it.
LEMMA AccountsStep == IInv /\ [Fix!Next]_Fix!vars => Accounts'
<1>1. SUFFICES ASSUME IInv, [Fix!Next]_Fix!vars PROVE Accounts'
  OBVIOUS
<1> USE RateAssumption
<1>2. Fix!TypeOK /\ Accounts /\ IsFiniteSet(Pending) /\ Cardinality(Pending) \in Nat
  BY <1>1, PendingFinite DEF IInv
<1>3. ASSUME UNCHANGED <<number, opened, admitted>>, Pending' = Pending
      PROVE  Accounts'
  BY <1>2, <1>3 DEF Accounts, Drawn
<1>4. CASE Fix!Tick
  BY <1>3, <1>4 DEF Fix!Tick, Pending
<1>5. ASSUME NEW r \in Requests, Fix!Arrive(r) PROVE Accounts'
  <2>1. Pending' = Pending
    BY <1>2, <1>5 DEF Fix!TypeOK, Fix!Arrive, Fix!Goto, Pending
  <2> QED  BY <1>3, <1>5, <2>1 DEF Fix!Arrive
<1>6. ASSUME NEW r \in Requests, Fix!Load(r) PROVE Accounts'
  <2>1. Pending' = Pending
    BY <1>2, <1>6 DEF Fix!TypeOK, Fix!Load, Fix!Goto, Pending
  <2> QED  BY <1>3, <1>6, <2>1 DEF Fix!Load
<1>7. ASSUME NEW r \in Requests, Fix!CompareAndSwap(r) PROVE Accounts'
  <2>1. CASE windowStart # from[r]
    <3>1. UNCHANGED <<number, opened, admitted>>
      BY <1>7, <2>1 DEF Fix!CompareAndSwap
    <3>2. Pending' = Pending
      BY <1>2, <1>7, <2>1 DEF Fix!TypeOK, Fix!CompareAndSwap, Fix!Goto, Pending
    <3> QED  BY <1>3, <3>1, <3>2
  <2>2. CASE windowStart = from[r]
    <3>1. opened' = opened + 1 /\ UNCHANGED <<number, admitted>>
      BY <1>7, <2>2 DEF Fix!CompareAndSwap
    <3>2. r \notin Pending /\ Pending' = Pending \cup {r}
      BY <1>2, <1>7, <2>2 DEF Fix!TypeOK, Fix!CompareAndSwap, Fix!Goto, Pending
    <3>3. Cardinality(Pending') = Cardinality(Pending) + 1
      BY <1>2, <3>2, FS_AddElement
    <3>4. /\ MaxRate * Cardinality(Pending')
               = MaxRate * Cardinality(Pending) + MaxRate
          /\ MaxRate * opened' = MaxRate * opened + MaxRate
      BY <1>2, <3>1, <3>3, Distributes DEF Fix!TypeOK
    <3> DEFINE a == MaxRate * Cardinality(Pending)
               b == MaxRate * opened
               c == MaxRate * Cardinality(Pending')
               d == MaxRate * opened'
    <3>5. a \in Nat /\ b \in Nat
      BY <1>2 DEF Fix!TypeOK
    <3>6. admitted + a <= b + Drawn /\ c = a + MaxRate /\ d = b + MaxRate
      BY <1>2, <3>4 DEF Accounts
    <3>7. Drawn' = Drawn /\ Drawn \in Nat /\ admitted \in Nat
      BY <1>2, <3>1 DEF Drawn, Fix!TypeOK
    <3>8. admitted' + c <= d + Drawn'
      <4> HIDE DEF a, b, c, d
      <4> QED  BY <3>1, <3>5, <3>6, <3>7
    <3> QED  BY <3>8 DEF Accounts
  <2> QED  BY <2>1, <2>2
<1>8. ASSUME NEW r \in Requests, Fix!Store(r) PROVE Accounts'
  <2>1. number' = 0 /\ UNCHANGED <<opened, admitted>>
    BY <1>8 DEF Fix!Store
  <2>2. r \in Pending /\ Pending' = Pending \ {r}
    BY <1>2, <1>8 DEF Fix!TypeOK, Fix!Store, Fix!Goto, Pending
  <2>3. /\ Cardinality(Pending') \in Nat
        /\ Cardinality(Pending) = Cardinality(Pending') + 1
    <3>1. IsFiniteSet(Pending') /\ Cardinality(Pending') = Cardinality(Pending) - 1
      BY <1>2, <2>2, FS_RemoveElement
    <3>2. Cardinality(Pending') \in Nat
      BY <3>1, FS_CardinalityType
    <3> QED  BY <1>2, <3>1, <3>2
  <2>4. MaxRate * Cardinality(Pending)
          = MaxRate * Cardinality(Pending') + MaxRate
    BY <2>3, Distributes
  <2> DEFINE a == MaxRate * Cardinality(Pending)
             b == MaxRate * opened
             c == MaxRate * Cardinality(Pending')
  <2>5. c \in Nat /\ b \in Nat
    BY <1>2, <2>3 DEF Fix!TypeOK
  <2>6. admitted + a <= b + Drawn /\ a = c + MaxRate
    BY <1>2, <2>4 DEF Accounts
  <2>7. Drawn' = 0 /\ Drawn \in 0 .. MaxRate /\ admitted \in Nat
    BY <1>2, <2>1 DEF Drawn, Fix!TypeOK
  <2>8. admitted + c <= b + Drawn'
    <3> HIDE DEF a, b, c
    <3> QED  BY <2>5, <2>6, <2>7
  <2> QED  BY <2>1, <2>8 DEF Accounts
<1>9. ASSUME NEW r \in Requests, Fix!Take(r) PROVE Accounts'
  <2>1. Pending' = Pending
    BY <1>2, <1>9 DEF Fix!TypeOK, Fix!Take, Fix!Goto, Pending
  <2> DEFINE a == MaxRate * Cardinality(Pending)
             b == MaxRate * opened
  <2>2. a \in Nat /\ b \in Nat
    BY <1>2 DEF Fix!TypeOK
  <2>3. admitted + a <= b + Drawn
    BY <1>2 DEF Accounts
  <2>4. /\ admitted \in Nat /\ Drawn \in Nat
        /\ \/ admitted' = admitted + 1 /\ Drawn' = Drawn + 1
           \/ admitted' = admitted /\ Drawn' = Drawn
    BY <1>2, <1>9 DEF Fix!Take, Drawn, Fix!TypeOK
  <2>5. admitted' + a <= b + Drawn'
    <3> HIDE DEF a, b
    <3> QED  BY <2>2, <2>3, <2>4
  <2>6. opened' = opened
    BY <1>9 DEF Fix!Take
  <2> QED  BY <2>1, <2>5, <2>6 DEF Accounts
<1>10. CASE UNCHANGED Fix!vars
  BY <1>3, <1>10 DEF Fix!vars, Pending
<1> QED  BY <1>1, <1>4, <1>5, <1>6, <1>7, <1>8, <1>9, <1>10 DEF Fix!Next, Fix!Serve

(***************************************************************************)
(* The strengthened invariant holds in every reachable state: types, what  *)
(* the check has decided, and the accounts of numbers drawn and pending.   *)
(***************************************************************************)
THEOREM Invariance == Fix!Spec => []IInv
<1>1. IInv /\ [Fix!Next]_Fix!vars => IInv'
  BY TypeStep, DecidedStep, AccountsStep DEF IInv
<1> QED  BY InitHolds, <1>1, PTL DEF Fix!Spec

(***************************************************************************)
(* Type correctness of the fixed window limiter.                           *)
(***************************************************************************)
THEOREM TypeCorrect == Fix!Spec => []Fix!TypeOK
BY Invariance, PTL DEF IInv

(***************************************************************************)
(* For any number of concurrent requests the limiter admits at most        *)
(* maxRate requests per window opened, the first one included.             *)
(***************************************************************************)
THEOREM Rate == Fix!Spec => []RatePerWindow
<1>1. IInv => RatePerWindow
  <2>1. SUFFICES ASSUME IInv PROVE RatePerWindow
    OBVIOUS
  <2>2. Fix!TypeOK /\ Accounts /\ Cardinality(Pending) \in Nat
    BY <2>1, PendingFinite DEF IInv
  <2> DEFINE a == MaxRate * Cardinality(Pending)
             b == MaxRate * opened
             c == MaxRate * (opened + 1)
  <2>3. a \in Nat /\ b \in Nat /\ admitted \in Nat /\ c = b + MaxRate
    BY <2>2, RateAssumption, Distributes DEF Fix!TypeOK
  <2>4. Drawn \in 0 .. MaxRate /\ admitted + a <= b + Drawn
    BY <2>2, RateAssumption DEF Fix!TypeOK, Drawn, Accounts
  <2>5. admitted <= c
    <3> HIDE DEF a, b, c
    <3> QED  BY <2>3, <2>4, RateAssumption
  <2> QED  BY <2>5 DEF RatePerWindow, Fix!RatePerWindow
<1> QED  BY Invariance, <1>1, PTL

(***************************************************************************)
(* A window is replaced only by one that starts more than interval later,  *)
(* whatever the requests have read and when.                               *)
(***************************************************************************)
THEOREM Spaced == Fix!Spec => WindowsSpaced
<1> DEFINE Step == windowStart' # windowStart
                     => windowStart' > windowStart + Interval
<1>1. IInv /\ [Fix!Next]_Fix!vars => [Step]_Fix!vars
  <2>1. SUFFICES ASSUME IInv, Fix!Next PROVE Step
    OBVIOUS
  <2>2. ASSUME NEW r \in Requests, Fix!CompareAndSwap(r) PROVE Step
    <3>1. from[r] + Interval < current[r]
      BY <2>1, <2>2 DEF IInv, Decided, Fix!CompareAndSwap
    <3>2. windowStart' # windowStart
            => windowStart = from[r] /\ windowStart' = current[r]
      BY <2>2 DEF Fix!CompareAndSwap
    <3>3. windowStart \in Nat /\ current[r] \in Nat
      BY <2>1 DEF IInv, Fix!TypeOK
    <3> QED  BY <3>1, <3>2, <3>3, IntervalAssumption
  <2>3. ASSUME NEW r \in Requests, ~Fix!CompareAndSwap(r), Fix!Serve(r) PROVE Step
    BY <2>3 DEF Fix!Serve, Fix!Arrive, Fix!Load, Fix!Store, Fix!Take
  <2>4. CASE Fix!Tick
    BY <2>4 DEF Fix!Tick
  <2> QED  BY <2>1, <2>2, <2>3, <2>4 DEF Fix!Next
<1> QED  BY Invariance, <1>1, PTL DEF Fix!Spec, WindowsSpaced, Fix!WindowsSpaced

-----------------------------------------------------------------------------
\* The requests that a history counts at the times of T.
Cells(f, T) == UNION {{t} \X (1 .. f[t]) : t \in T}

\* A cell is a time and one of the stamps given at it.
LEMMA InCells ==
    ASSUME NEW f, NEW T, NEW x
    PROVE  x \in Cells(f, T) <=> \E t \in T : \E n \in 1 .. f[t] : x = <<t, n>>
<1>1. x \in Cells(f, T) <=> \E t \in T : x \in {t} \X (1 .. f[t])
  BY DEF Cells
<1>2. \A t : x \in {t} \X (1 .. f[t]) <=> \E n \in 1 .. f[t] : x = <<t, n>>
  OBVIOUS
<1> QED BY <1>1, <1>2

\* Cells is what Counted counts.
LEMMA CellsAre ==
    ASSUME NEW f, NEW T
    PROVE  Counted(f, T) = Cardinality(Cells(f, T))
BY DEF Counted, Cells

\* A history counts finitely many requests in any set of times.
LEMMA CellsFinite ==
    ASSUME NEW f \in [Times -> Nat], NEW T \in SUBSET Times
    PROVE  IsFiniteSet(Cells(f, T)) /\ Counted(f, T) \in Nat
<1> DEFINE cells == [t \in T |-> {t} \X (1 .. f[t])]
           S == {{t} \X (1 .. f[t]) : t \in T}
<1>1. IsFiniteSet(T)
  <2>1. 0 \in Int /\ Horizon \in Int
    BY HorizonAssumption
  <2>2. IsFiniteSet(Times)
    BY <2>1, FS_Interval DEF Times
  <2> QED BY <2>2, FS_Subset
<1>2. cells \in Surjection(T, S)
  BY DEF Surjection
<1>3. IsFiniteSet(S)
  BY <1>1, <1>2, FS_Surjection
<1>4. ASSUME NEW C \in S PROVE IsFiniteSet(C)
  <2>1. PICK t \in T : C = {t} \X (1 .. f[t])
    OBVIOUS
  <2>2. f[t] \in Int /\ 1 \in Int
    OBVIOUS
  <2>3. IsFiniteSet(1 .. f[t])
    BY <2>2, FS_Interval
  <2>4. IsFiniteSet({t})
    BY FS_Singleton
  <2> QED BY <2>1, <2>3, <2>4, FS_Product
<1>5. IsFiniteSet(UNION S)
  BY <1>3, <1>4, FS_UNION
<1> QED BY <1>5, CellsAre, FS_CardinalityType DEF Cells

\* Fewer times count fewer requests, and times with none count none.
LEMMA CountedSubset ==
    ASSUME NEW f \in [Times -> Nat], NEW S \in SUBSET Times, NEW T \in SUBSET Times,
           \A t \in T \ S : f[t] = 0
    PROVE  Counted(f, T) <= Counted(f, S)
<1>1. Cells(f, T) \subseteq Cells(f, S)
  <2> SUFFICES ASSUME NEW t \in T, NEW n \in 1 .. f[t] PROVE t \in S
    BY InCells
  <2>1. f[t] # 0
    OBVIOUS
  <2> QED BY <2>1
<1> QED BY <1>1, CellsFinite, CellsAre, FS_Subset

\* Times split in two count no more than the two together.
LEMMA CountedSplit ==
    ASSUME NEW f \in [Times -> Nat], NEW S \in SUBSET Times, NEW T \in SUBSET Times
    PROVE  Counted(f, S \cup T) <= Counted(f, S) + Counted(f, T)
<1>1. Cells(f, S \cup T) = Cells(f, S) \cup Cells(f, T)
  BY InCells
<1>2. IsFiniteSet(Cells(f, S)) /\ IsFiniteSet(Cells(f, T))
  BY CellsFinite
<1>3. IsFiniteSet(Cells(f, S) \cap Cells(f, T))
  BY <1>2, FS_Intersection
<1> DEFINE a == Cardinality(Cells(f, S))
           b == Cardinality(Cells(f, T))
           c == Cardinality(Cells(f, S) \cap Cells(f, T))
<1>4. a \in Nat /\ b \in Nat /\ c \in Nat
  BY <1>2, <1>3, FS_CardinalityType
<1>5. Counted(f, S) = a /\ Counted(f, T) = b
  BY CellsAre
<1>6. Counted(f, S \cup T) = a + b - c
  BY <1>1, <1>2, FS_Union, CellsAre
<1> HIDE DEF a, b, c
<1> QED BY <1>4, <1>5, <1>6

\* One more request at time c counts in the sets that hold c.
LEMMA CountedMore ==
    ASSUME NEW f \in [Times -> Nat], NEW c \in Times, NEW T \in SUBSET Times,
           NEW g \in [Times -> Nat], g[c] = f[c] + 1,
           \A t \in Times : t # c => g[t] = f[t]
    PROVE  Counted(g, T) = Counted(f, T) + (IF c \in T THEN 1 ELSE 0)
<1>1. g[c] = f[c] + 1 /\ \A t \in Times : t # c => g[t] = f[t]
  OBVIOUS
<1>a. \A x : x \in Cells(f, T) <=> \E t \in T : \E n \in 1 .. f[t] : x = <<t, n>>
  BY InCells
<1>b. \A x : x \in Cells(g, T) <=> \E t \in T : \E n \in 1 .. g[t] : x = <<t, n>>
  BY InCells
<1>2. CASE c \notin T
  <2>1. \A x : x \in Cells(g, T) <=> x \in Cells(f, T)
    <3>1. \A t \in T : g[t] = f[t]
      BY <1>1, <1>2
    <3>2. ASSUME NEW x \in Cells(g, T) PROVE x \in Cells(f, T)
      BY <1>a, <1>b, <3>1
    <3>3. ASSUME NEW x \in Cells(f, T) PROVE x \in Cells(g, T)
      <4>1. PICK t \in T : \E n \in 1 .. f[t] : x = <<t, n>>
        BY <1>a
      <4> QED BY <1>b, <3>1, <4>1, Zenon
    <3> QED BY <3>2, <3>3
  <2>2. Cells(g, T) = Cells(f, T)
    BY <2>1
  <2> QED BY <1>1, <1>2, <2>2, CellsAre, CellsFinite
<1>3. CASE c \in T
  <2>1. \A n : n \in 1 .. g[c] <=> n \in 1 .. f[c] \/ n = f[c] + 1
    BY <1>1
  <2>2. \A x : x \in Cells(g, T) <=> x \in Cells(f, T) \/ x = <<c, g[c]>>
    <3>1. \A t \in T : t # c => g[t] = f[t]
      BY <1>1
    <3>2. g[c] \in 1 .. g[c] /\ g[c] = f[c] + 1
      BY <1>1
    <3>3. ASSUME NEW x \in Cells(g, T) PROVE x \in Cells(f, T) \/ x = <<c, g[c]>>
      <4>1. PICK t \in T : \E n \in 1 .. g[t] : x = <<t, n>>
        BY <1>b
      <4>2. CASE t # c
        BY <1>a, <1>b, <3>1, <4>1, <4>2, Zenon
      <4>3. CASE t = c
        BY <1>a, <1>b, <2>1, <3>2, <4>1, <4>3, Zenon
      <4> QED BY <4>2, <4>3
    <3>4. ASSUME NEW x \in Cells(f, T) PROVE x \in Cells(g, T)
      <4>1. PICK t \in T : \E n \in 1 .. f[t] : x = <<t, n>>
        BY <1>a
      <4>2. CASE t # c
        BY <1>a, <1>b, <3>1, <4>1, <4>2, Zenon
      <4>3. CASE t = c
        BY <1>a, <1>b, <2>1, <4>1, <4>3, Zenon
      <4> QED BY <4>2, <4>3
    <3>5. <<c, g[c]>> \in Cells(g, T)
      BY <1>b, <1>3, <3>2, Zenon
    <3> QED BY <3>3, <3>4, <3>5
  <2>3. Cells(g, T) = Cells(f, T) \cup {<<c, g[c]>>}
    BY <2>2
  <2>4. <<c, g[c]>> \notin Cells(f, T)
    BY <1>1, <1>3, InCells
  <2>5. Cardinality(Cells(g, T)) = Cardinality(Cells(f, T)) + 1
    BY <2>3, <2>4, CellsFinite, FS_AddElement
  <2> QED BY <1>1, <1>3, <2>5, CellsAre
<1> QED BY <1>2, <1>3

\* A history that has counted nothing counts nothing.
LEMMA CountedNone ==
    ASSUME NEW f \in [Times -> Nat], NEW T \in SUBSET Times, \A t \in T : f[t] = 0
    PROVE  Counted(f, T) = 0
<1>1. Cells(f, T) = {}
  BY InCells
<1> QED BY <1>1, CellsAre, FS_EmptySet

-----------------------------------------------------------------------------
\* The sliding window in Redis: the sorted set holds what the last interval
\* still needs, no more than maxRate time stamps, none from after its expiry.
RedisSlideInv ==
    /\ RedisSlide!TypeOK
    /\ IsFiniteSet(zset) /\ Cardinality(zset) <= StampRate
    /\ {s \in stamps : s > clock + Skew - Interval} \subseteq zset
    /\ lastAdd <= clock
    /\ \A r \in Requests : sent[r] <= clock + Skew
    /\ \A s \in zset : s <= lastAdd + Skew

\* The instance counts as this module does.
LEMMA RedisSlideCards == \A S : RedisSlide!Cardinality(S) = Cardinality(S)
BY DEF Cardinality, RedisSlide!Cardinality

\* The sorted set before its first request.
LEMMA RedisSlideInit == RedisSlide!Init => RedisSlideInv
<1> SUFFICES ASSUME RedisSlide!Init PROVE RedisSlideInv
  OBVIOUS
<1> USE HorizonAssumption, SkewAssumption, StampRateAssumption, RetryAssumption
<1>1. zset = {} /\ stamps = {} /\ clock = 0 /\ lastAdd = 0 /\ sent = [r \in Requests |-> 0]
  BY DEF RedisSlide!Init
<1>2. RedisSlide!TypeOK
  BY DEF RedisSlide!Init, RedisSlide!TypeOK, RedisSlide!Stamps, RedisSlide!Times
<1>3. IsFiniteSet(zset) /\ Cardinality(zset) = 0
  BY <1>1, FS_EmptySet
<1> QED BY <1>1, <1>2, <1>3 DEF RedisSlideInv

\* The script, run by Redis in one step (slide_window.lua:8-27).
LEMMA RedisSlideScript ==
    ASSUME RedisSlideInv, NEW r \in Requests, RedisSlide!Script(r)
    PROVE  RedisSlideInv'
<1> USE HorizonAssumption, SkewAssumption, StampRateAssumption, IntervalAssumption
<1> USE DEF RedisSlideInv
<1>t. /\ clock \in Int /\ lastAdd \in Int /\ sent[r] \in Int /\ sent[r] \in RedisSlide!Stamps
      /\ stamps \subseteq RedisSlide!Stamps /\ zset \subseteq stamps
      /\ RedisSlide!Stamps \subseteq Int
  BY DEF RedisSlide!TypeOK, RedisSlide!Stamps, RedisSlide!Times
<1> DEFINE z == RedisSlide!Window(zset, sent[r])
<1>1. z \in SUBSET zset /\ \A s \in zset : s > clock + Skew - Interval => s \in z
  BY <1>t DEF RedisSlide!Window
<1>2. IsFiniteSet(z) /\ Cardinality(z) <= Cardinality(zset) /\ Cardinality(z) \in Nat
  BY <1>1, FS_Subset, FS_CardinalityType
<1>3. /\ UNCHANGED <<clock, retries, sent>>
      /\ \/ /\ Cardinality(z) >= StampRate /\ zset' = z
            /\ place' = [place EXCEPT ![r] = "limit"] /\ UNCHANGED <<lastAdd, stamps>>
         \/ /\ Cardinality(z) < StampRate /\ zset' = z \cup {sent[r]}
            /\ lastAdd' = clock /\ stamps' = stamps \cup {sent[r]}
            /\ place' = [place EXCEPT ![r] = "pass"]
  BY RedisSlideCards DEF RedisSlide!Script
<1> HIDE DEF z
<1>4. CASE zset' = z /\ place' = [place EXCEPT ![r] = "limit"] /\ UNCHANGED <<lastAdd, stamps>>
  <2>1. RedisSlide!TypeOK'
    BY <1>1, <1>3, <1>4, <1>t DEF RedisSlide!TypeOK
  <2>2. Cardinality(zset') <= StampRate
    BY <1>2, <1>4, <1>t, FS_CardinalityType
  <2> QED BY <1>1, <1>2, <1>3, <1>4, <2>1, <2>2
<1>5. CASE /\ Cardinality(z) < StampRate /\ zset' = z \cup {sent[r]}
           /\ lastAdd' = clock /\ stamps' = stamps \cup {sent[r]}
           /\ place' = [place EXCEPT ![r] = "pass"]
  <2>1. RedisSlide!TypeOK'
    BY <1>1, <1>3, <1>5, <1>t DEF RedisSlide!TypeOK
  <2>2. /\ IsFiniteSet(zset')
        /\ \/ Cardinality(zset') = Cardinality(z)
           \/ Cardinality(zset') = Cardinality(z) + 1
    BY <1>2, <1>5, FS_AddElement, Zenon
  <2> DEFINE n == Cardinality(z)
             m == Cardinality(zset')
  <2>n. n \in Nat /\ n < StampRate /\ (m = n \/ m = n + 1)
    BY <1>2, <1>5, <2>2
  <2> HIDE DEF n, m
  <2>3. Cardinality(zset') <= StampRate
    <3>1. m <= StampRate
      BY <2>n
    <3> QED BY <3>1 DEF m
  <2>4. {s \in stamps' : s > clock' + Skew - Interval} \subseteq zset'
    <3> SUFFICES ASSUME NEW s \in stamps', s > clock' + Skew - Interval PROVE s \in zset'
      OBVIOUS
    <3>1. s \in stamps \/ s = sent[r]
      BY <1>5
    <3>2. s > clock + Skew - Interval
      BY <1>3
    <3> QED BY <1>1, <1>5, <3>1, <3>2
  <2>5. \A s \in zset' : s <= lastAdd' + Skew
    <3> SUFFICES ASSUME NEW s \in zset' PROVE s <= lastAdd' + Skew
      OBVIOUS
    <3>1. s \in z \/ s = sent[r]
      BY <1>5
    <3>2. s \in zset => s \in Int /\ s <= lastAdd + Skew
      BY <1>t
    <3> QED BY <1>1, <1>5, <1>t, <3>1, <3>2
  <2> QED BY <1>3, <1>5, <1>t, <2>1, <2>2, <2>3, <2>4, <2>5
<1> QED BY <1>3, <1>4, <1>5

\* Every step keeps what the evictions leave.
LEMMA RedisSlideStep ==
    ASSUME RedisSlideInv, [RedisSlide!Next]_RedisSlide!vars
    PROVE  RedisSlideInv'
<1> USE HorizonAssumption, SkewAssumption, StampRateAssumption, IntervalAssumption, RetryAssumption
<1> USE DEF RedisSlideInv
<1>t. /\ clock \in Int /\ lastAdd \in Int /\ \A r \in Requests : sent[r] \in Int
      /\ stamps \subseteq RedisSlide!Stamps /\ zset \subseteq stamps
      /\ RedisSlide!Stamps \subseteq Int
  BY DEF RedisSlide!TypeOK, RedisSlide!Stamps, RedisSlide!Times
<1>1. CASE RedisSlide!Tick
  <2>1. clock < Horizon /\ clock' = clock + 1 /\ UNCHANGED <<place, retries, sent, stamps>>
    BY <1>1 DEF RedisSlide!Tick
  <2>2. \A s \in stamps : s > clock' + Skew - Interval => s \in zset
    <3> SUFFICES ASSUME NEW s \in stamps, s > clock' + Skew - Interval PROVE s \in zset
      OBVIOUS
    <3>1. s \in Int
      BY <1>t
    <3>2. s > clock + Skew - Interval
      BY <1>t, <2>1, <3>1
    <3> QED BY <3>2
  <2>3. CASE clock' > lastAdd + Interval
    <3>1. zset' = {} /\ lastAdd' = 0
      BY <1>1, <2>3 DEF RedisSlide!Tick
    <3>2. \A s \in stamps : ~(s > clock' + Skew - Interval)
      <4> SUFFICES ASSUME NEW s \in stamps, s > clock' + Skew - Interval PROVE FALSE
        OBVIOUS
      <4>1. s \in zset /\ s \in Int
        BY <1>t, <2>2
      <4>2. s <= lastAdd + Skew
        BY <4>1
      <4> QED BY <1>t, <2>1, <2>3, <4>1, <4>2
    <3>3. IsFiniteSet(zset') /\ Cardinality(zset') = 0
      BY <3>1, FS_EmptySet
    <3>4. RedisSlide!TypeOK'
      BY <2>1, <3>1 DEF RedisSlide!TypeOK, RedisSlide!Times
    <3>5. Cardinality(zset') <= StampRate /\ lastAdd' <= clock'
      BY <1>t, <2>1, <3>1, <3>3 DEF RedisSlide!TypeOK, RedisSlide!Times
    <3>6. {s \in stamps' : s > clock' + Skew - Interval} \subseteq zset'
      BY <2>1, <3>2
    <3>7. \A r \in Requests : sent'[r] <= clock' + Skew
      BY <1>t, <2>1
    <3> QED BY <3>1, <3>3, <3>4, <3>5, <3>6, <3>7
  <2>4. CASE ~(clock' > lastAdd + Interval)
    <3>1. UNCHANGED <<zset, lastAdd>>
      BY <1>1, <2>4 DEF RedisSlide!Tick
    <3>2. RedisSlide!TypeOK'
      BY <2>1, <3>1 DEF RedisSlide!TypeOK, RedisSlide!Times
    <3>3. {s \in stamps' : s > clock' + Skew - Interval} \subseteq zset'
      BY <2>1, <2>2, <3>1
    <3>4. lastAdd' <= clock' /\ \A r \in Requests : sent'[r] <= clock' + Skew
      BY <1>t, <2>1, <3>1
    <3> QED BY <3>1, <3>2, <3>3, <3>4
  <2> QED BY <2>3, <2>4
<1>2. ASSUME NEW r \in Requests, RedisSlide!Eval(r) PROVE RedisSlideInv'
  <2>1. PICK s \in clock - Skew .. clock + Skew : sent' = [sent EXCEPT ![r] = s]
    BY <1>2 DEF RedisSlide!Eval
  <2>2. place' = [place EXCEPT ![r] = "sent"] /\ UNCHANGED <<clock, retries, zset, lastAdd, stamps>>
    BY <1>2 DEF RedisSlide!Eval
  <2>3. s \in RedisSlide!Stamps
    BY <1>t, <2>1 DEF RedisSlide!TypeOK, RedisSlide!Stamps, RedisSlide!Times
  <2>4. RedisSlide!TypeOK'
    BY <2>1, <2>2, <2>3 DEF RedisSlide!TypeOK
  <2>5. \A q \in Requests : sent'[q] <= clock' + Skew
    BY <1>t, <2>1, <2>2 DEF RedisSlide!TypeOK
  <2> QED BY <2>2, <2>4, <2>5
<1>3. ASSUME NEW r \in Requests, RedisSlide!Return(r) \/ RedisSlide!NoAnswer(r)
      PROVE  RedisSlideInv'
  <2>1. /\ UNCHANGED <<clock, zset, lastAdd, stamps>>
        /\ sent' = sent \/ sent' = [sent EXCEPT ![r] = 0]
    BY <1>3 DEF RedisSlide!Return, RedisSlide!NoAnswer, RedisSlide!Forget
  <2>2. 0 \in RedisSlide!Stamps
    BY DEF RedisSlide!Stamps
  <2>3. sent' \in [Requests -> RedisSlide!Stamps]
    BY <2>1, <2>2 DEF RedisSlide!TypeOK
  <2>4. /\ place' \in [Requests -> {"idle", "sent", "limit", "pass"}]
        /\ retries' \in [Requests -> 0 .. MaxRetries]
    BY <1>3 DEF RedisSlide!Return, RedisSlide!NoAnswer, RedisSlide!Forget, RedisSlide!TypeOK
  <2>5. RedisSlide!TypeOK'
    BY <2>1, <2>3, <2>4 DEF RedisSlide!TypeOK
  <2>6. \A q \in Requests : sent'[q] <= clock' + Skew
    BY <1>t, <2>1 DEF RedisSlide!TypeOK, RedisSlide!Times
  <2> QED BY <2>1, <2>5, <2>6
<1>4. CASE UNCHANGED RedisSlide!vars
  BY <1>4 DEF RedisSlide!vars, RedisSlide!TypeOK
<1> QED BY <1>1, <1>2, <1>3, <1>4, RedisSlideScript DEF RedisSlide!Next

\* No more than maxRate time stamps are admitted within an interval, less the
\* skew, whatever is delayed, lost or sent again and whoever evicts.  About the
\* script and the two evictions, by score and by expiry (slide_window.lua:8-27).
THEOREM StampsBounded == RedisSlide!Spec => []StampsPerWindow
<1>1. RedisSlideInv => StampsPerWindow
  <2> SUFFICES ASSUME RedisSlideInv PROVE StampsPerWindow
    OBVIOUS
  <2> DEFINE last == {s \in stamps : s > clock + Skew - Interval}
  <2>1. last \in SUBSET zset /\ IsFiniteSet(zset) /\ Cardinality(zset) <= StampRate
    BY DEF RedisSlideInv
  <2>2. Cardinality(last) <= Cardinality(zset) /\ Cardinality(last) \in Nat
        /\ Cardinality(zset) \in Nat
    BY <2>1, FS_Subset, FS_CardinalityType
  <2>3. \A a, b \in Nat : a <= b /\ b <= StampRate => a <= StampRate
    BY StampRateAssumption
  <2>4. Cardinality(last) <= StampRate
    BY <2>1, <2>2, <2>3, Zenon
  <2> QED BY <2>4, RedisSlideCards DEF StampsPerWindow, RedisSlide!StampsPerWindow
<1>2. RedisSlideInv /\ [RedisSlide!Next]_RedisSlide!vars => RedisSlideInv'
  BY RedisSlideStep
<1> QED BY <1>1, <1>2, RedisSlideInit, PTL DEF RedisSlide!Spec

-----------------------------------------------------------------------------
\* The requests that a history counts from time t up to time u.
Within(t, u)   == {x \in Times : t <= x /\ x <= u}
Given(f, t, u) == Counted(f, Within(t, u))

\* Slots given in a stretch are counted by a number.
LEMMA GivenType ==
    ASSUME NEW f \in [Times -> Nat], NEW t \in Int, NEW u \in Int
    PROVE  Given(f, t, u) \in Nat
BY CellsFinite DEF Given, Within

\* After time n nothing was given: what starts later counts no more.
LEMMA GivenLess ==
    ASSUME NEW f \in [Times -> Nat], NEW n \in Times, \A x \in Times : x > n => f[x] = 0,
           NEW t \in Int, NEW u \in Int, NEW v \in Int, NEW w \in Int, v <= t, n <= w
    PROVE  Given(f, t, u) <= Given(f, v, w)
<1>1. \A x \in Within(t, u) \ Within(v, w) : f[x] = 0
  <2> SUFFICES ASSUME NEW x \in Times, t <= x, ~(v <= x /\ x <= w) PROVE f[x] = 0
    BY DEF Within
  <2>1. x \in Int /\ n \in Int
    BY HorizonAssumption DEF Times
  <2>2. x > n
    BY <2>1
  <2> QED BY <2>2
<1>2. Within(t, u) \in SUBSET Times /\ Within(v, w) \in SUBSET Times
  BY DEF Within
<1> QED BY <1>1, <1>2, CountedSubset DEF Given

\* What is given up to time w is given before time v or from v on.
LEMMA GivenSplit ==
    ASSUME NEW f \in [Times -> Nat], NEW t \in Int, NEW v \in Int, NEW w \in Int,
           t <= v, v <= w
    PROVE  Given(f, t, w) <= Given(f, t, v - 1) + Given(f, v, w)
<1>1. Times \subseteq Int
  BY HorizonAssumption DEF Times
<1>2. Within(t, w) = Within(t, v - 1) \cup Within(v, w)
  <2>1. ASSUME NEW x \in Int, v <= x
        PROVE  t <= x
    BY <2>1
  <2>2. ASSUME NEW x \in Int
        PROVE  x <= v - 1 <=> ~(v <= x)
    OBVIOUS
  <2>3. ASSUME NEW x \in Int, x <= v - 1
        PROVE  x <= w
    BY <2>3
  <2>4. Within(t, w) \subseteq Within(t, v - 1) \cup Within(v, w)
    BY <1>1, <2>2, Zenon DEF Within
  <2>5. Within(t, v - 1) \cup Within(v, w) \subseteq Within(t, w)
    BY <1>1, <2>1, <2>3, Zenon DEF Within
  <2> QED BY <2>4, <2>5
<1>3. Within(t, v - 1) \in SUBSET Times /\ Within(v, w) \in SUBSET Times
  BY DEF Within
<1> QED BY <1>2, <1>3, CountedSplit DEF Given

\* At time n g counts one more than f, and as many at every other time.
OneMore(f, g, n) ==
    /\ f \in [Times -> Nat] /\ g \in [Times -> Nat] /\ n \in Times
    /\ g[n] = f[n] + 1 /\ \A x \in Times : x # n => g[x] = f[x]

\* One more at time n counts in the stretches that n lies in.
LEMMA GivenMore ==
    ASSUME NEW f, NEW g, NEW n, OneMore(f, g, n), NEW t \in Int, NEW u \in Int
    PROVE  /\ t <= n /\ n <= u => Given(g, t, u) = Given(f, t, u) + 1
           /\ ~(t <= n /\ n <= u) => Given(g, t, u) = Given(f, t, u)
<1> USE DEF OneMore
<1>1. Within(t, u) \in SUBSET Times
  BY DEF Within
<1>2. Given(g, t, u) = Given(f, t, u) + (IF n \in Within(t, u) THEN 1 ELSE 0)
  BY <1>1, CountedMore DEF Given
<1>3. Given(f, t, u) \in Nat
  BY GivenType
<1> QED BY <1>2, <1>3 DEF Within

\* The fixed window in Redis.  A key that is there has given out val slots
\* since it was made, an interval before it expires, and the key before it
\* gave no more than maxRate; without a key the last interval holds one's slots.
RedisFixInv ==
    /\ clock \in Times /\ val \in 0 .. MaxRate /\ expireAt \in 0 .. Horizon + Interval
    /\ place \in [Requests -> {"idle", "sent", "limit", "pass"}]
    /\ retries \in [Requests -> 0 .. MaxRetries]
    /\ granted \in [Times -> Nat]
    /\ \A t \in Times : t > clock => granted[t] = 0
    /\ val # 0 =>
          /\ clock <= expireAt /\ expireAt <= clock + Interval /\ Interval <= expireAt
          /\ Given(granted, expireAt - Interval, clock) = val
          /\ Given(granted, expireAt - 2 * Interval, expireAt - Interval - 1) <= MaxRate
    /\ val = 0 =>
          /\ granted[clock] = 0
          /\ Given(granted, clock - Interval, clock) <= MaxRate
    /\ \A t \in Times : Given(granted, t, t + Interval) <= 2 * MaxRate

\* The instance counts as this module does.
LEMMA RedisFixGiven == \A t, u : RedisFix!Between(t, u) = Given(granted, t, u)
BY DEF RedisFix!Between, RedisFix!Counted, RedisFix!Times, RedisFix!Cardinality,
       Given, Within, Counted, Times, Cardinality

\* Before the first key.
LEMMA RedisFixInit == RedisFix!Init => RedisFixInv
<1> SUFFICES ASSUME RedisFix!Init PROVE RedisFixInv
  OBVIOUS
<1> USE HorizonAssumption, IntervalAssumption, RateAssumption, RetryAssumption
<1>1. /\ clock \in Times /\ clock = 0 /\ val = 0 /\ expireAt = 0
      /\ granted \in [Times -> Nat] /\ \A t \in Times : granted[t] = 0
      /\ place \in [Requests -> {"idle", "sent", "limit", "pass"}]
      /\ retries \in [Requests -> 0 .. MaxRetries]
  BY DEF RedisFix!Init, RedisFix!Times, Times
<1>2. \A t, u : Given(granted, t, u) = 0
  BY <1>1, CountedNone DEF Given, Within
<1> QED BY <1>1, <1>2 DEF RedisFixInv

\* What the invariant says of the numbers alone.
LEMMA RedisFixNumbers ==
    ASSUME RedisFixInv
    PROVE  /\ clock \in Times /\ clock \in Int /\ clock >= 0
           /\ val \in 0 .. MaxRate /\ val \in Int
           /\ expireAt \in 0 .. Horizon + Interval /\ expireAt \in Int
           /\ granted \in [Times -> Nat] /\ \A t \in Times : t > clock => granted[t] = 0
<1>1. /\ clock \in Times /\ val \in 0 .. MaxRate /\ expireAt \in 0 .. Horizon + Interval
      /\ granted \in [Times -> Nat] /\ \A t \in Times : t > clock => granted[t] = 0
  BY Zenon DEF RedisFixInv
<1>2. clock \in Int /\ clock >= 0 /\ val \in Int /\ expireAt \in Int
  BY <1>1, HorizonAssumption, IntervalAssumption, RateAssumption DEF Times
<1> QED BY <1>1, <1>2

\* One slot more is given now.
GrantedMore ==
    /\ granted' \in [Times -> Nat] /\ granted'[clock] = granted[clock] + 1
    /\ \A t \in Times : t # clock => granted'[t] = granted[t]

\* The key is made: the interval up to now may hold the last key's slots.
LEMMA RedisFixFirst ==
    ASSUME RedisFixInv, val = 0, MaxRate >= 1, val' = 1, expireAt' = clock + Interval,
           clock' = clock, GrantedMore,
           place' \in [Requests -> {"idle", "sent", "limit", "pass"}],
           retries' \in [Requests -> 0 .. MaxRetries]
    PROVE  RedisFixInv'
<1> USE HorizonAssumption, IntervalAssumption, RateAssumption
<1>t. /\ clock \in Times /\ clock \in Int /\ clock >= 0 /\ clock <= Horizon
      /\ granted \in [Times -> Nat] /\ \A t \in Times : t > clock => granted[t] = 0
      /\ granted[clock] = 0 /\ Given(granted, clock - Interval, clock) <= MaxRate
  BY DEF RedisFixInv, Times
<1>g. /\ granted' \in [Times -> Nat] /\ granted'[clock] = granted[clock] + 1
      /\ \A t \in Times : t # clock => granted'[t] = granted[t]
  BY DEF GrantedMore
<1>o. OneMore(granted, granted', clock)
  BY <1>t, <1>g DEF OneMore
<1>m. ASSUME NEW t \in Int, NEW u \in Int
      PROVE  /\ t <= clock /\ clock <= u => Given(granted', t, u) = Given(granted, t, u) + 1
             /\ ~(t <= clock /\ clock <= u) => Given(granted', t, u) = Given(granted, t, u)
             /\ Given(granted, t, u) \in Nat
  <2>1. t <= clock /\ clock <= u => Given(granted', t, u) = Given(granted, t, u) + 1
    BY <1>o, GivenMore
  <2>2. ~(t <= clock /\ clock <= u) => Given(granted', t, u) = Given(granted, t, u)
    BY <1>o, GivenMore
  <2>3. Given(granted, t, u) \in Nat
    BY <1>t, GivenType
  <2> QED BY <2>1, <2>2, <2>3
<1>1. Given(granted', clock, clock) = 1
  <2>1. \A x \in Within(clock, clock) : granted[x] = 0
    BY <1>t DEF Within, Times
  <2>2. Given(granted, clock, clock) = 0
    BY <1>t, <2>1, CountedNone DEF Given, Within
  <2> QED BY <1>m, <1>t, <2>2
<1>2. Given(granted', clock - Interval, clock - 1) <= MaxRate
  <2>1. Given(granted, clock - Interval, clock - 1) <= Given(granted, clock - Interval, clock)
    BY <1>t, GivenLess
  <2>2. Given(granted', clock - Interval, clock - 1) = Given(granted, clock - Interval, clock - 1)
    BY <1>m, <1>t
  <2>3. Given(granted, clock - Interval, clock - 1) \in Nat /\ Given(granted, clock - Interval, clock) \in Nat
    BY <1>t, GivenType
  <2> QED BY <1>t, <2>1, <2>2, <2>3
<1>3. ASSUME NEW t \in Times PROVE Given(granted', t, t + Interval) <= 2 * MaxRate
  <2>t. t \in Int /\ t + Interval \in Int
    BY DEF Times
  <2>1. CASE t <= clock /\ clock <= t + Interval
    <3>1. Given(granted, t, t + Interval) <= Given(granted, clock - Interval, clock)
      BY <1>t, <2>t, <2>1, GivenLess
    <3>2. Given(granted', t, t + Interval) = Given(granted, t, t + Interval) + 1
      BY <1>m, <2>t, <2>1
    <3>3. Given(granted, t, t + Interval) \in Nat /\ Given(granted, clock - Interval, clock) \in Nat
      BY <1>t, <2>t, GivenType
    <3> QED BY <1>t, <3>1, <3>2, <3>3
  <2>2. CASE ~(t <= clock /\ clock <= t + Interval)
    BY <1>m, <2>t, <2>2 DEF RedisFixInv
  <2> QED BY <2>1, <2>2
<1>4. /\ expireAt' - Interval = clock /\ expireAt' - 2 * Interval = clock - Interval
      /\ clock <= expireAt' /\ Interval <= expireAt' /\ expireAt' \in 0 .. Horizon + Interval
      /\ val' \in 0 .. MaxRate
  BY <1>t
<1>5. \A t \in Times : t > clock' => granted'[t] = 0
  BY <1>t, <1>g DEF Times
<1> QED BY <1>t, <1>g, <1>1, <1>2, <1>3, <1>4, <1>5 DEF RedisFixInv

\* The key counts one more: no stretch up to now reaches before its last key.
LEMMA RedisFixMore ==
    ASSUME RedisFixInv, val # 0, val < MaxRate, val' = val + 1, expireAt' = expireAt,
           clock' = clock, GrantedMore,
           place' \in [Requests -> {"idle", "sent", "limit", "pass"}],
           retries' \in [Requests -> 0 .. MaxRetries]
    PROVE  RedisFixInv'
<1> USE HorizonAssumption, IntervalAssumption, RateAssumption
<1> DEFINE made == expireAt - Interval
           before == expireAt - 2 * Interval
<1>t. /\ clock \in Times /\ clock \in Int /\ val \in Nat /\ expireAt \in 0 .. Horizon + Interval
      /\ granted \in [Times -> Nat] /\ \A t \in Times : t > clock => granted[t] = 0
      /\ made \in Int /\ before \in Int /\ before <= made /\ made <= clock
      /\ before <= clock - Interval
      /\ clock <= expireAt /\ expireAt <= clock + Interval /\ Interval <= expireAt
      /\ Given(granted, made, clock) = val /\ Given(granted, before, made - 1) <= MaxRate
  <2>1. /\ clock <= expireAt /\ expireAt <= clock + Interval /\ Interval <= expireAt
        /\ Given(granted, made, clock) = val /\ Given(granted, before, made - 1) <= MaxRate
    BY Zenon DEF RedisFixInv
  <2>2. /\ made \in Int /\ before \in Int /\ before <= made /\ made <= clock
        /\ before <= clock - Interval /\ val \in Nat
    BY <2>1, RedisFixNumbers
  <2> QED BY <2>1, <2>2, RedisFixNumbers
<1> HIDE DEF made, before
<1>g. /\ granted' \in [Times -> Nat] /\ granted'[clock] = granted[clock] + 1
      /\ \A t \in Times : t # clock => granted'[t] = granted[t]
  BY DEF GrantedMore
<1>o. OneMore(granted, granted', clock)
  BY <1>t, <1>g DEF OneMore
<1>m. ASSUME NEW t \in Int, NEW u \in Int
      PROVE  /\ t <= clock /\ clock <= u => Given(granted', t, u) = Given(granted, t, u) + 1
             /\ ~(t <= clock /\ clock <= u) => Given(granted', t, u) = Given(granted, t, u)
             /\ Given(granted, t, u) \in Nat
  <2>1. t <= clock /\ clock <= u => Given(granted', t, u) = Given(granted, t, u) + 1
    BY <1>o, GivenMore
  <2>2. ~(t <= clock /\ clock <= u) => Given(granted', t, u) = Given(granted, t, u)
    BY <1>o, GivenMore
  <2>3. Given(granted, t, u) \in Nat
    BY <1>t, GivenType
  <2> QED BY <2>1, <2>2, <2>3
<1>1. Given(granted', made, clock) = val + 1
  BY <1>m, <1>t
<1>2. Given(granted', before, made - 1) <= MaxRate
  BY <1>m, <1>t
<1>3. ASSUME NEW t \in Times PROVE Given(granted', t, t + Interval) <= 2 * MaxRate
  <2>t. t \in Int /\ t + Interval \in Int
    BY DEF Times
  <2>1. CASE t <= clock /\ clock <= t + Interval
    <3>1. before <= t
      BY <1>t, <2>t, <2>1
    <3>2. Given(granted, t, t + Interval) <= Given(granted, before, clock)
      BY <1>t, <2>t, <3>1, GivenLess
    <3>3. Given(granted, before, clock)
          <= Given(granted, before, made - 1) + Given(granted, made, clock)
      BY <1>t, GivenSplit
    <3>4. Given(granted', t, t + Interval) = Given(granted, t, t + Interval) + 1
      BY <1>m, <2>t, <2>1
    <3>5. /\ Given(granted, t, t + Interval) \in Nat /\ Given(granted, before, clock) \in Nat
          /\ Given(granted, before, made - 1) \in Nat
      BY <1>t, <2>t, GivenType
    <3> QED BY <1>t, <3>2, <3>3, <3>4, <3>5
  <2>2. CASE ~(t <= clock /\ clock <= t + Interval)
    BY <1>m, <2>t, <2>2 DEF RedisFixInv
  <2> QED BY <2>1, <2>2
<1>4. /\ expireAt' - Interval = made /\ expireAt' - 2 * Interval = before
      /\ expireAt' - Interval - 1 = made - 1
  BY DEF made, before
<1>5. \A t \in Times : t > clock' => granted'[t] = 0
  BY <1>t, <1>g DEF Times
<1>6. val' \in 0 .. MaxRate /\ val' # 0
  BY <1>t
<1> QED BY <1>t, <1>g, <1>1, <1>2, <1>3, <1>4, <1>5, <1>6 DEF RedisFixInv

\* Time passes: an expired key leaves its own slots in the last interval.
LEMMA RedisFixTick ==
    ASSUME RedisFixInv, RedisFix!Tick
    PROVE  RedisFixInv'
<1> USE HorizonAssumption, IntervalAssumption, RateAssumption
<1>t. /\ clock \in Times /\ clock \in Int /\ clock >= 0 /\ granted \in [Times -> Nat]
      /\ \A t \in Times : t > clock => granted[t] = 0
      /\ val \in Int /\ expireAt \in Int
  BY RedisFixNumbers
<1>1. clock < Horizon /\ clock' = clock + 1 /\ UNCHANGED <<place, retries, granted>>
  BY DEF RedisFix!Tick
<1>2. clock' \in Times /\ granted[clock'] = 0 /\ \A t \in Times : t > clock' => granted[t] = 0
  BY <1>t, <1>1 DEF Times
<1>3. ASSUME NEW t \in Int, NEW v \in Int, v <= t
      PROVE  /\ Given(granted, t, clock + 1) <= Given(granted, v, clock)
             /\ Given(granted, t, clock) <= Given(granted, t, clock + 1)
             /\ Given(granted, t, clock + 1) \in Nat /\ Given(granted, v, clock) \in Nat
  <2>1. clock + 1 \in Int /\ clock <= clock + 1 /\ clock <= clock
    BY <1>t
  <2>2. t <= t
    OBVIOUS
  <2> QED BY <1>t, <1>3, <2>1, <2>2, GivenLess, GivenType, Zenon
<1>4. CASE val = 0
  <2>1. val' = 0 /\ expireAt' = expireAt
    BY <1>4 DEF RedisFix!Tick
  <2>2. Given(granted, clock' - Interval, clock') <= MaxRate
    <3>1. clock' - Interval \in Int /\ clock - Interval \in Int /\ clock - Interval <= clock' - Interval
      BY <1>t, <1>1
    <3>2. Given(granted, clock - Interval, clock) <= MaxRate
      BY <1>4 DEF RedisFixInv
    <3> QED BY <1>1, <1>3, <3>1, <3>2
  <2> QED BY <1>1, <1>2, <2>1, <2>2 DEF RedisFixInv
<1>5. CASE val # 0 /\ clock' > expireAt
  <2>1. val' = 0 /\ expireAt' = 0
    BY <1>5 DEF RedisFix!Tick
  <2>2. expireAt = clock
    BY <1>1, <1>5, <1>t DEF RedisFixInv
  <2>3. \A n \in Nat : n <= Given(granted, clock - Interval, clock) => n <= MaxRate
    <3>1. Given(granted, clock - Interval, clock) = val /\ val <= MaxRate
      BY <1>5, <2>2 DEF RedisFixInv
    <3> QED BY <3>1, <1>t
  <2>4. Given(granted, clock' - Interval, clock') <= MaxRate
    <3>1. clock' - Interval \in Int /\ clock - Interval \in Int /\ clock - Interval <= clock' - Interval
      BY <1>t, <1>1
    <3>2. Given(granted, clock' - Interval, clock + 1) <= Given(granted, clock - Interval, clock)
      BY <1>3, <3>1, Zenon
    <3>3. Given(granted, clock' - Interval, clock + 1) \in Nat
      BY <1>3, <3>1, Zenon
    <3> QED BY <1>1, <2>3, <3>2, <3>3
  <2>5. expireAt' \in 0 .. Horizon + Interval /\ val' \in 0 .. MaxRate
    BY <2>1
  <2> QED BY <1>1, <1>2, <2>1, <2>4, <2>5 DEF RedisFixInv
<1>6. CASE val # 0 /\ ~(clock' > expireAt)
  <2>1. val' = val /\ expireAt' = expireAt
    BY <1>6 DEF RedisFix!Tick
  <2>2. Given(granted, expireAt - Interval, clock') = val
    <3>1. expireAt - Interval \in Int /\ expireAt - Interval <= expireAt - Interval
      BY <1>t
    <3>2. Given(granted, expireAt - Interval, clock) = val
      BY <1>6 DEF RedisFixInv
    <3>3. Given(granted, expireAt - Interval, clock + 1) = Given(granted, expireAt - Interval, clock)
      <4>1. /\ Given(granted, expireAt - Interval, clock + 1) <= Given(granted, expireAt - Interval, clock)
            /\ Given(granted, expireAt - Interval, clock) <= Given(granted, expireAt - Interval, clock + 1)
            /\ Given(granted, expireAt - Interval, clock + 1) \in Nat
            /\ Given(granted, expireAt - Interval, clock) \in Nat
        BY <1>3, <3>1, Zenon
      <4> QED BY <4>1
    <3> QED BY <1>1, <3>2, <3>3
  <2>3. clock' <= expireAt /\ expireAt <= clock' + Interval
    BY <1>1, <1>6, <1>t DEF RedisFixInv
  <2> QED BY <1>1, <1>2, <1>6, <2>1, <2>2, <2>3 DEF RedisFixInv
<1> QED BY <1>4, <1>5, <1>6

\* Every step keeps what a key has given.
LEMMA RedisFixStep ==
    ASSUME RedisFixInv, [RedisFix!Next]_RedisFix!vars
    PROVE  RedisFixInv'
<1>a. retries \in [Requests -> 0 .. MaxRetries] /\ place \in [Requests -> {"idle", "sent", "limit", "pass"}]
  BY DEF RedisFixInv
<1>1. ASSUME NEW r \in Requests, RedisFix!Script(r) PROVE RedisFixInv'
  <2>1. /\ place' \in [Requests -> {"idle", "sent", "limit", "pass"}]
        /\ retries' \in [Requests -> 0 .. MaxRetries] /\ clock' = clock
    BY <1>1, <1>a DEF RedisFix!Script, RedisFix!Grant, RedisFix!Limit
  <2>2. \/ /\ val = 0 /\ MaxRate >= 1 /\ val' = 1 /\ expireAt' = clock + Interval
           /\ RedisFix!Grant(r)
        \/ /\ val # 0 /\ val < MaxRate /\ val' = val + 1 /\ expireAt' = expireAt
           /\ RedisFix!Grant(r)
        \/ UNCHANGED <<val, expireAt, granted>>
    BY <1>1 DEF RedisFix!Script, RedisFix!Limit
  <2>4. RedisFix!Grant(r) => GrantedMore
    BY DEF RedisFix!Grant, GrantedMore, RedisFixInv
  <2>3. CASE UNCHANGED <<val, expireAt, granted>>
    BY <2>1, <2>3 DEF RedisFixInv
  <2> QED BY <2>1, <2>2, <2>3, <2>4, RedisFixFirst, RedisFixMore
<1>2. ASSUME NEW r \in Requests, RedisFix!Eval(r) \/ RedisFix!Return(r) \/ RedisFix!NoAnswer(r)
      PROVE  RedisFixInv'
  <2>1. UNCHANGED <<clock, val, expireAt, granted>>
    BY <1>2 DEF RedisFix!Eval, RedisFix!Return, RedisFix!NoAnswer
  <2>2. 0 \in 0 .. MaxRetries
    BY RetryAssumption
  <2>3. /\ place' \in [Requests -> {"idle", "sent", "limit", "pass"}]
        /\ retries' \in [Requests -> 0 .. MaxRetries]
    BY <1>2, <1>a, <2>2, RetryAssumption DEF RedisFix!Eval, RedisFix!Return, RedisFix!NoAnswer
  <2> QED BY <2>1, <2>3 DEF RedisFixInv
<1>3. CASE UNCHANGED RedisFix!vars
  BY <1>3 DEF RedisFix!vars, RedisFixInv
<1> QED BY <1>1, <1>2, <1>3, RedisFixTick DEF RedisFix!Next

\* RedisFixInv holds in every state (fix_window.lua:3-21).
LEMMA RedisFixInvariant == RedisFix!Spec => []RedisFixInv
<1>1. RedisFixInv /\ [RedisFix!Next]_RedisFix!vars => RedisFixInv'
  BY RedisFixStep
<1> QED BY <1>1, RedisFixInit, PTL DEF RedisFix!Spec

\* No stretch of interval lets more than twice maxRate requests through, for
\* any clients, retries and rate.  About the expiry that is set once, with the
\* key (fix_window.lua:3-21): a stretch meets two keys at most.
THEOREM BoundaryBursts == RedisFix!Spec => []BurstAtBoundary
<1>1. RedisFixInv => BurstAtBoundary
  BY RedisFixGiven DEF RedisFixInv, BurstAtBoundary, RedisFix!BurstAtBoundary, RedisFix!Times, Times
<1> QED BY <1>1, RedisFixInvariant, PTL

\* A request is limited only if maxRate slots were given within the last
\* interval: a key never outlives its window.  About the expiry, which incr
\* leaves alone (fix_window.lua:9-18).
THEOREM LimitedOnlyWhenFull == RedisFix!Spec => LimitedIsFull
<1>1. ASSUME RedisFixInv, [RedisFix!Next]_RedisFix!vars
      PROVE  [limiter = "redisFix" => RedisFix!LimitsRightly]_limiterVars
  <2> SUFFICES ASSUME NEW r \in Requests, place[r] = "sent", place'[r] = "limit"
               PROVE  RedisFix!Between(clock - Interval, clock) >= MaxRate
    BY DEF RedisFix!LimitsRightly
  <2> USE HorizonAssumption, IntervalAssumption, RateAssumption
  <2>1. val >= MaxRate
    BY <1>1 DEF RedisFix!Next, RedisFix!vars, RedisFix!Tick, RedisFix!Eval, RedisFix!Script,
                RedisFix!Return, RedisFix!NoAnswer, RedisFix!Grant, RedisFix!Limit, RedisFixInv
  <2>t. /\ clock \in Times /\ clock \in Int /\ val \in 0 .. MaxRate /\ expireAt \in Int
        /\ granted \in [Times -> Nat] /\ \A t \in Times : t > clock => granted[t] = 0
    BY <1>1, RedisFixNumbers
  <2>2. Given(granted, clock - Interval, clock) \in Nat
    BY <2>t, GivenType
  <2>3. CASE val = 0
    BY <2>1, <2>2, <2>3, RedisFixGiven
  <2>4. CASE val # 0
    <3>1. clock <= expireAt /\ Given(granted, expireAt - Interval, clock) = val
      BY <1>1, <2>4 DEF RedisFixInv
    <3>2. Given(granted, expireAt - Interval, clock) <= Given(granted, clock - Interval, clock)
      BY <2>t, <3>1, GivenLess
    <3> QED BY <2>1, <2>2, <2>t, <3>1, <3>2, RedisFixGiven
  <2> QED BY <2>3, <2>4
<1> QED BY <1>1, RedisFixInvariant, PTL DEF RedisFix!Spec, LimitedIsFull

-----------------------------------------------------------------------------
\* The places of a queue whose time stamps are t or later.
From(q, t) == {i \in DOMAIN q : q[i] >= t}

\* A queue has no more entries from t on than entries.
LEMMA FromSize ==
    ASSUME NEW q \in Seq(Times), NEW t \in Int
    PROVE  /\ IsFiniteSet(From(q, t)) /\ Cardinality(From(q, t)) \in Nat
           /\ Cardinality(From(q, t)) <= Len(q)
<1> DEFINE n == Len(q)
<1>1. n \in Nat /\ n \in Int /\ 1 \in Int /\ DOMAIN q = 1 .. n
  BY LenProperties
<1> HIDE DEF n
<1>2. IsFiniteSet(1 .. n) /\ Cardinality(1 .. n) = n
  <2>1. Cardinality(1 .. n) = IF 1 > n THEN 0 ELSE n - 1 + 1
    BY <1>1, FS_Interval
  <2> QED BY <1>1, <2>1, FS_Interval
<1>3. From(q, t) \in SUBSET (1 .. n)
  BY <1>1 DEF From
<1>4. /\ IsFiniteSet(From(q, t)) /\ Cardinality(From(q, t)) <= n
  BY <1>2, <1>3, FS_Subset
<1> QED BY <1>4, FS_CardinalityType DEF n

\* A time stamp added at the back counts where it is late enough.
LEMMA FromAppend ==
    ASSUME NEW q \in Seq(Times), NEW c \in Times, NEW t \in Int
    PROVE  Cardinality(From(Append(q, c), t))
             = Cardinality(From(q, t)) + (IF c >= t THEN 1 ELSE 0)
<1> DEFINE a == Append(q, c)
           n == Len(q)
<1>1. /\ n \in Nat /\ DOMAIN q = 1 .. n /\ DOMAIN a = 1 .. n + 1 /\ a[n + 1] = c
      /\ \A i \in 1 .. n : a[i] = q[i]
  BY AppendProperties, LenProperties
<1>2. IsFiniteSet(From(q, t)) /\ Cardinality(From(q, t)) \in Nat
  BY FromSize
<1> HIDE DEF a, n
<1>3. \A i : i \in 1 .. n + 1 <=> i \in 1 .. n \/ i = n + 1
  BY <1>1
<1>4. n + 1 \notin From(q, t)
  BY <1>1 DEF From
<1>5. CASE c >= t
  <2>1. From(a, t) = From(q, t) \cup {n + 1}
    BY <1>1, <1>3, <1>5 DEF From
  <2>2. Cardinality(From(a, t)) = Cardinality(From(q, t)) + 1
    BY <1>2, <1>4, <2>1, FS_AddElement
  <2> QED BY <1>5, <2>2 DEF a
<1>6. CASE ~(c >= t)
  <2>1. From(a, t) = From(q, t)
    BY <1>1, <1>3, <1>6 DEF From
  <2> QED BY <1>2, <1>6, <2>1 DEF a
<1> QED BY <1>5, <1>6

\* Eviction takes a front of the queue, of time stamps before t only.
LEMMA EvictTakes ==
    ASSUME NEW q \in Seq(Times), NEW t \in Int
    PROVE  \/ From(q, t) = {} /\ Slide!Evict(q, t) = <<>>
           \/ /\ From(q, t) # {}
              /\ \E m \in From(q, t) : /\ \A j \in From(q, t) : m <= j
                                       /\ Slide!Evict(q, t) = SubSeq(q, m, Len(q))
<1>1. CASE From(q, t) = {}
  BY <1>1 DEF Slide!Evict, From
<1>2. CASE From(q, t) # {}
  <2>1. From(q, t) \in SUBSET Nat
    BY LenProperties DEF From
  <2>2. \E m \in From(q, t) : \A j \in From(q, t) : m <= j
    BY <1>2, <2>1, LeastOf
  <2> DEFINE k == CHOOSE i \in From(q, t) : \A j \in From(q, t) : i <= j
  <2>3. k \in From(q, t) /\ \A j \in From(q, t) : k <= j
    BY <2>2
  <2>4. Slide!Evict(q, t) = SubSeq(q, k, Len(q))
    BY <1>2 DEF Slide!Evict, From
  <2> QED BY <1>2, <2>3, <2>4
<1> QED BY <1>1, <1>2

\* What eviction at s leaves still has every time stamp from t on.
LEMMA EvictKeeps ==
    ASSUME NEW q \in Seq(Times), NEW s \in Int, NEW t \in Int, s <= t
    PROVE  /\ Slide!Evict(q, s) \in Seq(Times) /\ Len(Slide!Evict(q, s)) <= Len(q)
           /\ Cardinality(From(Slide!Evict(q, s), t)) = Cardinality(From(q, t))
<1>t. Len(q) \in Nat /\ DOMAIN q = 1 .. Len(q) /\ \A i \in DOMAIN q : q[i] \in Times
  BY LenProperties
<1>i. Times \subseteq Int
  BY HorizonAssumption DEF Times
<1>s. From(q, t) \subseteq From(q, s)
  <2>1. \A x \in Int : x >= t => x >= s
    OBVIOUS
  <2> QED BY <1>t, <1>i, <2>1 DEF From
<1>1. CASE From(q, s) = {} /\ Slide!Evict(q, s) = <<>>
  <2>1. From(<<>>, t) = {} /\ From(q, t) = {}
    BY <1>1, <1>s DEF From
  <2>2. <<>> \in Seq(Times) /\ Len(<<>>) = 0
    OBVIOUS
  <2>3. Cardinality(From(<<>>, t)) = Cardinality(From(q, t))
    BY <2>1
  <2> QED BY <1>1, <1>t, <2>2, <2>3
<1>2. ASSUME NEW m \in From(q, s), \A j \in From(q, s) : m <= j,
             Slide!Evict(q, s) = SubSeq(q, m, Len(q))
      PROVE  /\ Slide!Evict(q, s) \in Seq(Times) /\ Len(Slide!Evict(q, s)) <= Len(q)
             /\ Cardinality(From(Slide!Evict(q, s), t)) = Cardinality(From(q, t))
  <2> DEFINE e == SubSeq(q, m, Len(q))
             n == Len(q)
  <2>1. m \in 1 .. n /\ n \in Nat /\ m \in Int /\ n \in Int
    BY <1>t DEF From
  <2>2. /\ e \in Seq(Times) /\ Len(e) = n - m + 1 /\ DOMAIN e = 1 .. n - m + 1
        /\ \A i \in 1 .. n - m + 1 : e[i] = q[m + i - 1]
    <3>1. \A i \in m .. n : q[i] \in Times
      BY <1>t, <2>1
    <3>2. e \in Seq(Times)
      BY <2>1, <3>1, SubSeqProperties
    <3>3. Len(e) = IF m <= n THEN n - m + 1 ELSE 0
      BY <2>1, <3>1, SubSeqProperties
    <3>4. \A i \in 1 .. n - m + 1 : e[i] = q[m + i - 1]
      BY <2>1, <3>1, SubSeqProperties
    <3>5. Len(e) = n - m + 1
      BY <2>1, <3>3
    <3>6. DOMAIN e = 1 .. n - m + 1
      BY <3>2, <3>5, LenProperties
    <3> QED BY <3>2, <3>4, <3>5, <3>6
  <2>q. DOMAIN q = 1 .. n
    BY <1>t
  <2>f. IsFiniteSet(From(e, t))
    BY <2>2, FromSize
  <2> HIDE DEF e, n
  <2>3. \A j \in From(q, t) : j \in m .. n
    BY <1>2, <1>s, <2>1, <2>q DEF From
  <2> DEFINE g == [i \in From(e, t) |-> m + i - 1]
  <2>4. \A i \in From(e, t) : i \in 1 .. n - m + 1 /\ g[i] = m + i - 1 /\ g[i] \in From(q, t)
    BY <2>1, <2>2, <2>q DEF From
  <2>5. \A j \in From(q, t) : j - m + 1 \in From(e, t) /\ g[j - m + 1] = j
    <3> SUFFICES ASSUME NEW j \in From(q, t)
                 PROVE  j - m + 1 \in From(e, t) /\ g[j - m + 1] = j
      OBVIOUS
    <3>1. j - m + 1 \in 1 .. n - m + 1 /\ m + (j - m + 1) - 1 = j
      BY <2>1, <2>3
    <3>2. e[j - m + 1] = q[j]
      BY <2>2, <3>1
    <3>3. j - m + 1 \in From(e, t)
      BY <2>2, <3>1, <3>2 DEF From
    <3> QED BY <3>1, <3>3
  <2>6. g \in Bijection(From(e, t), From(q, t))
    <3>1. g \in [From(e, t) -> From(q, t)]
      BY <2>4
    <3>2. \A a, b \in From(e, t) : g[a] = g[b] => a = b
      BY <2>1, <2>4
    <3>3. \A j \in From(q, t) : \E i \in From(e, t) : g[i] = j
      BY <2>5
    <3> HIDE DEF g
    <3>4. g \in Surjection(From(e, t), From(q, t))
      BY <3>1, <3>3 DEF Surjection
    <3>5. g \in Injection(From(e, t), From(q, t))
      BY <3>1, <3>2 DEF Injection, IsInjective
    <3> QED BY <3>4, <3>5 DEF Bijection
  <2>7. Cardinality(From(e, t)) = Cardinality(From(q, t))
    BY <2>6, <2>f, FS_Bijection DEF ExistsBijection
  <2>8. Len(e) <= n
    BY <2>1, <2>2
  <2> QED BY <1>2, <2>2, <2>7, <2>8 DEF e, n
<1> QED BY <1>1, <1>2, EvictTakes

-----------------------------------------------------------------------------
\* The sliding window: from every time on that the newest window holds, the
\* queue has as many time stamps as requests were admitted.
Admitted(f, t) == Counted(f, {u \in Times : u >= t})

SlideInv ==
    /\ Slide!TypeOK
    /\ \A t \in Int : t >= newest - Interval =>
          Cardinality(From(queue, t)) = Admitted(served, t)

\* The instance counts as this module does.
LEMMA SlideSince == \A t : Slide!Since(t) = Admitted(served, t)
BY DEF Slide!Since, Slide!Counted, Slide!Times, Slide!Cardinality, Admitted, Counted, Times,
       Cardinality

\* And so of what passed the mutex.
LEMMA SlideCounts ==
    \A f, t : Slide!Counted(f, {u \in Slide!Times : u >= t}) = Admitted(f, t)
BY DEF Slide!Counted, Slide!Times, Slide!Cardinality, Admitted, Counted, Times, Cardinality

\* An instance has its own Times, which are the same.
LEMMA SlideTimes == Slide!Times = Times
BY DEF Slide!Times, Times

\* One admission more counts in the stretches that it is in.
LEMMA AdmittedMore ==
    ASSUME NEW f, NEW g, NEW n, OneMore(f, g, n), NEW t \in Int
    PROVE  Admitted(g, t) = Admitted(f, t) + (IF n >= t THEN 1 ELSE 0)
<1> USE DEF OneMore
<1> DEFINE T == {u \in Times : u >= t}
<1>1. T \in SUBSET Times /\ (n \in T <=> n >= t)
  OBVIOUS
<1> HIDE DEF T
<1>2. Counted(g, T) = Counted(f, T) + (IF n \in T THEN 1 ELSE 0)
  BY <1>1, CountedMore
<1> QED BY <1>1, <1>2 DEF Admitted, T

\* A number of admissions is a number.
LEMMA AdmittedSize ==
    ASSUME NEW f \in [Times -> Nat], NEW t
    PROVE  Admitted(f, t) \in Nat
<1>1. {u \in Times : u >= t} \in SUBSET Times
  OBVIOUS
<1> QED BY <1>1, CellsFinite DEF Admitted

\* From an earlier time on there are no fewer.
LEMMA AdmittedFrom ==
    ASSUME NEW f \in [Times -> Nat], NEW s \in Int, NEW t \in Int, t >= s
    PROVE  Admitted(f, t) <= Admitted(f, s)
<1> DEFINE S == {u \in Times : u >= s}
           T == {u \in Times : u >= t}
<1>1. S \in SUBSET Times /\ T \in SUBSET Times /\ T \ S = {}
  BY HorizonAssumption DEF Times
<1> HIDE DEF S, T
<1>2. Counted(f, T) <= Counted(f, S)
  BY <1>1, CountedSubset
<1> QED BY <1>2 DEF Admitted, S, T

\* The limiter as it is made.
LEMMA SlideInit == Slide!Init => SlideInv
<1> SUFFICES ASSUME Slide!Init PROVE SlideInv
  OBVIOUS
<1> USE HorizonAssumption, RateAssumption
<1>1. /\ queue = <<>> /\ served = [t \in Slide!Times |-> 0] /\ newest = 0 /\ clock = 0
      /\ served \in [Times -> Nat] /\ \A t \in Times : served[t] = 0
      /\ passed = [t \in Slide!Times |-> 0]
  BY SlideTimes DEF Slide!Init
<1>2. Slide!TypeOK
  <2>1. queue \in Seq(Slide!Times) /\ Len(queue) = 0
    BY <1>1
  <2>2. 0 \in Slide!Times
    BY SlideTimes DEF Times
  <2>3. served \in [Slide!Times -> Nat] /\ passed \in [Slide!Times -> Nat]
    BY <1>1, SlideTimes
  <2>4. clock \in Slide!Times /\ newest \in Slide!Times
    BY <1>1, <2>2
  <2>5. place \in [Requests -> {"idle", "lock"}] /\ current \in [Requests -> Slide!Times]
    BY <2>2 DEF Slide!Init
  <2>6. Len(queue) <= MaxRate + 1
    BY <2>1
  <2> QED BY <2>1, <2>3, <2>4, <2>5, <2>6 DEF Slide!TypeOK
<1>3. ASSUME NEW t \in Int PROVE Cardinality(From(queue, t)) = Admitted(served, t)
  <2>1. Admitted(served, t) = 0
    BY <1>1, CountedNone DEF Admitted
  <2>2. From(queue, t) = {}
    BY <1>1 DEF From
  <2> QED BY <2>1, <2>2, FS_EmptySet
<1> QED BY <1>2, <1>3 DEF SlideInv

\* A request leaves the critical section with the queue q, or with its own
\* time stamp behind q, where q has every time stamp the newest window holds.
LEMMA SlideLeave ==
    ASSUME SlideInv, NEW r \in Requests, Slide!Leave(r),
           NEW q \in Seq(Times), Len(q) <= Len(queue),
           \A t \in Int : t >= current[r] - Interval =>
              Cardinality(From(q, t)) = Cardinality(From(queue, t)),
           \/ Slide!Reject(r, q)
           \/ Len(q) <= MaxRate /\ Slide!Admit(r, q)
    PROVE  SlideInv'
<1> USE HorizonAssumption, RateAssumption, IntervalAssumption
<1> DEFINE c == current[r]
<1>t. /\ clock \in Times /\ place \in [Requests -> {"idle", "lock"}]
      /\ current \in [Requests -> Times] /\ queue \in Seq(Times) /\ Len(queue) <= MaxRate + 1
      /\ newest \in Times /\ served \in [Times -> Nat] /\ c \in Times
      /\ passed \in [Times -> Nat]
  BY SlideTimes DEF SlideInv, Slide!TypeOK
<1>i. Times \subseteq Int /\ 0 \in Times
  BY DEF Times
<1>q. \A t \in Int : t >= c - Interval => Cardinality(From(q, t)) = Cardinality(From(queue, t))
  OBVIOUS
<1>1. /\ clock' = clock /\ place' \in [Requests -> {"idle", "lock"}]
      /\ current' \in [Requests -> Times]
      /\ newest' \in Times /\ newest' >= c /\ newest' >= newest
  <2>1. /\ clock' = clock /\ place' = [place EXCEPT ![r] = "idle"] /\ current' = [current EXCEPT ![r] = 0]
        /\ newest' = IF c > newest THEN c ELSE newest
    BY DEF Slide!Leave
  <2>2. c \in Int /\ newest \in Int
    BY <1>t, <1>i
  <2> HIDE DEF c
  <2>3. newest' \in Times /\ newest' >= c /\ newest' >= newest
    BY <1>t, <2>1, <2>2
  <2> QED BY <1>t, <1>i, <2>1, <2>3
<1>2. ASSUME NEW t \in Int, t >= newest' - Interval
      PROVE  /\ Cardinality(From(q, t)) = Admitted(served, t)
             /\ Cardinality(From(q, t)) \in Nat
  <2>1. t >= c - Interval /\ t >= newest - Interval
    <3>1. c \in Int /\ newest \in Int /\ newest' \in Int
      BY <1>1, <1>t, <1>i
    <3>2. newest' >= c /\ newest' >= newest /\ t >= newest' - Interval
      BY <1>1, <1>2
    <3>3. \A a, b, n \in Int : a >= n /\ b >= a - Interval => b >= n - Interval
      OBVIOUS
    <3> HIDE DEF c
    <3> QED BY <3>1, <3>2, <3>3, Zenon
  <2>2. Cardinality(From(queue, t)) = Admitted(served, t)
    BY <2>1 DEF SlideInv
  <2> QED BY <1>q, <2>1, <2>2, FromSize
<1>l. Len(queue) \in Nat /\ Len(q) \in Nat
  BY <1>t, LenProperties
<1>3. CASE Slide!Reject(r, q)
  <2>1. queue' = q /\ served' = served /\ passed' = passed
    BY <1>3 DEF Slide!Reject
  <2>2. Len(q) <= MaxRate + 1
    BY <1>l, <1>t
  <2>3. Slide!TypeOK'
    BY <1>1, <1>t, <2>1, <2>2, SlideTimes DEF Slide!TypeOK
  <2>4. \A t \in Int : t >= newest' - Interval =>
          Cardinality(From(queue', t)) = Admitted(served', t)
    BY <1>2, <2>1
  <2> QED BY <2>3, <2>4 DEF SlideInv
<1>4. CASE Len(q) <= MaxRate /\ Slide!Admit(r, q)
  <2>1. /\ queue' = Append(q, c) /\ served' \in [Times -> Nat] /\ served'[c] = served[c] + 1
        /\ \A u \in Times : u # c => served'[u] = served[u]
        /\ passed' \in [Times -> Nat]
    BY <1>4, <1>t DEF Slide!Admit
  <2>2. Append(q, c) \in Seq(Times) /\ Len(Append(q, c)) = Len(q) + 1
    BY <1>t, AppendProperties
  <2>3. Len(Append(q, c)) <= MaxRate + 1
    BY <1>4, <1>l, <2>2
  <2>4. Slide!TypeOK'
    BY <1>1, <1>t, <2>1, <2>2, <2>3, SlideTimes DEF Slide!TypeOK
  <2>5. ASSUME NEW t \in Int, t >= newest' - Interval
        PROVE  Cardinality(From(queue', t)) = Admitted(served', t)
    <3>1. Cardinality(From(Append(q, c), t))
            = Cardinality(From(q, t)) + (IF c >= t THEN 1 ELSE 0)
      BY <1>t, FromAppend
    <3>2. Admitted(served', t) = Admitted(served, t) + (IF c >= t THEN 1 ELSE 0)
      <4>1. OneMore(served, served', c)
        BY <1>t, <2>1 DEF OneMore
      <4> HIDE DEF c
      <4> QED BY <2>5, <4>1, AdmittedMore
    <3> QED BY <1>2, <2>1, <2>5, <3>1, <3>2
  <2> QED BY <2>4, <2>5 DEF SlideInv
<1> QED BY <1>3, <1>4

\* Every step keeps the queue's account of the admissions.
LEMMA SlideStep ==
    ASSUME SlideInv, [Slide!Next]_Slide!vars
    PROVE  SlideInv'
<1> USE HorizonAssumption, RateAssumption, IntervalAssumption
<1>t. /\ clock \in Times /\ current \in [Requests -> Times] /\ queue \in Seq(Times)
      /\ Len(queue) \in Nat
  BY SlideTimes, LenProperties DEF SlideInv, Slide!TypeOK
<1>1. CASE Slide!Tick
  <2>1. /\ UNCHANGED <<place, current, queue, newest, served, passed>>
        /\ clock' \in Times
    BY <1>1, <1>t DEF Slide!Tick, Times
  <2> QED BY <2>1, SlideTimes DEF SlideInv, Slide!TypeOK
<1>2. ASSUME NEW r \in Requests, Slide!Arrive(r) PROVE SlideInv'
  <2>1. /\ UNCHANGED <<clock, queue, newest, served, passed>>
        /\ place' = [place EXCEPT ![r] = "lock"] /\ current' = [current EXCEPT ![r] = clock]
    BY <1>2 DEF Slide!Arrive
  <2>2. Slide!TypeOK'
    BY <2>1 DEF SlideInv, Slide!TypeOK
  <2> QED BY <2>1, <2>2 DEF SlideInv
<1>3. ASSUME NEW r \in Requests, Slide!FastPath(r) PROVE SlideInv'
  <2>1. Slide!Leave(r) /\ Slide!Admit(r, queue) /\ Len(queue) <= MaxRate
    BY <1>3, <1>t DEF Slide!FastPath
  <2> QED BY <1>t, <2>1, SlideLeave
<1>4. ASSUME NEW r \in Requests, Slide!SlowPath(r) PROVE SlideInv'
  <2> DEFINE q == Slide!Evict(queue, current[r] - Interval)
  <2>1. Slide!Leave(r) /\ (IF Len(q) > MaxRate THEN Slide!Reject(r, q) ELSE Slide!Admit(r, q))
    BY <1>4 DEF Slide!SlowPath
  <2>2. current[r] - Interval \in Int
    BY <1>t DEF Times
  <2>3. /\ q \in Seq(Times) /\ Len(q) <= Len(queue)
        /\ \A t \in Int : t >= current[r] - Interval =>
              Cardinality(From(q, t)) = Cardinality(From(queue, t))
    <3>1. ASSUME NEW t \in Int, t >= current[r] - Interval
          PROVE  Cardinality(From(q, t)) = Cardinality(From(queue, t))
      <4>1. current[r] - Interval <= t
        BY <2>2, <3>1
      <4> QED BY <1>t, <2>2, <4>1, EvictKeeps
    <3>2. q \in Seq(Times) /\ Len(q) <= Len(queue)
      <4>1. current[r] - Interval <= current[r] - Interval
        BY <2>2
      <4> QED BY <1>t, <2>2, <4>1, EvictKeeps
    <3> QED BY <3>1, <3>2
  <2> HIDE DEF q
  <2>4. Len(q) \in Nat
    BY <2>3, LenProperties
  <2>n. Len(q) <= MaxRate => ~(Len(q) > MaxRate)
    BY <2>4
  <2>5. Len(q) > MaxRate \/ Len(q) <= MaxRate
    BY <2>4
  <2>6. Slide!Reject(r, q) \/ (Len(q) <= MaxRate /\ Slide!Admit(r, q))
    BY <2>1, <2>5, <2>n, Zenon
  <2> QED BY <1>4, <2>1, <2>3, <2>6, SlideLeave, Zenon
<1>5. CASE UNCHANGED Slide!vars
  BY <1>5 DEF Slide!vars, SlideInv, Slide!TypeOK
<1> QED BY <1>1, <1>2, <1>3, <1>4, <1>5 DEF Slide!Next

\* SlideInv holds in every state (slide_window.go:33-63).
LEMMA SlideInvariant == Slide!Spec => []SlideInv
<1>1. SlideInv /\ [Slide!Next]_Slide!vars => SlideInv'
  BY SlideStep
<1> QED BY <1>1, SlideInit, PTL DEF Slide!Spec

\* The window that ends with the newest time stamp holds at most maxRate + 1
\* requests, however many pass the mutex in whatever order.  About the eviction
\* and the comparison after it (slide_window.go:41-54).
THEOREM NewestWindowBounded == Slide!Spec => []NewestWindow
<1>1. SlideInv => NewestWindow
  <2> SUFFICES ASSUME SlideInv PROVE NewestWindow
    OBVIOUS
  <2>t. /\ queue \in Seq(Times) /\ Len(queue) <= MaxRate + 1 /\ newest - Interval \in Int
        /\ newest - Interval >= newest - Interval /\ Len(queue) \in Nat
    BY SlideTimes, LenProperties, HorizonAssumption, IntervalAssumption
       DEF SlideInv, Slide!TypeOK, Times
  <2>1. Cardinality(From(queue, newest - Interval)) = Admitted(served, newest - Interval)
    BY <2>t DEF SlideInv
  <2>2. /\ Cardinality(From(queue, newest - Interval)) \in Nat
        /\ Cardinality(From(queue, newest - Interval)) <= Len(queue)
    BY <2>t, FromSize
  <2>3. Admitted(served, newest - Interval) <= MaxRate + 1
    BY <2>t, <2>1, <2>2, RateAssumption
  <2> QED BY <2>3, SlideSince DEF NewestWindow, Slide!NewestWindow
<1> QED BY <1>1, SlideInvariant, PTL

\* The requests from i on in the queue, and perhaps more, came through when the
\* clock had reached the time stamp of i.
Behind(i) == Len(queue) - i + 1 <= Admitted(passed, queue[i])

BehindInv ==
    /\ \A r \in Requests : current[r] <= clock
    /\ \A i \in DOMAIN queue : queue[i] <= clock /\ Behind(i)

\* The limiter as it is made.
LEMMA BehindInit == Slide!Init => BehindInv
<1> SUFFICES ASSUME Slide!Init PROVE BehindInv
  OBVIOUS
<1>1. DOMAIN queue = {}
  BY DEF Slide!Init
<1>2. \A r \in Requests : current[r] <= clock
  BY DEF Slide!Init
<1> QED BY <1>1, <1>2 DEF BehindInv

\* Eviction leaves the back of the queue.
LEMMA EvictBehind ==
    ASSUME SlideInv, BehindInv, NEW t \in Int
    PROVE  /\ Slide!Evict(queue, t) \in Seq(Times)
           /\ \A i \in DOMAIN Slide!Evict(queue, t) :
                 /\ Slide!Evict(queue, t)[i] <= clock
                 /\ Len(Slide!Evict(queue, t)) - i + 1
                      <= Admitted(passed, Slide!Evict(queue, t)[i])
           /\ Len(Slide!Evict(queue, t)) > 0 => Slide!Evict(queue, t)[1] >= t
<1> DEFINE e == Slide!Evict(queue, t)
           n == Len(queue)
<1>t. /\ queue \in Seq(Times) /\ n \in Nat /\ DOMAIN queue = 1 .. n
      /\ \A i \in DOMAIN queue : queue[i] \in Times
  BY SlideTimes, LenProperties DEF SlideInv, Slide!TypeOK
<1>1. CASE e = <<>>
  <2>1. Len(e) = 0 /\ DOMAIN e = {} /\ e \in Seq(Times)
    BY <1>1
  <2> HIDE DEF e
  <2>2. /\ e \in Seq(Times) /\ (Len(e) > 0 => e[1] >= t)
        /\ \A i \in DOMAIN e : e[i] <= clock /\ Len(e) - i + 1 <= Admitted(passed, e[i])
    BY <2>1
  <2> QED BY <2>2 DEF e
<1>2. ASSUME NEW m \in From(queue, t), e = SubSeq(queue, m, n)
      PROVE  /\ e \in Seq(Times) /\ (Len(e) > 0 => e[1] >= t)
             /\ \A i \in DOMAIN e : e[i] <= clock /\ Len(e) - i + 1 <= Admitted(passed, e[i])
  <2>1. m \in 1 .. n /\ m \in DOMAIN queue /\ queue[m] >= t
    BY <1>t DEF From
  <2>2. /\ SubSeq(queue, m, n) \in Seq(Times)
        /\ Len(SubSeq(queue, m, n)) = n - m + 1
        /\ \A i \in 1 .. n - m + 1 : SubSeq(queue, m, n)[i] = queue[m + i - 1]
    <3>1. \A i \in m .. n : queue[i] \in Times
      BY <1>t, <2>1
    <3> HIDE DEF n
    <3>2. m <= n /\ m \in Int /\ n \in Int
      BY <1>t, <2>1
    <3> QED BY <3>1, <3>2, SubSeqProperties
  <2> HIDE DEF e
  <2>3. e \in Seq(Times) /\ Len(e) = n - m + 1 /\ DOMAIN e = 1 .. n - m + 1
    BY <1>2, <2>2, LenProperties
  <2>4. Len(e) > 0 => e[1] >= t
    <3>1. 1 \in 1 .. n - m + 1 /\ m + 1 - 1 = m
      BY <1>t, <2>1
    <3> QED BY <1>2, <2>1, <2>2, <3>1
  <2>5. ASSUME NEW i \in DOMAIN e
        PROVE  e[i] <= clock /\ Len(e) - i + 1 <= Admitted(passed, e[i])
    <3>1. i \in 1 .. n - m + 1 /\ m + i - 1 \in 1 .. n
      BY <1>t, <2>1, <2>3, <2>5
    <3>2. e[i] = queue[m + i - 1] /\ m + i - 1 \in DOMAIN queue
      BY <1>2, <1>t, <2>2, <3>1
    <3>3. queue[m + i - 1] <= clock /\ n - (m + i - 1) + 1 <= Admitted(passed, queue[m + i - 1])
      BY <3>2 DEF BehindInv, Behind
    <3>4. n - (m + i - 1) + 1 = Len(e) - i + 1
      BY <1>t, <2>1, <2>3, <3>1
    <3> QED BY <3>2, <3>3, <3>4
  <2> QED BY <2>3, <2>4, <2>5
<1>3. t \in Int /\ (e = <<>> \/ \E m \in From(queue, t) : e = SubSeq(queue, m, n))
  BY <1>t, EvictTakes
<1> HIDE DEF e, n
<1>4. /\ e \in Seq(Times) /\ (Len(e) > 0 => e[1] >= t)
      /\ \A i \in DOMAIN e : e[i] <= clock /\ Len(e) - i + 1 <= Admitted(passed, e[i])
  <2>1. CASE e = <<>>
    <3>1. Len(e) = 0 /\ DOMAIN e = {} /\ e \in Seq(Times)
      BY <2>1
    <3> QED BY <3>1
  <2> QED BY <1>2, <1>3, <2>1
<1> QED BY <1>4 DEF e

\* A request leaves the critical section with the back q of the queue, or with
\* its own time stamp behind q.
LEMMA BehindLeave ==
    ASSUME SlideInv, BehindInv, NEW r \in Requests, Slide!Leave(r), NEW q \in Seq(Times),
           \A i \in DOMAIN q : q[i] <= clock /\ Len(q) - i + 1 <= Admitted(passed, q[i]),
           Slide!Reject(r, q) \/ Slide!Admit(r, q)
    PROVE  BehindInv'
<1> USE HorizonAssumption
<1> DEFINE c == current[r]
<1>t. /\ clock \in Times /\ clock \in Nat /\ current \in [Requests -> Times]
      /\ passed \in [Times -> Nat] /\ c \in Times /\ c <= clock
      /\ Len(q) \in Nat /\ DOMAIN q = 1 .. Len(q) /\ \A i \in DOMAIN q : q[i] \in Times
  <2>1. /\ clock \in Times /\ current \in [Requests -> Times] /\ passed \in [Times -> Nat]
    BY SlideTimes DEF SlideInv, Slide!TypeOK
  <2>2. c \in Times /\ c <= clock
    BY <2>1 DEF BehindInv
  <2>3. clock \in Nat
    BY <2>1 DEF Times
  <2> HIDE DEF c
  <2>4. Len(q) \in Nat /\ DOMAIN q = 1 .. Len(q) /\ \A i \in DOMAIN q : q[i] \in Times
    BY LenProperties
  <2> QED BY <2>1, <2>2, <2>3, <2>4
<1>i. Times \subseteq Nat
  BY DEF Times
<1>1. clock' = clock /\ \A p \in Requests : current'[p] <= clock
  BY <1>t DEF Slide!Leave, BehindInv
<1>2. CASE Slide!Reject(r, q)
  <2>1. queue' = q /\ passed' = passed
    BY <1>2 DEF Slide!Reject
  <2>2. \A i \in DOMAIN queue' :
           queue'[i] <= clock' /\ Len(queue') - i + 1 <= Admitted(passed', queue'[i])
    BY <1>1, <2>1
  <2> QED BY <1>1, <2>2 DEF BehindInv, Behind
<1>3. CASE Slide!Admit(r, q)
  <2>1. /\ queue' = Append(q, c) /\ passed' \in [Times -> Nat] /\ passed'[clock] = passed[clock] + 1
        /\ \A u \in Times : u # clock => passed'[u] = passed[u]
    BY <1>3, <1>t DEF Slide!Admit
  <2>2. /\ Len(Append(q, c)) = Len(q) + 1 /\ DOMAIN Append(q, c) = 1 .. Len(q) + 1
        /\ Append(q, c)[Len(q) + 1] = c
        /\ \A i \in 1 .. Len(q) : Append(q, c)[i] = q[i]
    BY <1>t, AppendProperties
  <2>3. OneMore(passed, passed', clock)
    BY <1>t, <2>1 DEF OneMore
  <2>4. ASSUME NEW t \in Times, t <= clock
        PROVE  /\ Admitted(passed', t) = Admitted(passed, t) + 1
               /\ Admitted(passed, t) \in Nat
    <3>1. t \in Int /\ clock >= t
      BY <1>i, <1>t, <2>4
    <3>2. Admitted(passed', t) = Admitted(passed, t) + (IF clock >= t THEN 1 ELSE 0)
      BY <2>3, <3>1, AdmittedMore
    <3>3. Admitted(passed, t) \in Nat
      BY <1>t, AdmittedSize
    <3> QED BY <3>1, <3>2, <3>3
  <2>5. ASSUME NEW i \in 1 .. Len(q) + 1
        PROVE  /\ Append(q, c)[i] <= clock
               /\ Len(q) + 1 - i + 1 <= Admitted(passed', Append(q, c)[i])
    <3>1. CASE i \in 1 .. Len(q)
      <4>1. Append(q, c)[i] = q[i] /\ q[i] \in Times /\ q[i] <= clock
        BY <1>t, <2>2, <3>1
      <4>2. Len(q) - i + 1 <= Admitted(passed, q[i])
        BY <1>t, <3>1
      <4>3. Admitted(passed', q[i]) = Admitted(passed, q[i]) + 1 /\ Admitted(passed, q[i]) \in Nat
        BY <2>4, <4>1
      <4> QED BY <1>t, <3>1, <4>1, <4>2, <4>3
    <3>2. CASE i = Len(q) + 1
      <4>1. Append(q, c)[i] = c /\ c \in Times /\ c <= clock
        BY <1>t, <2>2, <3>2
      <4>2. Admitted(passed', c) = Admitted(passed, c) + 1 /\ Admitted(passed, c) \in Nat
        BY <2>4, <4>1
      <4> QED BY <1>t, <3>2, <4>1, <4>2
    <3> QED BY <1>t, <3>1, <3>2
  <2>6. \A i \in DOMAIN queue' :
           queue'[i] <= clock' /\ Len(queue') - i + 1 <= Admitted(passed', queue'[i])
    BY <1>1, <2>1, <2>2, <2>5
  <2> QED BY <1>1, <2>6 DEF BehindInv, Behind
<1> QED BY <1>2, <1>3

\* Every step keeps it.
LEMMA BehindStep ==
    ASSUME SlideInv, BehindInv, [Slide!Next]_Slide!vars
    PROVE  BehindInv'
<1> USE HorizonAssumption, IntervalAssumption
<1>t. /\ clock \in Nat /\ current \in [Requests -> Times] /\ queue \in Seq(Times)
      /\ DOMAIN queue = 1 .. Len(queue) /\ \A i \in DOMAIN queue : queue[i] \in Nat
      /\ \A r \in Requests : current[r] \in Nat
  BY SlideTimes, LenProperties DEF SlideInv, Slide!TypeOK, Times
<1>1. CASE Slide!Tick
  <2>1. UNCHANGED <<current, queue, passed>> /\ clock' = clock + 1
    BY <1>1 DEF Slide!Tick
  <2>2. \A x \in Nat : x <= clock => x <= clock'
    BY <1>t, <2>1
  <2> QED BY <1>t, <2>1, <2>2 DEF BehindInv, Behind
<1>2. ASSUME NEW r \in Requests, Slide!Arrive(r) PROVE BehindInv'
  <2>1. UNCHANGED <<clock, queue, passed>> /\ current' = [current EXCEPT ![r] = clock]
    BY <1>2 DEF Slide!Arrive
  <2>2. \A p \in Requests : current'[p] <= clock
    BY <1>t, <2>1 DEF BehindInv
  <2> QED BY <2>1, <2>2 DEF BehindInv, Behind
<1>3. ASSUME NEW r \in Requests, Slide!FastPath(r) PROVE BehindInv'
  <2>1. Slide!Leave(r) /\ Slide!Admit(r, queue)
    BY <1>3 DEF Slide!FastPath
  <2>2. \A i \in DOMAIN queue :
           queue[i] <= clock /\ Len(queue) - i + 1 <= Admitted(passed, queue[i])
    BY DEF BehindInv, Behind
  <2> QED BY <1>t, <2>1, <2>2, BehindLeave
<1>4. ASSUME NEW r \in Requests, Slide!SlowPath(r) PROVE BehindInv'
  <2> DEFINE q == Slide!Evict(queue, current[r] - Interval)
  <2>1. Slide!Leave(r) /\ (Slide!Reject(r, q) \/ Slide!Admit(r, q))
    BY <1>4 DEF Slide!SlowPath
  <2>2. current[r] - Interval \in Int
    BY <1>t
  <2>3. /\ q \in Seq(Times)
        /\ \A i \in DOMAIN q : q[i] <= clock /\ Len(q) - i + 1 <= Admitted(passed, q[i])
    BY <2>2, EvictBehind
  <2> HIDE DEF q
  <2> QED BY <2>1, <2>3, BehindLeave
<1>5. CASE UNCHANGED Slide!vars
  BY <1>5 DEF Slide!vars, BehindInv, Behind
<1> QED BY <1>1, <1>2, <1>3, <1>4, <1>5 DEF Slide!Next

\* A request is rejected only if more than maxRate requests came through since
\* its own window began, in whatever order time stamps reach the mutex.  About
\* the eviction at the queue's front (slide_window.go:41-51).
THEOREM RejectedOnlyWhenFull == Slide!Spec => RejectedIsFull
<1> DEFINE Rightly ==
      \A r \in Requests :
         place[r] = "lock" /\ place'[r] = "idle" /\ passed' = passed
         => Slide!Counted(passed, {t \in Slide!Times : t >= current[r] - Interval}) > MaxRate
<1>1. ASSUME SlideInv, BehindInv, [Slide!Next]_Slide!vars PROVE Rightly
  <2> SUFFICES ASSUME NEW r \in Requests, place[r] = "lock", place'[r] = "idle", passed' = passed
               PROVE  Slide!Counted(passed, {t \in Slide!Times : t >= current[r] - Interval})
                        > MaxRate
    OBVIOUS
  <2> USE HorizonAssumption, RateAssumption, IntervalAssumption
  <2> DEFINE s == current[r] - Interval
             q == Slide!Evict(queue, s)
  <2>t. /\ place \in [Requests -> {"idle", "lock"}] /\ s \in Int /\ clock \in Times
        /\ passed \in [Times -> Nat]
    BY <1>1, SlideTimes DEF SlideInv, Slide!TypeOK, Times
  <2>1. ASSUME NEW p \in Requests, Slide!FastPath(p) \/ Slide!SlowPath(p), p # r PROVE FALSE
    BY <2>1, <2>t DEF Slide!FastPath, Slide!SlowPath, Slide!Leave
  <2>2. ~Slide!Admit(r, queue) /\ ~Slide!Admit(r, q)
    BY <2>t DEF Slide!Admit
  <2>3. Slide!FastPath(r) \/ Slide!SlowPath(r)
    BY <1>1, <2>1, <2>t DEF Slide!Next, Slide!vars, Slide!Tick, Slide!Arrive
  <2>4. Len(q) > MaxRate
    BY <2>2, <2>3 DEF Slide!FastPath, Slide!SlowPath
  <2>5. /\ q \in Seq(Times) /\ (Len(q) > 0 => q[1] >= s)
        /\ \A i \in DOMAIN q : Len(q) - i + 1 <= Admitted(passed, q[i])
    BY <1>1, <2>t, EvictBehind
  <2> HIDE DEF q, s
  <2>6. Len(q) \in Nat /\ DOMAIN q = 1 .. Len(q) /\ 1 \in DOMAIN q /\ q[1] \in Times
    BY <2>4, <2>5, LenProperties
  <2>7. Len(q) <= Admitted(passed, q[1]) /\ q[1] >= s
    BY <2>4, <2>5, <2>6
  <2>8. /\ Admitted(passed, q[1]) \in Nat /\ Admitted(passed, s) \in Nat
        /\ Admitted(passed, q[1]) <= Admitted(passed, s)
    <3>1. q[1] \in Int
      BY <2>6 DEF Times
    <3> QED BY <2>t, <2>7, <3>1, AdmittedSize, AdmittedFrom
  <2>9. Admitted(passed, s) > MaxRate
    BY <2>4, <2>6, <2>7, <2>8
  <2> QED BY <2>9, SlideCounts DEF s
<1>2. SlideInv /\ BehindInv /\ [Slide!Next]_Slide!vars => [Rightly]_Slide!vars
  BY <1>1
<1>3. SlideInv /\ BehindInv /\ [Slide!Next]_Slide!vars => BehindInv'
  BY BehindStep
<1> QED BY <1>2, <1>3, BehindInit, SlideInvariant, PTL
       DEF Slide!Spec, RejectedIsFull, Slide!RejectedIsFull

-----------------------------------------------------------------------------
\* The buckets.

\* A credit that waits is worth a request: with it the bound is inductive.
BucketInv ==
    /\ fired \in Nat /\ credit \in 0 .. Capacity /\ taken \in Nat
    /\ taken + credit <= fired + Capacity

\* No stretch of time lets more than Capacity requests through beyond the
\* firings in it.  About the channels that hold the tokens
\* (token_bucket.go:24-39, leaky_bucket.go:20,37).
THEOREM BurstIsBounded ==
    ASSUME Capacity \in Nat
    PROVE  Full!Spec => []Full!BurstBounded
<1>1. Full!Init => BucketInv
  BY DEF Full!Init, BucketInv
<1>2. BucketInv /\ [Full!Next]_Full!vars => BucketInv'
  <2> SUFFICES ASSUME BucketInv, [Full!Next]_Full!vars PROVE BucketInv'
    OBVIOUS
  <2> USE DEF BucketInv
  <2>1. CASE Full!Fire
    <3>1. fired' = fired + 1 /\ taken' = taken
      BY <2>1 DEF Full!Fire
    <3>2. credit' = credit \/ credit' = credit + 1
      BY <2>1 DEF Full!Fire
    <3>3. credit' <= Capacity
      BY <2>1 DEF Full!Fire
    <3> QED BY <3>1, <3>2, <3>3
  <2>2. CASE Full!Grant
    BY <2>2 DEF Full!Grant
  <2>3. CASE Full!Spill
    BY <2>3 DEF Full!Spill
  <2>4. CASE Full!Observe
    BY <2>4 DEF Full!Observe
  <2>5. CASE UNCHANGED Full!vars
    BY <2>5 DEF Full!vars
  <2> QED BY <2>1, <2>2, <2>3, <2>4, <2>5 DEF Full!Next
<1>3. BucketInv => Full!BurstBounded
  BY DEF BucketInv, Full!BurstBounded
<1> QED BY <1>1, <1>2, <1>3, PTL DEF Full!Spec

-----------------------------------------------------------------------------
\* Every step of the limiter keeps its types.
LEMMA TokenTypes ==
    ASSUME Token!TypeOK, [Token!Next]_Token!vars
    PROVE  Token!TypeOK'
<1> USE HorizonAssumption, BufferAssumption DEF Token!TypeOK
<1>1. CASE Token!Fire
  BY <1>1 DEF Token!Fire
<1>2. CASE Token!ReceiveTick \/ Token!ReceiveClose
  BY <1>2 DEF Token!ReceiveTick, Token!ReceiveClose
<1>3. CASE Token!SendToken
  <2>1. tokens' \in 0 .. Buffer
    BY <1>3 DEF Token!SendToken
  <2>2. tick' \in BOOLEAN /\ producer' \in {"select", "send", "ended"}
    BY <1>3 DEF Token!SendToken
  <2>3. fired' \in 0 .. Horizon /\ taken' \in Nat /\ closed' \in BOOLEAN
    BY <1>3 DEF Token!SendToken
  <2> QED BY <2>1, <2>2, <2>3
<1>4. ASSUME NEW done \in BOOLEAN, Token!Intercept(done) PROVE Token!TypeOK'
  BY <1>4 DEF Token!Intercept
<1>5. CASE Token!Close \/ Token!Observe
  <2>1. fired' \in 0 .. Horizon /\ taken' \in Nat /\ tokens' \in 0 .. Buffer
    BY <1>5 DEF Token!Close, Token!Observe
  <2>2. closed' \in BOOLEAN /\ tick' \in BOOLEAN /\ producer' \in {"select", "send", "ended"}
    BY <1>5 DEF Token!Close, Token!Observe
  <2> QED BY <2>1, <2>2
<1>6. CASE UNCHANGED Token!vars
  BY <1>6 DEF Token!vars
<1> QED BY <1>1, <1>2, <1>3, <1>4, <1>5, <1>6 DEF Token!Next

\* Every step of the limiter is one of the bucket, or changes nothing of it.
LEMMA TokenSteps ==
    ASSUME Token!TypeOK, [Token!Next]_Token!vars
    PROVE  [Token!AsBucket!Next]_Token!AsBucket!vars
<1> USE HorizonAssumption, BufferAssumption DEF Token!TypeOK, Token!Waiting, Token!AsBucket!vars, Token!AsBucket!Next
<1>1. CASE Token!Fire
  BY <1>1 DEF Token!Fire, Token!AsBucket!Fire
<1>2. CASE Token!ReceiveTick
  BY <1>2 DEF Token!ReceiveTick
<1>3. CASE Token!ReceiveClose
  BY <1>3 DEF Token!ReceiveClose
<1>4. CASE Token!SendToken
  <2>1. CASE tokens < Buffer
    BY <1>4, <2>1 DEF Token!SendToken
  <2>2. CASE ~(tokens < Buffer)
    BY <1>4, <2>2 DEF Token!SendToken, Token!AsBucket!Spill
  <2> QED BY <2>1, <2>2
<1>5. ASSUME NEW done \in BOOLEAN, Token!Intercept(done)
      PROVE  [Token!AsBucket!Next]_Token!AsBucket!vars
  <2>1. CASE tokens' = tokens - 1 /\ tokens > 0 /\ taken' = taken + 1
    BY <1>5, <2>1 DEF Token!Intercept, Token!AsBucket!Grant
  <2>2. CASE UNCHANGED <<tokens, taken>>
    BY <1>5, <2>2 DEF Token!Intercept
  <2> QED BY <1>5, <2>1, <2>2 DEF Token!Intercept
<1>6. CASE Token!Close
  BY <1>6 DEF Token!Close
<1>7. CASE Token!Observe
  BY <1>7 DEF Token!Observe, Token!AsBucket!Observe
<1>8. CASE UNCHANGED Token!vars
  BY <1>8 DEF Token!vars
<1> QED BY <1>1, <1>2, <1>3, <1>4, <1>5, <1>6, <1>7, <1>8 DEF Token!Next

\* The bucket as the constructor makes it.
LEMMA TokenInit == Token!Init => Token!TypeOK
<1>1. Token!Init => tick \in BOOLEAN /\ producer \in {"select", "send", "ended"}
  BY DEF Token!Init
<1>2. Token!Init => fired \in 0 .. Horizon /\ taken \in Nat /\ tokens \in 0 .. Buffer
  BY HorizonAssumption, BufferAssumption DEF Token!Init
<1>3. Token!Init => closed \in BOOLEAN
  BY DEF Token!Init
<1> QED BY <1>1, <1>2, <1>3 DEF Token!TypeOK

\* The token bucket is a bucket of buffer + 2, so its burst is bounded, for
\* every buffer (token_bucket.go:26-43, 105-120).
THEOREM TokenBucketRefines == Token!Spec => TokenIsBucket
<1>1. Token!Init => Token!TypeOK
  BY TokenInit
<1>2. Token!Init => Token!AsBucket!Init
  BY DEF Token!Init, Token!AsBucket!Init, Token!Waiting
<1>3. Token!TypeOK /\ [Token!Next]_Token!vars => Token!TypeOK'
  BY TokenTypes
<1>4. Token!TypeOK /\ [Token!Next]_Token!vars => [Token!AsBucket!Next]_Token!AsBucket!vars
  BY TokenSteps
<1> QED BY <1>1, <1>2, <1>3, <1>4, PTL
   DEF Token!Spec, TokenIsBucket, Token!IsBucket, Token!AsBucket!Spec

-----------------------------------------------------------------------------
\* Every step of the limiter keeps its types and is one of the bucket, or
\* changes nothing of it.
LEMMA LeakySteps ==
    ASSUME Leaky!TypeOK, [Leaky!Next]_Leaky!vars
    PROVE  Leaky!TypeOK' /\ [Leaky!AsBucket!Next]_Leaky!AsBucket!vars
<1> USE HorizonAssumption DEF Leaky!TypeOK, Leaky!AsBucket!vars, Leaky!AsBucket!Next
<1>1. CASE Leaky!Fire
  BY <1>1 DEF Leaky!Fire, Leaky!AsBucket!Fire
<1>2. CASE Leaky!CloseChannel \/ Leaky!StopTicker
  BY <1>2 DEF Leaky!CloseChannel, Leaky!StopTicker
<1>3. CASE Leaky!Observe
  BY <1>3 DEF Leaky!Observe, Leaky!AsBucket!Observe
<1>4. ASSUME NEW r \in Requests, Leaky!Arrive(r) \/ Leaky!GiveUp(r)
      PROVE  Leaky!TypeOK' /\ [Leaky!AsBucket!Next]_Leaky!AsBucket!vars
  BY <1>4 DEF Leaky!Arrive, Leaky!GiveUp
<1>5. ASSUME NEW r \in Requests, Leaky!TakeTick(r)
      PROVE  Leaky!TypeOK' /\ [Leaky!AsBucket!Next]_Leaky!AsBucket!vars
  <2>1. drip /\ ~drip' /\ drips' = drips /\ let' = let + 1
    BY <1>5 DEF Leaky!TakeTick
  <2>2. /\ drips' \in 0 .. Horizon /\ let' \in Nat /\ closing' \in {"no", "closed", "stopped"}
        /\ place' \in [Requests -> {"idle", "wait"}]
    BY <1>5, <2>1 DEF Leaky!TakeTick
  <2>3. drip' \in BOOLEAN
    BY <1>5 DEF Leaky!TakeTick
  <2>4. Leaky!AsBucket!Grant
    BY <2>1 DEF Leaky!AsBucket!Grant
  <2> QED BY <2>2, <2>3, <2>4
<1>6. CASE UNCHANGED Leaky!vars
  BY <1>6 DEF Leaky!vars
<1> QED BY <1>1, <1>2, <1>3, <1>4, <1>5, <1>6 DEF Leaky!Next

\* The bucket as the constructor makes it.
LEMMA LeakyInit == Leaky!Init => Leaky!TypeOK
<1>1. Leaky!Init => drip \in BOOLEAN
  BY DEF Leaky!Init
<1>2. Leaky!Init => /\ drips \in 0 .. Horizon /\ let \in Nat
                    /\ closing \in {"no", "closed", "stopped"}
                    /\ place \in [Requests -> {"idle", "wait"}]
  BY HorizonAssumption DEF Leaky!Init
<1> QED BY <1>1, <1>2 DEF Leaky!TypeOK

\* The leaky bucket is a bucket of one, so its burst is bounded, for any
\* requests.  About the select on producer.C (leaky_bucket.go:26-38).
THEOREM LeakyBucketRefines == Leaky!Spec => LeakyIsBucket
<1>1. Leaky!Init => Leaky!TypeOK /\ Leaky!AsBucket!Init
  BY LeakyInit DEF Leaky!Init, Leaky!AsBucket!Init
<1>2. Leaky!TypeOK /\ [Leaky!Next]_Leaky!vars => Leaky!TypeOK' /\ [Leaky!AsBucket!Next]_Leaky!AsBucket!vars
  BY LeakySteps
<1> QED BY <1>1, <1>2, PTL DEF Leaky!Spec, LeakyIsBucket, Leaky!IsBucket, Leaky!AsBucket!Spec

-----------------------------------------------------------------------------
(***************************************************************************)
(* Types of all limiters.                                                  *)
(***************************************************************************)
\* A time has given out no more than any stretch that it lies in.
LEMMA GivenAt ==
    ASSUME NEW f \in [Times -> Nat], NEW t \in Times, NEW u \in Int, t <= u
    PROVE  f[t] <= Given(f, t, u)
<1>1. t \in Within(t, u) /\ Within(t, u) \in SUBSET Times
  BY HorizonAssumption DEF Within, Times
<1>2. Cells(f, {t}) = {t} \X (1 .. f[t])
  BY DEF Cells
<1>3. Cardinality({t} \X (1 .. f[t])) = 1 * f[t]
  <2>1. IsFiniteSet(1 .. f[t]) /\ Cardinality(1 .. f[t]) = f[t]
    BY FS_Interval
  <2>2. IsFiniteSet({t}) /\ Cardinality({t}) = 1
    BY FS_Singleton
  <2> QED BY <2>1, <2>2, FS_Product
<1>4. Cells(f, {t}) \subseteq Cells(f, Within(t, u)) /\ IsFiniteSet(Cells(f, Within(t, u)))
  BY <1>1, CellsFinite DEF Cells
<1>5. Cardinality(Cells(f, {t})) <= Cardinality(Cells(f, Within(t, u)))
  BY <1>4, FS_Subset
<1>6. Given(f, t, u) = Cardinality(Cells(f, Within(t, u)))
  BY DEF Given, Counted, Cells
<1>7. f[t] \in Nat /\ 1 * f[t] = f[t]
  OBVIOUS
<1> QED BY <1>2, <1>3, <1>5, <1>6, <1>7, Zenon

\* The fixed window in Redis keeps its types.
LEMMA RedisFixTyped == RedisFixInv => RedisFix!TypeOK
<1> SUFFICES ASSUME RedisFixInv PROVE RedisFix!TypeOK
  OBVIOUS
<1>1. \A t \in Times : granted[t] \in 0 .. MaxRate * 2
  <2> SUFFICES ASSUME NEW t \in Times PROVE granted[t] \in 0 .. MaxRate * 2
    OBVIOUS
  <2>1. granted[t] \in Nat /\ granted \in [Times -> Nat]
    BY DEF RedisFixInv
  <2>2. t \in Int /\ t + Interval \in Int /\ t <= t + Interval
    BY HorizonAssumption, IntervalAssumption DEF Times
  <2>3. granted[t] <= Given(granted, t, t + Interval)
    BY <2>1, <2>2, GivenAt
  <2>4. Given(granted, t, t + Interval) <= 2 * MaxRate
    BY DEF RedisFixInv
  <2>5. Given(granted, t, t + Interval) \in Nat
    BY <2>1, <2>2, GivenType
  <2> QED BY <2>1, <2>3, <2>4, <2>5, RateAssumption
<1>2. granted \in [Times -> 0 .. MaxRate * 2]
  BY <1>1 DEF RedisFixInv
<1> QED BY <1>2 DEF RedisFixInv, RedisFix!TypeOK, RedisFix!Times, Times

\* Each limiter keeps its own invariant, whichever of them is in the chain.
AnyInv ==
    /\ limiter = "fix" => IInv
    /\ limiter = "slide" => SlideInv
    /\ limiter = "redisFix" => RedisFixInv
    /\ limiter = "redisSlide" => RedisSlideInv
    /\ limiter = "token" => Token!TypeOK
    /\ limiter = "leaky" => Leaky!TypeOK

\* A step is one of the limiter that is there.
LEMMA AnySteps ==
    ASSUME [LimiterNext]_limiterVars
    PROVE  /\ limiter' = limiter
           /\ limiter = "fix" => [Fix!Next]_Fix!vars
           /\ limiter = "slide" => [Slide!Next]_Slide!vars
           /\ limiter = "redisFix" => [RedisFix!Next]_RedisFix!vars
           /\ limiter = "redisSlide" => [RedisSlide!Next]_RedisSlide!vars
           /\ limiter = "token" => [Token!Next]_Token!vars
           /\ limiter = "leaky" => [Leaky!Next]_Leaky!vars
<1>1. CASE LimiterNext
  BY <1>1 DEF LimiterNext, FixNext, SlideNext, RedisFixNext, RedisSlideNext, TokenNext, LeakyNext
<1>2. CASE UNCHANGED limiterVars
  BY <1>2 DEF limiterVars, windowVars, bucketOnly, fixOnly, slideOnly, redisFixOnly,
              redisSlideOnly, tokenOnly, leakyOnly, Fix!vars, Slide!vars, RedisFix!vars,
              RedisSlide!vars, Token!vars, Leaky!vars
<1> QED BY <1>1, <1>2

(***************************************************************************)
(* The limiter that a server has behaves as its own module says, so what   *)
(* is proved of a module holds of every behaviour with that limiter.  About *)
(* the interceptors of package ratelimit, which share nothing.             *)
(***************************************************************************)
THEOREM EachAsItsModule ==
    LimiterSpec => /\ limiter = "fix" => Fix!Spec
                   /\ limiter = "slide" => Slide!Spec
                   /\ limiter = "redisFix" => RedisFix!Spec
                   /\ limiter = "redisSlide" => RedisSlide!Spec
                   /\ limiter = "token" => Token!Spec
                   /\ limiter = "leaky" => Leaky!Spec
<1>1. LimiterInit => /\ Fix!Init /\ Slide!Init /\ RedisFix!Init /\ RedisSlide!Init
                     /\ Token!Init /\ Leaky!Init
  BY DEF LimiterInit
<1>2. limiter = "fix" /\ [LimiterNext]_limiterVars => (limiter = "fix")' /\ [Fix!Next]_Fix!vars
  BY AnySteps
<1>3. limiter = "slide" /\ [LimiterNext]_limiterVars => (limiter = "slide")' /\ [Slide!Next]_Slide!vars
  BY AnySteps
<1>4. limiter = "redisFix" /\ [LimiterNext]_limiterVars
        => (limiter = "redisFix")' /\ [RedisFix!Next]_RedisFix!vars
  BY AnySteps
<1>5. limiter = "redisSlide" /\ [LimiterNext]_limiterVars
        => (limiter = "redisSlide")' /\ [RedisSlide!Next]_RedisSlide!vars
  BY AnySteps
<1>6. limiter = "token" /\ [LimiterNext]_limiterVars => (limiter = "token")' /\ [Token!Next]_Token!vars
  BY AnySteps
<1>7. limiter = "leaky" /\ [LimiterNext]_limiterVars => (limiter = "leaky")' /\ [Leaky!Next]_Leaky!vars
  BY AnySteps
<1> QED BY <1>1, <1>2, <1>3, <1>4, <1>5, <1>6, <1>7, PTL
        DEF LimiterSpec, Fix!Spec, Slide!Spec, RedisFix!Spec, RedisSlide!Spec, Token!Spec, Leaky!Spec

(***************************************************************************)
(* Whatever limiter a server has, its variables keep their types: counters *)
(* and queues stay within maxRate, buffers within their size.  About the   *)
(* interceptors of package ratelimit.                                      *)
(***************************************************************************)
THEOREM LimitersTyped == LimiterSpec => []LimitersOK
<1>1. LimiterInit => AnyInv
  BY InitHolds, SlideInit, RedisFixInit, RedisSlideInit, TokenInit, LeakyInit
  DEF LimiterInit, AnyInv
<1>2. AnyInv /\ [LimiterNext]_limiterVars => AnyInv'
  <2> SUFFICES ASSUME AnyInv, [LimiterNext]_limiterVars PROVE AnyInv'
    OBVIOUS
  <2> USE AnySteps DEF AnyInv
  <2>1. limiter' = "fix" => IInv'
    BY TypeStep, DecidedStep, AccountsStep DEF IInv
  <2>2. limiter' = "slide" => SlideInv'
    BY SlideStep
  <2>3. limiter' = "redisFix" => RedisFixInv'
    BY RedisFixStep
  <2>4. limiter' = "redisSlide" => RedisSlideInv'
    BY RedisSlideStep
  <2>5. limiter' = "token" => Token!TypeOK'
    BY TokenTypes
  <2>6. limiter' = "leaky" => Leaky!TypeOK'
    BY LeakySteps
  <2> QED BY <2>1, <2>2, <2>3, <2>4, <2>5, <2>6
<1>3. AnyInv => LimitersOK
  BY RedisFixTyped DEF AnyInv, LimitersOK, IInv, SlideInv, RedisSlideInv
<1> QED BY <1>1, <1>2, <1>3, PTL DEF LimiterSpec
=============================================================================
