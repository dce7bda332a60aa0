------------------------------ MODULE SumProofs ------------------------------
(***************************************************************************)
(* Lemmas that the other proofs share: least elements, remainders, and the *)
(* sums of the community module Functions.  A sum is a fold, which takes   *)
(* some element at a time; that it may take any one of them, and what      *)
(* follows from it, is shown by looking at a smallest subset for which it  *)
(* would be wrong.                                                         *)
(***************************************************************************)
EXTENDS Functions, FiniteSetTheorems, WellFoundedInduction, TLAPS

\* What SumFunctionOnSet comes to: one element is taken at a time.
Any(s) == CHOOSE x \in s : TRUE
Added(f, h, s) == IF s = {} THEN 0 ELSE f[Any(s)] + h[s \ {Any(s)}]
Sums(f, S) == CHOOSE h : h = [s \in SUBSET S |-> Added(f, h, s)]

\* A set of numbers has a least one.
LEMMA LeastOf ==
    ASSUME NEW S \in SUBSET Nat, S # {}
    PROVE  \E m \in S : \A j \in S : m <= j
<1>1. \E m \in S : \A j \in S : ~ (<<j, m>> \in OpToRel(<, Nat))
  BY WFMin, NatLessThanWellFounded
<1>2. PICK m \in S : \A j \in S : ~ (<<j, m>> \in OpToRel(<, Nat))
  BY <1>1
<1>3. \A j \in S : ~(j < m)
  BY <1>2 DEF OpToRel
<1> QED BY <1>3

\* Among subsets of a finite set one has no smaller one below it.
LEMMA SmallestOf ==
    ASSUME NEW S, IsFiniteSet(S), NEW B \in SUBSET SUBSET S, B # {}
    PROVE  \E T \in B : IsFiniteSet(T) /\ \A U \in B : U \subseteq T => U = T
<1> DEFINE sizes == {Cardinality(T) : T \in B}
<1>1. \A T \in SUBSET S : IsFiniteSet(T) /\ Cardinality(T) \in Nat
  BY FS_Subset, FS_CardinalityType
<1>2. sizes \in SUBSET Nat /\ sizes # {}
  BY <1>1
<1>3. PICK m \in sizes : \A j \in sizes : m <= j
  <2> HIDE DEF sizes
  <2> QED BY <1>2, LeastOf
<1>4. PICK T \in B : Cardinality(T) = m
  BY <1>3
<1>5. ASSUME NEW U \in B, U \subseteq T PROVE U = T
  <2>1. Cardinality(T) <= Cardinality(U)
    BY <1>3, <1>4, <1>5
  <2>2. Cardinality(U) <= Cardinality(T) /\ (Cardinality(T) = Cardinality(U) => T = U)
    BY <1>1, <1>5, FS_Subset
  <2> QED BY <1>1, <2>1, <2>2
<1> QED BY <1>1, <1>4, <1>5

\* The fold's recursion, taken out of it.
LEMMA SumIsLast ==
    ASSUME NEW f, NEW S
    PROVE  SumFunctionOnSet(f, S) = Sums(f, S)[S]
BY DEF SumFunctionOnSet, FoldFunctionOnSet, MapThenFoldSet, Sums, Added, Any

\* The subsets of at most n elements, and that the recursion reaches them.
Upto(S, n) == {s \in SUBSET S : Cardinality(s) <= n}
Reaches(f, S, n) == \E h : h = [s \in Upto(S, n) |-> Added(f, h, s)]

\* It reaches sets of any size.
LEMMA Levels ==
    ASSUME NEW f, NEW S, IsFiniteSet(S)
    PROVE  \A n \in Nat : Reaches(f, S, n)
<1> DEFINE B == {n \in Nat : ~Reaches(f, S, n)}
<1> SUFFICES ASSUME B # {} PROVE FALSE
  OBVIOUS
<1>1. PICK n \in B : \A j \in B : n <= j
  BY LeastOf
<1>2. \A s \in SUBSET S : IsFiniteSet(s) /\ Cardinality(s) \in Nat
  BY FS_Subset, FS_CardinalityType
<1>3. CASE n = 0
  <2> DEFINE h == [s \in Upto(S, n) |-> 0]
  <2>1. \A s \in Upto(S, n) : s = {}
    BY <1>2, <1>3, FS_EmptySet DEF Upto
  <2>2. h = [s \in Upto(S, n) |-> Added(f, h, s)]
    BY <2>1 DEF Added
  <2>3. Reaches(f, S, n)
    <3> HIDE DEF h
    <3> QED BY <2>2 DEF Reaches
  <2> QED BY <2>3
<1>4. CASE n # 0
  <2>1. n - 1 \in Nat /\ n - 1 \notin B
    BY <1>1, <1>4
  <2>2. PICK g : g = [s \in Upto(S, n - 1) |-> Added(f, g, s)]
    BY <2>1 DEF Reaches
  <2> DEFINE h == [s \in Upto(S, n) |->
                     IF s \in Upto(S, n - 1) THEN g[s] ELSE Added(f, g, s)]
  <2>3. ASSUME NEW s \in Upto(S, n) PROVE h[s] = Added(f, h, s)
    <3>1. CASE s = {}
      <4>1. s \in Upto(S, n - 1)
        BY <2>1, <3>1, FS_EmptySet DEF Upto
      <4>2. g[s] = Added(f, g, s)
        BY <2>2, <4>1
      <4> QED BY <3>1, <4>1, <4>2 DEF Added
    <3>2. CASE s # {}
      <4> DEFINE u == s \ {Any(s)}
      <4>1. Any(s) \in s
        BY <3>2 DEF Any
      <4>2. u \in SUBSET S /\ Cardinality(u) = Cardinality(s) - 1
        BY <4>1, <1>2, FS_RemoveElement DEF Upto
      <4>3. u \in Upto(S, n - 1) /\ u \in Upto(S, n)
        BY <4>2, <1>2 DEF Upto
      <4>4. h[u] = g[u]
        BY <4>3
      <4>5. h[s] = Added(f, g, s)
        <5>1. g[s] = Added(f, g, s) \/ s \notin Upto(S, n - 1)
          BY <2>2
        <5> QED BY <5>1
      <4> HIDE DEF h
      <4> QED BY <3>2, <4>4, <4>5 DEF Added
    <3> QED BY <3>1, <3>2
  <2>4. h = [s \in Upto(S, n) |-> Added(f, h, s)]
    BY <2>3
  <2>5. Reaches(f, S, n)
    <3> HIDE DEF h
    <3> QED BY <2>4 DEF Reaches
  <2> QED BY <2>5
<1> QED BY <1>3, <1>4

\* The recursion has a solution, and Sums is one.
LEMMA SumsRecursion ==
    ASSUME NEW f, NEW S, IsFiniteSet(S)
    PROVE  \A s \in SUBSET S : Sums(f, S)[s] = Added(f, Sums(f, S), s)
<1>1. Upto(S, Cardinality(S)) = SUBSET S /\ Cardinality(S) \in Nat
  BY FS_Subset, FS_CardinalityType DEF Upto
<1>2. Reaches(f, S, Cardinality(S))
  BY <1>1, Levels
<1>3. \E h : h = [s \in SUBSET S |-> Added(f, h, s)]
  BY <1>1, <1>2 DEF Reaches
<1>4. Sums(f, S) = [s \in SUBSET S |-> Added(f, Sums(f, S), s)]
  BY <1>3 DEF Sums
<1> QED BY <1>4

\* A set's sum is the same within each larger set.
LEMMA SumsAgree ==
    ASSUME NEW f, NEW S, IsFiniteSet(S), NEW T \in SUBSET S
    PROVE  Sums(f, S)[T] = Sums(f, T)[T]
<1> DEFINE Agrees(V) == \A W \in SUBSET S : V \subseteq W => Sums(f, W)[V] = Sums(f, V)[V]
<1> DEFINE B == {V \in SUBSET S : ~Agrees(V)}
<1> SUFFICES ASSUME B # {} PROVE FALSE
  OBVIOUS
<1>1. PICK V \in B : IsFiniteSet(V) /\ \A U \in B : U \subseteq V => U = V
  <2>1. B \in SUBSET SUBSET S
    OBVIOUS
  <2> HIDE DEF B
  <2> QED BY <2>1, SmallestOf
<1>2. PICK W \in SUBSET S : V \subseteq W /\ Sums(f, W)[V] # Sums(f, V)[V]
  BY <1>1
<1>3. IsFiniteSet(W)
  BY FS_Subset
<1> DEFINE U == V \ {Any(V)}
<1>4. Sums(f, W)[V] = Added(f, Sums(f, W), V) /\ Sums(f, V)[V] = Added(f, Sums(f, V), V)
  BY <1>1, <1>2, <1>3, SumsRecursion
<1>5. V # {} /\ Any(V) \in V
  BY <1>2, <1>4 DEF Added, Any
<1>6. U \in SUBSET S /\ U \subseteq W /\ U \subseteq V /\ U # V
  BY <1>2, <1>5
<1>7. Agrees(U)
  BY <1>1, <1>6
<1>8. Sums(f, W)[U] = Sums(f, U)[U] /\ Sums(f, V)[U] = Sums(f, U)[U]
  BY <1>6, <1>7
<1> QED BY <1>2, <1>4, <1>5, <1>8 DEF Added

\* A sum takes one of its summands from the rest.
LEMMA SumAny ==
    ASSUME NEW f, NEW S, IsFiniteSet(S)
    PROVE  SumFunctionOnSet(f, S)
             = IF S = {} THEN 0
               ELSE f[Any(S)] + SumFunctionOnSet(f, S \ {Any(S)})
<1>1. Sums(f, S)[S] = Added(f, Sums(f, S), S)
  BY SumsRecursion
<1>2. S # {} => Sums(f, S)[S \ {Any(S)}] = Sums(f, S \ {Any(S)})[S \ {Any(S)}]
  BY SumsAgree
<1> QED BY <1>1, <1>2, SumIsLast DEF Added

\* Sums of integers are integers, of naturals naturals.
LEMMA SumType ==
    ASSUME NEW S, IsFiniteSet(S), NEW f, \A x \in S : f[x] \in Int
    PROVE  /\ SumFunctionOnSet(f, S) \in Int
           /\ (\A x \in S : f[x] >= 0) => SumFunctionOnSet(f, S) >= 0
<1> DEFINE Right(T) == /\ SumFunctionOnSet(f, T) \in Int
                       /\ (\A x \in S : f[x] >= 0) => SumFunctionOnSet(f, T) >= 0
<1> DEFINE B == {T \in SUBSET S : ~Right(T)}
<1> SUFFICES ASSUME B # {} PROVE FALSE
  OBVIOUS
<1>1. PICK T \in B : IsFiniteSet(T) /\ \A U \in B : U \subseteq T => U = T
  <2>1. B \in SUBSET SUBSET S
    OBVIOUS
  <2> HIDE DEF B
  <2> QED BY <2>1, SmallestOf
<1>2. T # {} => Any(T) \in T
  BY DEF Any
<1>3. T # {} => Right(T \ {Any(T)})
  <2>1. T # {} => T \ {Any(T)} \in SUBSET S /\ T \ {Any(T)} \subseteq T /\ T \ {Any(T)} # T
    BY <1>2
  <2> QED BY <1>1, <2>1
<1>4. SumFunctionOnSet(f, T) = IF T = {} THEN 0
               ELSE f[Any(T)] + SumFunctionOnSet(f, T \ {Any(T)})
  BY <1>1, SumAny
<1> QED BY <1>1, <1>2, <1>3, <1>4

\* A sum takes any of its summands from the rest.
LEMMA SumSplit ==
    ASSUME NEW S, IsFiniteSet(S), NEW f, \A x \in S : f[x] \in Int, NEW x \in S
    PROVE  SumFunctionOnSet(f, S) = f[x] + SumFunctionOnSet(f, S \ {x})
<1> DEFINE Right(T) == \A y \in T : SumFunctionOnSet(f, T) = f[y] + SumFunctionOnSet(f, T \ {y})
<1> DEFINE B == {T \in SUBSET S : ~Right(T)}
<1> SUFFICES ASSUME B # {} PROVE FALSE
  OBVIOUS
<1>1. PICK T \in B : IsFiniteSet(T) /\ \A U \in B : U \subseteq T => U = T
  <2>1. B \in SUBSET SUBSET S
    OBVIOUS
  <2> HIDE DEF B
  <2> QED BY <2>1, SmallestOf
<1>2. PICK y \in T : SumFunctionOnSet(f, T) # f[y] + SumFunctionOnSet(f, T \ {y})
  BY <1>1
<1> DEFINE z == Any(T)
<1>3. z \in T
  BY <1>2 DEF Any
<1>4. SumFunctionOnSet(f, T) = f[z] + SumFunctionOnSet(f, T \ {z})
  BY <1>1, <1>2, SumAny
<1> HIDE DEF z
<1>5. z # y
  BY <1>2, <1>4
<1>6. Right(T \ {z}) /\ Right(T \ {y})
  <2>1. /\ T \ {z} \in SUBSET S /\ T \ {z} \subseteq T /\ T \ {z} # T
        /\ T \ {y} \in SUBSET S /\ T \ {y} \subseteq T /\ T \ {y} # T
    BY <1>2, <1>3
  <2> QED BY <1>1, <2>1
<1>7. (T \ {z}) \ {y} = (T \ {y}) \ {z}
  OBVIOUS
<1> DEFINE r == SumFunctionOnSet(f, (T \ {y}) \ {z})
<1>8. r \in Int /\ f[y] \in Int /\ f[z] \in Int
  <2>1. IsFiniteSet((T \ {y}) \ {z})
    BY <1>1, FS_RemoveElement
  <2> QED BY <1>2, <1>3, <2>1, SumType
<1>9. SumFunctionOnSet(f, T \ {z}) = f[y] + r /\ SumFunctionOnSet(f, T \ {y}) = f[z] + r
  BY <1>2, <1>3, <1>5, <1>6, <1>7
<1> HIDE DEF r, B
<1> QED BY <1>2, <1>4, <1>8, <1>9

\* Functions that agree on a set have the same sum over it.
LEMMA SumSame ==
    ASSUME NEW S, IsFiniteSet(S), NEW f, NEW g, \A x \in S : f[x] = g[x]
    PROVE  SumFunctionOnSet(f, S) = SumFunctionOnSet(g, S)
<1> DEFINE B == {T \in SUBSET S : SumFunctionOnSet(f, T) # SumFunctionOnSet(g, T)}
<1> SUFFICES ASSUME B # {} PROVE FALSE
  OBVIOUS
<1>1. PICK T \in B : IsFiniteSet(T) /\ \A U \in B : U \subseteq T => U = T
  <2>1. B \in SUBSET SUBSET S
    OBVIOUS
  <2> HIDE DEF B
  <2> QED BY <2>1, SmallestOf
<1>2. T # {} => Any(T) \in T
  BY DEF Any
<1>3. T # {} => SumFunctionOnSet(f, T \ {Any(T)}) = SumFunctionOnSet(g, T \ {Any(T)})
  <2>1. T # {} => T \ {Any(T)} \in SUBSET S /\ T \ {Any(T)} \subseteq T /\ T \ {Any(T)} # T
    BY <1>2
  <2> QED BY <1>1, <2>1
<1>4. \A h : SumFunctionOnSet(h, T) = IF T = {} THEN 0
               ELSE h[Any(T)] + SumFunctionOnSet(h, T \ {Any(T)})
  BY <1>1, SumAny
<1>5. T # {} => f[Any(T)] = g[Any(T)]
  BY <1>2
<1>6. SumFunctionOnSet(f, T) = SumFunctionOnSet(g, T)
  BY <1>3, <1>4, <1>5
<1> QED BY <1>6

\* A change of one summand.
LEMMA SumEdit ==
    ASSUME NEW S, IsFiniteSet(S), NEW f, \A y \in S : f[y] \in Int, NEW g,
           NEW x \in S, g[x] \in Int, \A y \in S : y # x => g[y] = f[y]
    PROVE  SumFunctionOnSet(g, S) = SumFunctionOnSet(f, S) - f[x] + g[x]
<1>1. IsFiniteSet(S \ {x})
  BY FS_RemoveElement
<1>2. SumFunctionOnSet(g, S \ {x}) = SumFunctionOnSet(f, S \ {x})
  BY <1>1, SumSame
<1>3. SumFunctionOnSet(f, S \ {x}) \in Int
  BY <1>1, SumType
<1>4. SumFunctionOnSet(f, S) = f[x] + SumFunctionOnSet(f, S \ {x})
  BY SumSplit
<1>5. SumFunctionOnSet(g, S) = g[x] + SumFunctionOnSet(g, S \ {x})
  BY SumSplit
<1> QED BY <1>2, <1>3, <1>4, <1>5

-----------------------------------------------------------------------------
\* Division leaves a remainder.
LEMMA Division ==
    ASSUME NEW a \in Int, NEW n \in Nat \ {0}
    PROVE  /\ a \div n \in Int /\ a % n \in 0 .. n - 1 /\ a % n \in Int
           /\ a = n * (a \div n) + (a % n)
<1>1. a % n \in 0 .. n - 1
  OBVIOUS
<1>2. a \div n \in Int
  OBVIOUS
<1>3. a = n * (a \div n) + (a % n)
  OBVIOUS
<1> QED BY <1>1, <1>2, <1>3

\* A multiple is no less than the factor.
LEMMA AtLeast ==
    ASSUME NEW m \in Int, NEW n \in Nat, m >= 1
    PROVE  n * m >= n
  OBVIOUS

\* There is one remainder only.
LEMMA Remainder ==
    ASSUME NEW a \in Int, NEW n \in Nat \ {0}, NEW q \in Int, NEW r \in 0 .. n - 1,
           a = n * q + r
    PROVE  a % n = r
<1> DEFINE p == a \div n
           s == a % n
<1>1. p \in Int /\ s \in Int /\ 0 <= s /\ s < n /\ a = n * p + s
  <2>1. p \in Int /\ s \in 0 .. n - 1 /\ a = n * p + s
    BY Division, Zenon
  <2> HIDE DEF p, s
  <2> QED BY <2>1
<1> HIDE DEF p, s
<1>2. n * (q - p) = s - r /\ n * (p - q) = r - s
  BY <1>1
<1>3. CASE q - p >= 1
  BY <1>1, <1>2, <1>3, AtLeast
<1>4. CASE p - q >= 1
  BY <1>1, <1>2, <1>4, AtLeast
<1>5. CASE p = q
  BY <1>1, <1>2, <1>5
<1>6. s = r
  BY <1>1, <1>3, <1>4, <1>5
<1> QED BY <1>6 DEF s

\* Counting on goes round.
LEMMA NextPlace ==
    ASSUME NEW k \in Nat, NEW n \in Nat \ {0}
    PROVE  /\ k % n \in 0 .. n - 1
           /\ k % n = n - 1 => (k + 1) % n = 0
           /\ k % n # n - 1 => (k + 1) % n = (k % n) + 1
<1> DEFINE p == k \div n
           s == k % n
<1>1. p \in Int /\ s \in 0 .. n - 1 /\ k = n * p + s
  BY Division
<1> HIDE DEF p, s
<1>2. s = n - 1 => (k + 1) % n = 0
  <2> SUFFICES ASSUME s = n - 1 PROVE (k + 1) % n = 0
    OBVIOUS
  <2>1. k + 1 = n * (p + 1) + 0
    BY <1>1
  <2>2. p + 1 \in Int /\ 0 \in 0 .. n - 1 /\ k + 1 \in Int
    BY <1>1
  <2> QED BY <2>1, <2>2, Remainder, Zenon
<1>3. s # n - 1 => (k + 1) % n = s + 1
  <2> SUFFICES ASSUME s # n - 1 PROVE (k + 1) % n = s + 1
    OBVIOUS
  <2>1. k + 1 = n * p + (s + 1) /\ s + 1 \in 0 .. n - 1
    BY <1>1
  <2>2. p \in Int /\ k + 1 \in Int
    BY <1>1
  <2> QED BY <2>1, <2>2, Remainder, Zenon
<1> QED BY <1>1, <1>2, <1>3, Zenon DEF s

\* Numbers that differ by multiples have the same remainder.
LEMMA Congruent ==
    ASSUME NEW a \in Int, NEW b \in Int, NEW n \in Nat \ {0}, NEW q \in Int,
           a = b + n * q
    PROVE  a % n = b % n
<1> DEFINE p == b \div n
           r == b % n
<1>1. p \in Int /\ r \in 0 .. n - 1 /\ b = n * p + r
  <2>1. p \in Int /\ r \in 0 .. n - 1 /\ b = n * p + r
    BY Division, Zenon
  <2> QED BY <2>1
<1> HIDE DEF p, r
<1>2. a = n * (p + q) + r /\ p + q \in Int
  BY <1>1
<1>3. a % n = r
  <2> DEFINE d == p + q
  <2>1. a = n * d + r /\ d \in Int /\ r \in 0 .. n - 1
    BY <1>1, <1>2
  <2> HIDE DEF d
  <2> QED BY <2>1, Remainder, Zenon
<1> QED BY <1>3 DEF r

\* A remainder is the number less a multiple.
LEMMA LessMultiple ==
    ASSUME NEW a \in Int, NEW n \in Nat \ {0}
    PROVE  \E q \in Int : a % n = a + n * q
<1> DEFINE p == a \div n
           r == a % n
<1>1. p \in Int /\ r \in 0 .. n - 1 /\ a = n * p + r
  BY Division, Zenon
<1> HIDE DEF p, r
<1>2. r = a + n * (-p) /\ -p \in Int
  BY <1>1
<1>3. \E q \in Int : r = a + n * q
  BY <1>2
<1> QED BY <1>3 DEF r

\* Remainders can be taken before an addition.
LEMMA AddRemainder ==
    ASSUME NEW a \in Int, NEW b \in Int, NEW n \in Nat \ {0}
    PROVE  ((a % n) + b) % n = (a + b) % n
<1> DEFINE p == a \div n
           r == a % n
           k == (r + b) \div n
           s == (r + b) % n
<1>1. p \in Int /\ r \in Int /\ a = n * p + r
  <2>1. p \in Int /\ r \in 0 .. n - 1 /\ a = n * p + r
    BY Division, Zenon
  <2> HIDE DEF p, r
  <2> QED BY <2>1
<1>2. k \in Int /\ s \in 0 .. n - 1 /\ r + b = n * k + s
  <2>1. r + b \in Int
    BY <1>1
  <2> HIDE DEF r
  <2> QED BY <2>1, Division, Zenon
<1> HIDE DEF p, r, k, s
<1>3. a + b = n * (p + k) + s /\ p + k \in Int /\ a + b \in Int
  BY <1>1, <1>2
<1>4. (a + b) % n = s
  BY <1>2, <1>3, Remainder, Zenon
<1> QED BY <1>4 DEF r, s

\* A sum of zeros.
LEMMA SumZero ==
    ASSUME NEW S, IsFiniteSet(S), NEW f, \A x \in S : f[x] = 0
    PROVE  SumFunctionOnSet(f, S) = 0
<1> DEFINE B == {T \in SUBSET S : SumFunctionOnSet(f, T) # 0}
<1> SUFFICES ASSUME B # {} PROVE FALSE
  OBVIOUS
<1>1. PICK T \in B : IsFiniteSet(T) /\ \A U \in B : U \subseteq T => U = T
  <2>1. B \in SUBSET SUBSET S
    OBVIOUS
  <2> HIDE DEF B
  <2> QED BY <2>1, SmallestOf
<1>2. T # {} => Any(T) \in T
  BY DEF Any
<1>3. T # {} => SumFunctionOnSet(f, T \ {Any(T)}) = 0
  <2>1. T # {} => T \ {Any(T)} \in SUBSET S /\ T \ {Any(T)} \subseteq T /\ T \ {Any(T)} # T
    BY <1>2
  <2> QED BY <1>1, <2>1
<1>4. SumFunctionOnSet(f, T) = IF T = {} THEN 0
               ELSE f[Any(T)] + SumFunctionOnSet(f, T \ {Any(T)})
  BY <1>1, SumAny
<1>5. T # {} => f[Any(T)] = 0
  BY <1>2
<1>6. SumFunctionOnSet(f, T) = 0
  BY <1>3, <1>4, <1>5
<1> QED BY <1>6
=============================================================================
