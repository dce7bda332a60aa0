------------------------------- MODULE RpcProofs -------------------------------
(***************************************************************************)
(* What holds of the RPC framework for any calls, any pool and any number  *)
(* of connections.  The lemmas about the codec come first: a request can   *)
(* be cut into what was put together.                                      *)
(***************************************************************************)
EXTENDS Rpc, FiniteSetTheorems, SequenceTheorems, TLAPS

\* All that a client may send and a server may answer: the methods asked for are
\* written with one letter.
Letters == {"g", "q", "n", "x"}
Questions ==
    [id : RpcCalls, version : {0}, compressor : {0, 1}, serializer : {1, 2},
     service : {Service}, method : {<<x>> : x \in Letters},
     meta : UNION {[S -> {<<"v">>}] : S \in SUBSET Keys}, data : {<<>>}]
Replies ==
    [id : RpcCalls, version : {0}, compressor : {0, 1}, serializer : {1, 2},
     error : {<<"invalid">>, <<"failed">>, <<>>}, data : {<<>>, <<"reply">>}]
Asked  == UNION {{EncodeReq(q, order) : order \in SetToSeqs(DOMAIN q.meta)} :
                    q \in Questions}
Given  == {EncodeResp(a) : a \in Replies}
Values == {None, Failed("error"), Failed("one-way")} \cup {DecodeResp(m) : m \in Given}

\* A request asks for the codes that the client was made with.
Sent == {m \in Asked : m[5] = setup.compressor /\ m[6] = setup.serializer}

Typed ==
    /\ TypeOK
    /\ setup \in Setups
    /\ value \in [RpcCalls -> Values]
    /\ inbox \in [Conns -> Seq(Sent)] /\ outbox \in [Conns -> Seq(Given)]

\* A call has its connection from Get to Put, and none before.
Uses(c) == worker[c] \in {"write", "read", "put"}
Places ==
    \A c \in RpcCalls :
        /\ caller[c] = "idle" => worker[c] = "none"
        /\ worker[c] \in {"none", "get", "wait"} => held[c] = 0
        /\ held[c] # 0 => conn[held[c]] # "unopened"
        /\ Uses(c) => held[c] # 0

\* Nobody else has that connection, neither another call nor the pool.
Exclusive ==
    /\ \A c, d \in RpcCalls : Uses(c) /\ Uses(d) /\ held[c] = held[d] => c = d
    /\ \A c \in RpcCalls : Uses(c) => held[c] \notin ToSet(idle)

Pool ==
    /\ \A k \in ToSet(idle) : conn[k] # "unopened"
    /\ IsInjective(idle)
    /\ \A w \in ToSet(waiters) : worker[w] = "wait"
    /\ IsInjective(waiters)

\* The connections a one-way call has had: their answers may be anybody's.
Mixed(k) == \E o \in RpcCalls : OneWay(o) /\ held[o] = k

\* Another connection carries one message at most, and it belongs to the call
\* that waits there for an answer.
Asks(m, k) == m[3] \in RpcCalls /\ worker[m[3]] = "read" /\ held[m[3]] = k
Carries(k) ==
    \/ inbox[k] = <<>> /\ outbox[k] = <<>>
    \/ \E m \in Sent : inbox[k] = <<m>> /\ outbox[k] = <<>> /\ Asks(m, k)
    \/ \E m \in Given : inbox[k] = <<>> /\ outbox[k] = <<m>> /\ Asks(m, k)
Unmixed == \A k \in Conns : Mixed(k) \/ Carries(k)

Quiet ==
    \A k \in Conns : conn[k] \in {"unopened", "broken"} =>
                        inbox[k] = <<>> /\ outbox[k] = <<>>

Unanswered == \A c \in RpcCalls : held[c] = 0 => value[c].id = Nobody

\* What is on its way to the server is what a call has sent, in some order of
\* its metadata, which does not change once the call is made.
Sends(c, m) ==
    /\ caller[c] # "idle"
    /\ \E order \in SetToSeqs(meta[c]) : m = EncodeReq(Message(c), order)
Faithful ==
    \A k \in Conns : \A n \in DOMAIN inbox[k] : \E c \in RpcCalls : Sends(c, inbox[k][n])

IInv ==
    /\ Typed /\ Places /\ Exclusive /\ Pool /\ Unmixed /\ Quiet
    /\ Unanswered /\ AnswersMatch /\ ServerSurvives /\ Faithful

-----------------------------------------------------------------------------
\* Two sequences one after the other: first the cells of the one, then of the
\* other.
LEMMA Joined ==
    \A S : \A x, y \in Seq(S) :
        /\ x \o y \in Seq(S) /\ Len(x \o y) = Len(x) + Len(y)
        /\ \A i \in Int : 1 <= i /\ i <= Len(x) => (x \o y)[i] = x[i]
        /\ \A i \in Int : Len(x) < i /\ i <= Len(x) + Len(y) => (x \o y)[i] = y[i - Len(x)]
<1> TAKE S
<1> TAKE x, y \in Seq(S)
<1>1. \A i \in 1 .. Len(x) + Len(y) :
         (x \o y)[i] = IF i <= Len(x) THEN x[i] ELSE y[i - Len(x)]
  BY ConcatProperties, Zenon
<1>2. Len(x \o y) = Len(x) + Len(y) /\ x \o y \in Seq(S)
  BY ConcatProperties, Zenon
<1>3. Len(x) \in Nat /\ Len(y) \in Nat
  BY LenProperties
<1> QED BY <1>1, <1>2, <1>3

\* What flattening gives of one sequence, and of two.
LEMMA FlattenOne ==
    ASSUME NEW s, Len(s) = 1
    PROVE  FlattenSeq(s) = s[1]
<1> DEFINE step(f, i) == IF i = 1 THEN s[i] ELSE f[i - 1] \o s[i]
           f == CHOOSE f : f = [i \in 1 .. Len(s) |-> step(f, i)]
           g == [i \in 1 .. 1 |-> s[1]]
<1>1. \A h : [i \in 1 .. Len(s) |-> step(h, i)] = g
  BY SMT
<1>2. f = g
  <2>1. g = [i \in 1 .. Len(s) |-> step(g, i)]
    BY <1>1
  <2> HIDE DEF g
  <2>2. f = [i \in 1 .. Len(s) |-> step(f, i)]
    BY <2>1
  <2> QED BY <2>2, <1>1
<1>3. FlattenSeq(s) = f[Len(s)]
  BY DEF FlattenSeq
<1> HIDE DEF f
<1> QED BY <1>2, <1>3

LEMMA FlattenTwo ==
    ASSUME NEW s, Len(s) = 2
    PROVE  FlattenSeq(s) = s[1] \o s[2]
<1> DEFINE step(f, i) == IF i = 1 THEN s[i] ELSE f[i - 1] \o s[i]
           f == CHOOSE f : f = [i \in 1 .. Len(s) |-> step(f, i)]
           g == [i \in 1 .. 2 |-> IF i = 1 THEN s[1] ELSE s[1] \o s[2]]
<1>1. g = [i \in 1 .. 2 |-> step(g, i)]
  <2>1. g[1] = s[1] /\ g[2] = s[1] \o s[2]
    OBVIOUS
  <2> HIDE DEF g
  <2>2. \A i \in 1 .. 2 : step(g, i) = IF i = 1 THEN s[1] ELSE s[1] \o s[2]
    BY <2>1
  <2> USE DEF g
  <2> HIDE DEF step
  <2> QED BY <2>2
<1>2. g = [i \in 1 .. Len(s) |-> step(g, i)]
  BY <1>1
<1>3. f = [i \in 1 .. Len(s) |-> step(f, i)]
  <2> HIDE DEF g
  <2> QED BY <1>2
<1>4. FlattenSeq(s) = f[Len(s)]
  BY DEF FlattenSeq
<1> HIDE DEF f, g
<1>5. f = [i \in 1 .. 2 |-> step(f, i)]
  BY <1>3
<1> HIDE DEF step
<1>6. f[1] = step(f, 1) /\ f[2] = step(f, 2)
  BY <1>5
<1>7. step(f, 1) = s[1] /\ step(f, 2) = f[1] \o s[2]
  BY DEF step
<1> QED BY <1>4, <1>6, <1>7

\* The cells that a name, a separator or the metadata is made of.
Cells == Keys \cup {"CR", "v", "LF", "u"} \cup Letters

\* Four cells put together one by one.
LEMMA FourCells ==
    ASSUME NEW a, NEW b, NEW c, NEW d
    PROVE  /\ (<<a, b>> \o <<c>>) \o <<d>> = <<a, b, c, d>>
           /\ ((<<a>> \o <<b>>) \o <<c>>) \o <<d>> = <<a, b, c, d>>
<1> DEFINE S == {a, b, c, d}
           t2 == <<a>> \o <<b>>
           t3 == <<a, b>> \o <<c>>
           t4 == <<a, b, c>> \o <<d>>
           r2 == <<a, b>>
           r3 == <<a, b, c>>
           r4 == <<a, b, c, d>>
<1>1. /\ r2 \in Seq(S) /\ Len(r2) = 2 /\ r2[1] = a /\ r2[2] = b
      /\ r3 \in Seq(S) /\ Len(r3) = 3 /\ r3[1] = a /\ r3[2] = b /\ r3[3] = c
      /\ r4 \in Seq(S) /\ Len(r4) = 4 /\ r4[1] = a /\ r4[2] = b /\ r4[3] = c /\ r4[4] = d
  OBVIOUS
<1>2. <<a>> \in Seq(S) /\ <<b>> \in Seq(S) /\ <<c>> \in Seq(S) /\ <<d>> \in Seq(S)
      /\ <<a, b>> \in Seq(S) /\ <<a, b, c>> \in Seq(S)
  OBVIOUS
<1>3. t2 \in Seq(S) /\ Len(t2) = 2 /\ t2[1] = a /\ t2[2] = b
  BY <1>2, Joined
<1>4. t3 \in Seq(S) /\ Len(t3) = 3 /\ t3[1] = a /\ t3[2] = b /\ t3[3] = c
  BY <1>2, Joined
<1>5. t4 \in Seq(S) /\ Len(t4) = 4 /\ t4[1] = a /\ t4[2] = b /\ t4[3] = c /\ t4[4] = d
  BY <1>2, Joined
<1> HIDE DEF S, t2, t3, t4, r2, r3, r4
<1>6. t2 = r2
  <2>1. /\ t2 \in Seq(S) /\ r2 \in Seq(S) /\ Len(t2) = Len(r2)
        /\ \A i \in 1 .. Len(t2) : t2[i] = r2[i]
    BY <1>1, <1>3
  <2> QED BY <2>1, SeqEqual, Zenon
<1>7. t3 = r3
  <2>1. /\ t3 \in Seq(S) /\ r3 \in Seq(S) /\ Len(t3) = Len(r3)
        /\ \A i \in 1 .. Len(t3) : t3[i] = r3[i]
    BY <1>1, <1>4
  <2> QED BY <2>1, SeqEqual, Zenon
<1>8. t4 = r4
  <2>1. /\ t4 \in Seq(S) /\ r4 \in Seq(S) /\ Len(t4) = Len(r4)
        /\ \A i \in 1 .. Len(t4) : t4[i] = r4[i]
    BY <1>1, <1>5
  <2> QED BY <2>1, SeqEqual, Zenon
<1> QED BY <1>6, <1>7, <1>8, Zenon DEF t2, t3, t4, r2, r3, r4

\* The cells of a key with its value, as they are written
\* (message/request.go:66-75).
PairOf(key) == <<key, PairSplit>> \o <<"v">> \o <<Split>>

LEMMA PairCellsOf ==
    ASSUME NEW key \in Keys
    PROVE  PairOf(key) = <<key, "CR", "v", "LF">>
<1>1. (<<key, "CR">> \o <<"v">>) \o <<"LF">> = <<key, "CR", "v", "LF">>
  BY FourCells, Zenon
<1> QED BY <1>1 DEF PairOf, PairSplit, Split

LEMMA TwoPairs ==
    ASSUME NEW x \in Seq(Cells), NEW y \in Seq(Cells), Len(x) = 4, Len(y) = 4
    PROVE  /\ x \o y \in Seq(Cells) /\ Len(x \o y) = 4 + 4
           /\ \A i \in 1 .. 4 : (x \o y)[i] = x[i]
           /\ \A i \in 1 .. 4 : (x \o y)[4 + i] = y[i]
<1>0. /\ x \o y \in Seq(Cells) /\ Len(x \o y) = Len(x) + Len(y)
      /\ \A i \in Int : 1 <= i /\ i <= Len(x) => (x \o y)[i] = x[i]
      /\ \A i \in Int : Len(x) < i /\ i <= Len(x) + Len(y) => (x \o y)[i] = y[i - Len(x)]
  BY Joined, Zenon
<1>1. /\ \A i \in Int : 1 <= i /\ i <= Len(x) => (x \o y)[i] = x[i]
      /\ \A i \in Int : Len(x) < i /\ i <= Len(x) + Len(y) => (x \o y)[i] = y[i - Len(x)]
  BY <1>0, Zenon
<1>2. x \o y \in Seq(Cells) /\ Len(x \o y) = Len(x) + Len(y)
  BY <1>0, Zenon
<1>3. ASSUME NEW i \in 1 .. 4 PROVE (x \o y)[4 + i] = y[i]
  <2>1. 4 + i \in Int /\ Len(x) < 4 + i /\ 4 + i <= Len(x) + Len(y) /\ (4 + i) - Len(x) = i
    OBVIOUS
  <2>2. (x \o y)[4 + i] = y[(4 + i) - Len(x)]
    BY <1>1, <2>1, Zenon
  <2> QED BY <2>1, <2>2, Zenon
<1> QED BY <1>1, <1>2, <1>3

\* The metadata is written pair by pair in the order in which its map is walked
\* (message/request.go:66-75).
Paired(flat, order, n) ==
    /\ flat \in Seq(Cells) /\ Len(flat) = 4 * n
    /\ \A i \in 1 .. n : /\ flat[4 * i - 3] = order[i] /\ flat[4 * i - 2] = "CR"
                         /\ flat[4 * i - 1] = "v" /\ flat[4 * i] = "LF"

LEMMA FlatPairs ==
    ASSUME NEW n \in {0, 1, 2}, NEW order \in [1 .. n -> Keys]
    PROVE  Paired(FlattenSeq([i \in 1 .. n |-> PairOf(order[i])]), order, n)
<1> USE DEF Paired
<1> DEFINE s == [i \in 1 .. n |-> PairOf(order[i])]
           p(k) == <<k, "CR", "v", "LF">>
<1>1. Len(s) = n
  OBVIOUS
<1>a. ASSUME NEW k \in Keys
      PROVE  /\ PairOf(k) = p(k)
             /\ p(k) \in Seq(Cells) /\ Len(p(k)) = 4
             /\ p(k)[1] = k /\ p(k)[2] = "CR" /\ p(k)[3] = "v" /\ p(k)[4] = "LF"
  BY PairCellsOf DEF Cells
<1> HIDE DEF p
<1>2. CASE n = 0
  <2>1. Len(s) = 0 => FlattenSeq(s) = s
    BY Zenon DEF FlattenSeq
  <2>2. s = <<>>
    BY <1>2
  <2>3. FlattenSeq(s) = <<>>
    BY <1>1, <1>2, <2>1, <2>2
  <2>4. <<>> \in Seq(Cells) /\ Len(<<>>) = 4 * 0
    BY EmptySeq
  <2> DEFINE f == FlattenSeq(s)
  <2>5. f = <<>>
    BY <2>3
  <2>6. \A i \in 1 .. n : FALSE
    BY <1>2
  <2> HIDE DEF f
  <2> QED BY <1>2, <2>4, <2>5, <2>6 DEF f
<1>3. CASE n = 1
  <2>1. FlattenSeq(s) = s[1]
    BY <1>1, <1>3, FlattenOne
  <2>2. s[1] = p(order[1]) /\ order[1] \in Keys
    BY <1>3, <1>a
  <2>3. FlattenSeq(s) = p(order[1])
    BY <2>1, <2>2
  <2> HIDE DEF s
  <2>4. \A i \in 1 .. n : i = 1 /\ 4 * i - 3 = 1 /\ 4 * i - 2 = 2 /\ 4 * i - 1 = 3 /\ 4 * i = 4
    BY <1>3
  <2> QED BY <1>3, <1>a, <2>2, <2>3, <2>4 DEF s
<1>4. CASE n = 2
  <2>1. FlattenSeq(s) = s[1] \o s[2]
    BY <1>1, <1>4, FlattenTwo
  <2>2. s[1] = p(order[1]) /\ s[2] = p(order[2]) /\ order[1] \in Keys /\ order[2] \in Keys
    BY <1>4, <1>a
  <2> DEFINE f == FlattenSeq(s)
  <2>3. f = p(order[1]) \o p(order[2])
    BY <2>1, <2>2
  <2>p. p(order[1]) \in Seq(Cells) /\ p(order[2]) \in Seq(Cells)
        /\ Len(p(order[1])) = 4 /\ Len(p(order[2])) = 4
    BY <1>a, <2>2
  <2>4. /\ f \in Seq(Cells) /\ Len(f) = 4 + 4
        /\ \A i \in 1 .. 4 : f[i] = p(order[1])[i]
        /\ \A i \in 1 .. 4 : f[4 + i] = p(order[2])[i]
    <3> DEFINE x == p(order[1])
               y == p(order[2])
    <3>1. f = x \o y /\ x \in Seq(Cells) /\ y \in Seq(Cells) /\ Len(x) = 4 /\ Len(y) = 4
      BY <2>p, <2>3
    <3> HIDE DEF f, x, y
    <3>2. /\ x \o y \in Seq(Cells) /\ Len(x \o y) = 4 + 4
          /\ \A i \in 1 .. 4 : (x \o y)[i] = x[i]
          /\ \A i \in 1 .. 4 : (x \o y)[4 + i] = y[i]
      BY <3>1, TwoPairs, Zenon
    <3> QED BY <3>1, <3>2, Zenon DEF x, y
  <2> HIDE DEF f
  <2>5. /\ f[1] = order[1] /\ f[2] = "CR" /\ f[3] = "v" /\ f[4] = "LF"
        /\ f[5] = order[2] /\ f[6] = "CR" /\ f[7] = "v" /\ f[8] = "LF"
    BY <1>a, <2>2, <2>4
  <2>6. \A i \in 1 .. n :
           \/ i = 1 /\ 4 * i - 3 = 1 /\ 4 * i - 2 = 2 /\ 4 * i - 1 = 3 /\ 4 * i = 4
           \/ i = 2 /\ 4 * i - 3 = 5 /\ 4 * i - 2 = 6 /\ 4 * i - 1 = 7 /\ 4 * i = 8
    BY <1>4
  <2>7. \A i \in 1 .. n :
           /\ f[4 * i - 3] = order[i] /\ f[4 * i - 2] = "CR"
           /\ f[4 * i - 1] = "v" /\ f[4 * i] = "LF"
    BY <2>5, <2>6
  <2> QED BY <1>4, <2>4, <2>7 DEF f
<1> QED BY <1>2, <1>3, <1>4

\* The length computed for the metadata is the number of the cells it takes
\* (message/request.go:134-146).
LEMMA MetaLength ==
    ASSUME NEW q, NEW D \in SUBSET Keys, q.meta = [key \in D |-> <<"v">>]
    PROVE  Cardinality(UNION {PairCells(q, key) : key \in DOMAIN q.meta}) = 4 * Cardinality(D)
<1>1. DOMAIN q.meta = D /\ \A key \in D : Len(q.meta[key]) = 1
  OBVIOUS
<1>2. \A key \in D : PairCells(q, key) = {key} \X (1 .. 4)
  <2> TAKE key \in D
  <2>1. \A l : l = 1 => 1 + 1 + l + 1 = 4
    OBVIOUS
  <2>2. 1 + 1 + Len(q.meta[key]) + 1 = 4
    BY <1>1, <2>1, Zenon
  <2> QED BY <2>2 DEF PairCells
<1>3. UNION {PairCells(q, key) : key \in DOMAIN q.meta} = D \X (1 .. 4)
  BY <1>1, <1>2
<1>4. IsFiniteSet(D)
  <2>1. IsFiniteSet({"one-way"})
    BY FS_Singleton
  <2>2. IsFiniteSet({"one-way"} \cup {"deadline"})
    BY <2>1, FS_AddElement, Zenon
  <2>3. D \subseteq {"one-way"} \cup {"deadline"}
    BY DEF Keys
  <2> QED BY <2>2, <2>3, FS_Subset
<1> DEFINE first == 1
           last == 4
<1>5. first \in Int /\ last \in Int /\ last - first + 1 = 4 /\ first <= last
  OBVIOUS
<1> HIDE DEF first, last
<1>6. IsFiniteSet(first .. last) /\ Cardinality(first .. last) = 4
  BY <1>5, FS_Interval
<1> USE DEF first, last
<1>7. Cardinality(D \X (1 .. 4)) = Cardinality(D) * Cardinality(1 .. 4)
  BY <1>4, <1>6, FS_Product
<1>8. Cardinality(D) \in Nat
  BY <1>4, FS_CardinalityType
<1>9. Cardinality(1 .. 4) = 4
  BY <1>6
<1>10. Cardinality(UNION {PairCells(q, key) : key \in DOMAIN q.meta}) = Cardinality(D) * 4
  BY <1>3, <1>7, <1>9, Zenon
<1> HIDE DEF first, last
<1> QED BY <1>8, <1>10

\* The orders in which a map of the keys may be walked.

\* The orders in which a map of the keys may be walked.
LEMMA Orders ==
    ASSUME NEW D \in SUBSET Keys, NEW order \in SetToSeqs(D)
    PROVE  LET n == Cardinality(D)
           IN  /\ n \in {0, 1, 2} /\ order \in [1 .. n -> Keys]
               /\ {order[i] : i \in 1 .. n} = D
               /\ \A i, j \in 1 .. n : order[i] = order[j] => i = j
<1> DEFINE n == Cardinality(D)
<1>1. order \in [1 .. n -> D] /\ \A i, j \in 1 .. n : i # j => order[i] # order[j]
  BY DEF SetToSeqs
<1>2. D \in {{}, {"one-way"}, {"deadline"}, {"one-way", "deadline"}}
  BY DEF Keys
<1>3. CASE D = {}
  <2>1. n = 0
    BY <1>3, FS_EmptySet
  <2> QED BY <1>1, <1>3, <2>1
<1>4. ASSUME NEW k \in Keys, D = {k} PROVE n = 1
  BY <1>4, FS_Singleton
<1>5. CASE D \in {{"one-way"}, {"deadline"}}
  <2>1. n = 1
    BY <1>4, <1>5 DEF Keys
  <2>2. order[1] \in D
    BY <1>1, <2>1
  <2> QED BY <1>1, <1>5, <2>1, <2>2 DEF Keys
<1>6. CASE D = {"one-way", "deadline"}
  <2>1. n = 2
    <3>1. IsFiniteSet({"one-way"}) /\ Cardinality({"one-way"}) = 1
      BY FS_Singleton
    <3>2. D = {"one-way"} \cup {"deadline"} /\ "deadline" \notin {"one-way"}
      BY <1>6
    <3>3. Cardinality({"one-way"} \cup {"deadline"}) = 1 + 1
      BY <3>1, <3>2, FS_AddElement
    <3> QED BY <3>2, <3>3
  <2>2. order[1] \in D /\ order[2] \in D /\ order[1] # order[2]
    BY <1>1, <2>1
  <2>3. {order[i] : i \in 1 .. 2} = {order[1], order[2]}
    OBVIOUS
  <2> QED BY <1>1, <1>6, <2>1, <2>2, <2>3 DEF Keys
<1> QED BY <1>2, <1>3, <1>5, <1>6

\* A request laid out: the fields of fixed width, the two names, then the pairs
\* of the metadata in some order.
Laid(m, q, order, n) ==
    /\ Len(m) = 10 + 4 * n /\ m[1] = 10 + 4 * n /\ m[2] = 0
    /\ m[3] = q.id /\ m[4] = q.version /\ m[5] = q.compressor /\ m[6] = q.serializer
    /\ m[7] = "u" /\ m[8] = "LF" /\ m[10] = "LF"
    /\ m[9] \in Letters /\ q.method = <<m[9]>>
    /\ \A i \in 1 .. n : /\ m[10 + 4 * i - 3] = order[i] /\ m[10 + 4 * i - 2] = "CR"
                        /\ m[10 + 4 * i - 1] = "v" /\ m[10 + 4 * i] = "LF"

\* The lengths that are computed first size a buffer into which the request goes
\* whole, for any order of its metadata (message/request.go:40-78, 134-150).
LEMMA Encoded ==
    ASSUME NEW q \in Questions, NEW order \in SetToSeqs(DOMAIN q.meta)
    PROVE  Laid(EncodeReq(q, order), q, order, Cardinality(DOMAIN q.meta))
<1>0. PICK g \in Letters : q.method = <<g>>
  BY DEF Questions
<1> DEFINE D == DOMAIN q.meta
           n == Cardinality(D)
           flat == FlattenSeq([i \in 1 .. n |-> PairOf(order[i])])
           names == <<"u", "LF", g, "LF">>
           cells == names \o flat
           h == 10 + 4 * n
           fixed == <<h, 0, q.id, q.version, q.compressor, q.serializer>>
<1>1. D \in SUBSET Keys /\ q.meta = [key \in D |-> <<"v">>]
  BY DEF Questions
<1>2. n \in {0, 1, 2} /\ order \in [1 .. n -> Keys] /\ {order[i] : i \in 1 .. n} = D
  BY <1>1, Orders
<1>3. /\ flat \in Seq(Cells) /\ Len(flat) = 4 * n
      /\ \A i \in 1 .. n :
            /\ flat[4 * i - 3] = order[i] /\ flat[4 * i - 2] = "CR"
            /\ flat[4 * i - 1] = "v" /\ flat[4 * i] = "LF"
  <2> HIDE DEF n
  <2>1. Paired(flat, order, n)
    BY <1>2, FlatPairs, Zenon
  <2> QED BY <2>1 DEF Paired
<1>4. q.service = <<"u">> /\ q.method = <<g>> /\ q.data = <<>>
  BY <1>0 DEF Questions, Service
<1>5. ReqHeadLength(q) = h /\ ReqBodyLength(q) = 0
  <2>1. Cardinality(UNION {PairCells(q, key) : key \in DOMAIN q.meta}) = 4 * n
    BY <1>1, MetaLength
  <2>2. Len(q.service) = 1 /\ Len(q.method) = 1 /\ Len(q.data) = 0
    BY <1>4
  <2> QED BY <1>2, <2>1, <2>2 DEF ReqHeadLength, ReqBodyLength, Fixed
<1>6. [i \in 1 .. Len(order) |-> <<order[i], PairSplit>> \o q.meta[order[i]] \o <<Split>>]
      = [i \in 1 .. n |-> PairOf(order[i])]
  <2>1. Len(order) = n
    BY <1>2
  <2>2. \A i \in 1 .. n : q.meta[order[i]] = <<"v">>
    BY <1>1, <1>2
  <2> QED BY <2>1, <2>2 DEF PairOf
<1>7. cells \in Seq(Cells) /\ Len(cells) = 4 + 4 * n
      /\ cells[1] = "u" /\ cells[2] = "LF" /\ cells[3] = g /\ cells[4] = "LF"
      /\ \A i \in 1 .. 4 * n : cells[4 + i] = flat[i]
  <2>1. names \in Seq(Cells) /\ Len(names) = 4
        /\ names[1] = "u" /\ names[2] = "LF" /\ names[3] = g /\ names[4] = "LF"
    BY DEF Cells
  <2>a. names \in Seq(Cells) /\ flat \in Seq(Cells)
    BY <1>3, <2>1
  <2> HIDE DEF names, flat
  <2>2. /\ \A i \in Int : 1 <= i /\ i <= Len(names) => cells[i] = names[i]
        /\ \A i \in Int : Len(names) < i /\ i <= Len(names) + Len(flat) =>
                             cells[i] = flat[i - Len(names)]
    BY <2>a, Joined, Zenon
  <2>3. cells \in Seq(Cells) /\ Len(cells) = Len(names) + Len(flat)
    BY <2>a, Joined, Zenon
  <2> HIDE DEF cells
  <2>4. ASSUME NEW i \in 1 .. 4 * n PROVE cells[4 + i] = flat[i]
    <3>1. 4 + i \in Int /\ Len(names) < 4 + i /\ 4 + i <= Len(names) + Len(flat)
          /\ (4 + i) - Len(names) = i
      BY <1>2, <1>3, <2>1
    <3>2. cells[4 + i] = flat[(4 + i) - Len(names)]
      BY <2>2, <3>1, Zenon
    <3> QED BY <3>1, <3>2, Zenon
  <2>5. cells[1] = "u" /\ cells[2] = "LF" /\ cells[3] = g /\ cells[4] = "LF"
    BY <2>1, <2>2
  <2>6. Len(cells) = 4 + 4 * n
    BY <1>3, <2>1, <2>3
  <2> QED BY <2>3, <2>4, <2>5, <2>6
<1>8. EncodeReq(q, order) = Buffer(h + 0, fixed, cells)
  <2>1. ((<<"u">> \o <<"LF">>) \o <<g>>) \o <<"LF">> = names
    BY FourCells, Zenon
  <2>2. cells \o <<>> = cells
    BY <1>7, ConcatEmptySeq
  <2> HIDE DEF flat, h, fixed, names
  <2> QED BY <1>4, <1>5, <1>6, <2>1, <2>2 DEF EncodeReq, Split, fixed, flat, names
<1> DEFINE m == Buffer(h + 0, fixed, cells)
<1>9. m = [i \in 1 .. h |-> IF i <= 6 THEN fixed[i]
                            ELSE IF i - 6 <= 4 + 4 * n THEN cells[i - 6] ELSE "NUL"]
  <2>1. h + 0 = h
    BY <1>2
  <2> HIDE DEF cells
  <2> QED BY <1>7, <2>1 DEF Buffer, Fixed
<1>10. Len(m) = h /\ \A i \in 1 .. 6 : m[i] = fixed[i]
  <2>1. h \in Nat /\ \A i \in 1 .. 6 : i \in 1 .. h /\ i <= 6
    BY <1>2
  <2> HIDE DEF m, h, fixed, cells, flat
  <2> QED BY <1>9, <2>1
<1>11. ASSUME NEW i \in 1 .. 4 + 4 * n PROVE m[6 + i] = cells[i]
  <2>1. 6 + i \in 1 .. h /\ ~ 6 + i <= 6 /\ (6 + i) - 6 = i /\ i <= 4 + 4 * n
    BY <1>2
  <2> HIDE DEF m, h, fixed, cells, flat
  <2>2. m[6 + i] = cells[(6 + i) - 6]
    BY <1>9, <2>1
  <2> QED BY <2>1, <2>2, Zenon
<1>12. m[1] = h /\ m[2] = 0 /\ m[3] = q.id /\ m[4] = q.version /\ m[5] = q.compressor
       /\ m[6] = q.serializer
  <2> HIDE DEF m, h
  <2> QED BY <1>10
<1> HIDE DEF cells, m, flat
<1>13. m[7] = "u" /\ m[8] = "LF" /\ m[9] = g /\ m[10] = "LF"
  BY <1>2, <1>7, <1>11
<1>14. ASSUME NEW i \in 1 .. 4 * n PROVE m[10 + i] = flat[i]
  <2>1. 4 + i \in 1 .. 4 + 4 * n /\ 6 + (4 + i) = 10 + i
    BY <1>2
  <2>2. m[6 + (4 + i)] = cells[4 + i]
    BY <1>11, <2>1, Zenon
  <2>3. cells[4 + i] = flat[i]
    BY <1>7, Zenon
  <2> QED BY <2>1, <2>2, <2>3, Zenon
<1>15. ASSUME NEW i \in 1 .. n
       PROVE  /\ m[10 + 4 * i - 3] = order[i] /\ m[10 + 4 * i - 2] = "CR"
              /\ m[10 + 4 * i - 1] = "v" /\ m[10 + 4 * i] = "LF"
  <2>1. (n = 1 /\ i = 1) \/ (n = 2 /\ i \in {1, 2})
    <3>1. n = 0 \/ n = 1 \/ n = 2
      BY <1>2
    <3> HIDE DEF n
    <3> QED BY <3>1
  <2>2. CASE i = 1 /\ n \in {1, 2}
    BY <1>2, <1>3, <1>14, <2>2
  <2>3. CASE i = 2 /\ n = 2
    BY <1>2, <1>3, <1>14, <2>3
  <2> QED BY <2>1, <2>2, <2>3
<1>16. Laid(m, q, order, n)
  <2> HIDE DEF n
  <2> QED BY <1>0, <1>10, <1>12, <1>13, <1>15 DEF Laid
<1>17. h + 0 = h
  BY <1>2
<1> QED BY <1>8, <1>16 DEF m

\* What comes before the first separator, and what after it.
LEMMA CutAtFirst ==
    ASSUME NEW s, NEW mark, Len(s) \in Nat, NEW i \in 1 .. Len(s),
           s[i] = mark, \A j \in 1 .. i - 1 : s[j] # mark
    PROVE  UpTo(s, mark) = SubSeq(s, 1, i - 1) /\ After(s, mark) = SubSeq(s, i + 1, Len(s))
<1> DEFINE I == {j \in 1 .. Len(s) : s[j] = mark}
<1>1. i \in I /\ \A j \in I : i <= j
  OBVIOUS
<1>2. I \subseteq Int
  OBVIOUS
<1>3. Min(I) = i
  <2> HIDE DEF I
  <2>1. \A k \in I : (\A j \in I : k <= j) => k = i
    BY <1>1, <1>2
  <2> QED BY <1>1, <2>1 DEF Min
<1>4. SelectInSeq(s, LAMBDA x : x = mark) = IF I # {} THEN Min(I) ELSE 0
  BY Zenon DEF SelectInSeq
<1>5. SelectInSeq(s, LAMBDA x : x = mark) = i
  <2> HIDE DEF I
  <2> QED BY <1>1, <1>3, <1>4, Zenon
<1> QED BY <1>5, Zenon DEF UpTo, After

\* A piece of a buffer, of any length and of one cell.
LEMMA Cut ==
    ASSUME NEW S, NEW s, NEW a \in Int, NEW b \in Int, a <= b + 1, \A i \in a .. b : s[i] \in S
    PROVE  /\ SubSeq(s, a, b) \in Seq(S) /\ Len(SubSeq(s, a, b)) = b - a + 1
           /\ \A i \in 1 .. b - a + 1 : SubSeq(s, a, b)[i] = s[a + i - 1]
<1>1. /\ SubSeq(s, a, b) \in Seq(S)
      /\ Len(SubSeq(s, a, b)) = IF a <= b THEN b - a + 1 ELSE 0
      /\ \A i \in 1 .. b - a + 1 : SubSeq(s, a, b)[i] = s[a + i - 1]
  BY SubSeqProperties
<1> QED BY <1>1

LEMMA OneCell ==
    ASSUME NEW S, NEW s, NEW i \in Int, s[i] \in S
    PROVE  SubSeq(s, i, i) = <<s[i]>>
<1> DEFINE t == SubSeq(s, i, i)
           r == <<s[i]>>
<1>1. \A j \in i .. i : s[j] \in S
  OBVIOUS
<1>2. i - i + 1 = 1 /\ i <= i + 1
  OBVIOUS
<1>3. t \in Seq(S) /\ Len(t) = i - i + 1 /\ \A j \in 1 .. i - i + 1 : t[j] = s[i + j - 1]
  BY <1>1, <1>2, Cut
<1>4. r \in Seq(S) /\ Len(r) = 1 /\ r[1] = s[i]
  OBVIOUS
<1> HIDE DEF t, r
<1>5. t[1] = s[i]
  BY <1>3
<1>6. Len(t) = Len(r) /\ \A j \in 1 .. Len(t) : t[j] = r[j]
  BY <1>2, <1>3, <1>4, <1>5
<1>7. t = r
  BY <1>3, <1>4, <1>6, SeqEqual, Zenon
<1> QED BY <1>7 DEF t, r

\* The head of a request is cut at its first two separators into the names and
\* the metadata (message/request.go:96-107).
LEMMA HeadOf ==
    ASSUME NEW m, NEW q, NEW order, NEW n \in {0, 1, 2}, order \in [1 .. n -> Keys],
           Laid(m, q, order, n)
    PROVE  LET head == SubSeq(m, Fixed + 1, m[1])
               tail == After(After(head, Split), Split)
           IN  /\ UpTo(head, Split) = <<"u">> /\ UpTo(After(head, Split), Split) = q.method
               /\ tail \in Seq(Cells) /\ Len(tail) = 4 * n
               /\ \A i \in 1 .. 4 * n : tail[i] = m[10 + i]
<1> DEFINE h == 10 + 4 * n
           head == SubSeq(m, 7, h)
           rest == SubSeq(head, 3, 4 + 4 * n)
           tail == SubSeq(rest, 3, 2 + 4 * n)
<1>1. \A i \in 7 .. h : m[i] \in Cells
  <2>1. \A i \in 1 .. n : /\ m[10 + 4 * i - 3] \in Cells /\ m[10 + 4 * i - 2] \in Cells
                          /\ m[10 + 4 * i - 1] \in Cells /\ m[10 + 4 * i] \in Cells
    <3>1. \A i \in 1 .. n : /\ m[10 + 4 * i - 3] = order[i] /\ m[10 + 4 * i - 2] = "CR"
                            /\ m[10 + 4 * i - 1] = "v" /\ m[10 + 4 * i] = "LF"
      BY Zenon DEF Laid
    <3>2. \A i \in 1 .. n : order[i] \in Cells
      BY DEF Cells
    <3>3. "CR" \in Cells /\ "v" \in Cells /\ "LF" \in Cells
      BY DEF Cells
    <3> HIDE DEF Cells, head, rest, tail, h
    <3>4. ASSUME NEW i \in 1 .. n
          PROVE  /\ m[10 + 4 * i - 3] \in Cells /\ m[10 + 4 * i - 2] \in Cells
                 /\ m[10 + 4 * i - 1] \in Cells /\ m[10 + 4 * i] \in Cells
      <4>1. /\ m[10 + 4 * i - 3] = order[i] /\ m[10 + 4 * i - 2] = "CR"
            /\ m[10 + 4 * i - 1] = "v" /\ m[10 + 4 * i] = "LF" /\ order[i] \in Cells
        BY <3>1, <3>2, Zenon
      <4> QED BY <3>3, <4>1, Zenon
    <3> QED BY <3>4, Zenon
  <2>2. m[7] \in Cells /\ m[8] \in Cells /\ m[9] \in Cells /\ m[10] \in Cells
    BY DEF Laid, Cells
  <2>3. \A i \in 7 .. h : i \in {7, 8, 9, 10} \/ \E j \in 1 .. n :
            i \in {10 + 4 * j - 3, 10 + 4 * j - 2, 10 + 4 * j - 1, 10 + 4 * j}
    <3>1. CASE n = 0
      BY <3>1
    <3>2. CASE n = 1
      BY <3>2
    <3>3. CASE n = 2
      BY <3>3
    <3> QED BY <3>1, <3>2, <3>3
  <2> QED BY <2>1, <2>2, <2>3
<1>2. /\ head \in Seq(Cells) /\ Len(head) = 4 + 4 * n
      /\ \A i \in 1 .. 4 + 4 * n : head[i] = m[6 + i]
  <2>1. h \in Int /\ 7 <= h + 1 /\ h - 7 + 1 = 4 + 4 * n
    OBVIOUS
  <2> HIDE DEF h
  <2>2. /\ head \in Seq(Cells) /\ Len(head) = h - 7 + 1
        /\ \A i \in 1 .. h - 7 + 1 : head[i] = m[7 + i - 1]
    BY <1>1, <2>1, Cut
  <2>3. \A i \in 1 .. 4 + 4 * n : 7 + i - 1 = 6 + i
    OBVIOUS
  <2> HIDE DEF head
  <2> QED BY <2>1, <2>2, <2>3
<1>3. head[1] = "u" /\ head[2] = "LF" /\ head[3] = m[9] /\ head[4] = "LF"
  <2> HIDE DEF head
  <2> QED BY <1>2 DEF Laid
<1> HIDE DEF head
<1>g. m[9] \in Letters /\ m[9] \in Cells /\ m[9] # "LF" /\ q.method = <<m[9]>>
  BY DEF Laid, Letters, Cells
<1>4. UpTo(head, "LF") = SubSeq(head, 1, 1) /\ After(head, "LF") = rest
  <2>1. Len(head) \in Nat /\ 2 \in 1 .. Len(head) /\ \A j \in 1 .. 2 - 1 : head[j] # "LF"
    BY <1>2, <1>3
  <2>2. UpTo(head, "LF") = SubSeq(head, 1, 2 - 1) /\ After(head, "LF") = SubSeq(head, 2 + 1, Len(head))
    BY <1>3, <2>1, CutAtFirst, Zenon
  <2> QED BY <1>2, <2>2
<1>5. SubSeq(head, 1, 1) = <<"u">>
  <2>1. 1 \in Int /\ head[1] = "u" /\ head[1] \in Cells
    BY <1>3 DEF Cells
  <2>2. SubSeq(head, 1, 1) = <<head[1]>>
    BY <2>1, OneCell, Zenon
  <2> QED BY <2>1, <2>2, Zenon
<1>6. /\ rest \in Seq(Cells) /\ Len(rest) = 2 + 4 * n
      /\ \A i \in 1 .. 2 + 4 * n : rest[i] = head[2 + i]
  <2>1. \A i \in 3 .. 4 + 4 * n : head[i] \in Cells
    BY <1>2
  <2>2. /\ rest \in Seq(Cells) /\ Len(rest) = 4 + 4 * n - 3 + 1
        /\ \A i \in 1 .. 4 + 4 * n - 3 + 1 : rest[i] = head[3 + i - 1]
    BY <2>1, Cut
  <2>3. \A i \in 1 .. 2 + 4 * n : 3 + i - 1 = 2 + i
    OBVIOUS
  <2> HIDE DEF rest
  <2> QED BY <2>2, <2>3
<1> HIDE DEF rest
<1>7. rest[1] = m[9] /\ rest[2] = "LF"
  BY <1>3, <1>6
<1>8. UpTo(rest, "LF") = SubSeq(rest, 1, 1) /\ After(rest, "LF") = tail
  <2>1. Len(rest) \in Nat /\ 2 \in 1 .. Len(rest) /\ \A j \in 1 .. 2 - 1 : rest[j] # "LF"
    BY <1>6, <1>7, <1>g
  <2>2. UpTo(rest, "LF") = SubSeq(rest, 1, 2 - 1) /\ After(rest, "LF") = SubSeq(rest, 2 + 1, Len(rest))
    BY <1>7, <2>1, CutAtFirst, Zenon
  <2> QED BY <1>6, <2>2
<1>9. SubSeq(rest, 1, 1) = q.method
  <2>1. 1 \in Int /\ rest[1] = m[9] /\ rest[1] \in Cells
    BY <1>7, <1>g
  <2>2. SubSeq(rest, 1, 1) = <<rest[1]>>
    BY <2>1, OneCell, Zenon
  <2> QED BY <1>g, <2>1, <2>2, Zenon
<1>10. /\ tail \in Seq(Cells) /\ Len(tail) = 4 * n
       /\ \A i \in 1 .. 4 * n : tail[i] = rest[2 + i]
  <2>1. \A i \in 3 .. 2 + 4 * n : rest[i] \in Cells
    BY <1>6
  <2>2. /\ tail \in Seq(Cells) /\ Len(tail) = 2 + 4 * n - 3 + 1
        /\ \A i \in 1 .. 2 + 4 * n - 3 + 1 : tail[i] = rest[3 + i - 1]
    BY <2>1, Cut
  <2>3. \A i \in 1 .. 4 * n : 3 + i - 1 = 2 + i
    OBVIOUS
  <2> HIDE DEF tail
  <2> QED BY <2>2, <2>3
<1> HIDE DEF tail
<1>11. ASSUME NEW i \in 1 .. 4 * n PROVE tail[i] = m[10 + i]
  <2>1. 2 + i \in 1 .. 2 + 4 * n /\ 2 + (2 + i) \in 1 .. 4 + 4 * n
        /\ 2 + (2 + i) = 4 + i /\ 6 + (4 + i) = 10 + i
    OBVIOUS
  <2>2. tail[i] = rest[2 + i] /\ rest[2 + i] = head[2 + (2 + i)]
        /\ head[2 + (2 + i)] = m[6 + (2 + (2 + i))]
    BY <1>2, <1>6, <1>10, <2>1, Zenon
  <2> QED BY <2>1, <2>2, Zenon
<1>12. SubSeq(m, Fixed + 1, m[1]) = head
  BY DEF Laid, Fixed, head
<1> QED BY <1>4, <1>5, <1>8, <1>9, <1>10, <1>11, <1>12, Zenon DEF Split

\* A pair of the metadata, cut out and split into key and value
\* (message/request.go:112-121).
LEMMA PairTuple ==
    ASSUME NEW s, NEW a \in Int, NEW k \in Keys, s[a] = k, s[a + 1] = "CR", s[a + 2] = "v"
    PROVE  SubSeq(s, a, a + 2) = <<k, "CR", "v">>
<1> DEFINE t == SubSeq(s, a, a + 2)
           r == <<k, "CR", "v">>
           b == a + 2
<1>1. a <= b + 1 /\ b - a + 1 = 3 /\ b \in Int
      /\ a + 1 - 1 = a /\ a + 2 - 1 = a + 1 /\ a + 3 - 1 = a + 2
  OBVIOUS
<1>2. \A j \in a .. b : s[j] \in Cells
  BY DEF Cells
<1> HIDE DEF b
<1>3. SubSeq(s, a, b) \in Seq(Cells) /\ Len(SubSeq(s, a, b)) = b - a + 1
      /\ \A j \in 1 .. b - a + 1 : SubSeq(s, a, b)[j] = s[a + j - 1]
  BY <1>1, <1>2, Cut
<1>4. r \in Seq(Cells) /\ Len(r) = 3 /\ r[1] = k /\ r[2] = "CR" /\ r[3] = "v"
  BY DEF Cells
<1> HIDE DEF r
<1>5. SubSeq(s, a, b) = r
  <2>1. SubSeq(s, a, b)[1] = k /\ SubSeq(s, a, b)[2] = "CR" /\ SubSeq(s, a, b)[3] = "v"
    BY <1>1, <1>3
  <2> QED BY <1>1, <1>3, <1>4, <2>1, SeqEqual
<1> QED BY <1>5 DEF b, r

LEMMA PairValue ==
    ASSUME NEW k \in Keys
    PROVE  Head(<<k, "CR", "v">>) = k /\ After(<<k, "CR", "v">>, PairSplit) = <<"v">>
<1> DEFINE s == <<k, "CR", "v">>
<1>1. Len(s) = 3 /\ s[1] = k /\ s[2] = "CR" /\ s[3] = "v" /\ Head(s) = k
  OBVIOUS
<1>2. k # "CR" /\ "v" \in Cells
  BY DEF Keys, Cells
<1> HIDE DEF s
<1>3. Len(s) \in Nat /\ 2 \in 1 .. Len(s) /\ \A j \in 1 .. 2 - 1 : s[j] # "CR"
  BY <1>1, <1>2
<1>4. After(s, "CR") = SubSeq(s, 2 + 1, Len(s))
  BY <1>1, <1>3, CutAtFirst, Zenon
<1>5. SubSeq(s, 3, 3) = <<"v">>
  BY <1>1, <1>2, OneCell
<1> QED BY <1>1, <1>4, <1>5 DEF PairSplit, s

\* The metadata is found again in the head of the request
\* (message/request.go:109-126).
LEMMA PairsOf ==
    ASSUME NEW m, NEW q \in Questions, NEW order, NEW n \in {0, 1, 2}, order \in [1 .. n -> Keys],
           {order[i] : i \in 1 .. n} = DOMAIN q.meta, Laid(m, q, order, n)
    PROVE  Pairs(m) = q.meta
<1> DEFINE tail == After(After(SubSeq(m, Fixed + 1, m[1]), Split), Split)
           ends == {e \in DOMAIN tail : tail[e] = Split}
           from(e) == 1 + Max({0} \cup {f \in ends : f < e})
           pairs == {SubSeq(tail, from(e), e - 1) : e \in ends}
           p(k) == <<k, "CR", "v">>
           D == DOMAIN q.meta
<1>1. /\ tail \in Seq(Cells) /\ Len(tail) = 4 * n /\ \A i \in 1 .. 4 * n : tail[i] = m[10 + i]
  BY HeadOf, Zenon
<1>2. DOMAIN tail = 1 .. 4 * n
  BY <1>1, LenProperties
<1> HIDE DEF tail
<1>3. \A i \in 1 .. n : /\ tail[4 * i - 3] = order[i] /\ tail[4 * i - 2] = "CR"
                        /\ tail[4 * i - 1] = "v" /\ tail[4 * i] = "LF"
  <2> TAKE i \in 1 .. n
  <2>1. 4 * i - 3 \in 1 .. 4 * n /\ 4 * i - 2 \in 1 .. 4 * n /\ 4 * i - 1 \in 1 .. 4 * n /\ 4 * i \in 1 .. 4 * n
    OBVIOUS
  <2>2. 10 + (4 * i - 3) = 10 + 4 * i - 3 /\ 10 + (4 * i - 2) = 10 + 4 * i - 2 /\ 10 + (4 * i - 1) = 10 + 4 * i - 1
    OBVIOUS
  <2>3. /\ tail[4 * i - 3] = m[10 + (4 * i - 3)] /\ tail[4 * i - 2] = m[10 + (4 * i - 2)]
        /\ tail[4 * i - 1] = m[10 + (4 * i - 1)] /\ tail[4 * i] = m[10 + 4 * i]
    BY <1>1, <2>1, Zenon
  <2> QED BY <2>2, <2>3 DEF Laid
<1>4. "LF" \notin Keys /\ Split = "LF"
  BY DEF Keys, Split
<1>5. ends = {4 * i : i \in 1 .. n}
  <2>1. \A e \in 1 .. 4 * n : \E j \in 1 .. n : e \in {4 * j - 3, 4 * j - 2, 4 * j - 1, 4 * j}
    <3>1. CASE n = 0
      BY <3>1
    <3>2. CASE n = 1
      BY <3>2
    <3>3. CASE n = 2
      BY <3>3
    <3> QED BY <3>1, <3>2, <3>3
  <2>2. \A i \in 1 .. n : 4 * i \in 1 .. 4 * n
    OBVIOUS
  <2>3. \A i \in 1 .. n : order[i] # "LF"
    BY <1>4
  <2>4. ASSUME NEW e \in ends PROVE e \in {4 * i : i \in 1 .. n}
    <3>1. PICK j \in 1 .. n : e \in {4 * j - 3, 4 * j - 2, 4 * j - 1, 4 * j}
      BY <1>2, <2>1
    <3>2. tail[e] = "LF"
      BY <1>4
    <3>3. e = 4 * j
      BY <1>3, <2>3, <3>1, <3>2
    <3> QED BY <3>3
  <2>5. ASSUME NEW i \in 1 .. n PROVE 4 * i \in ends
    BY <1>2, <1>3, <1>4, <2>2
  <2> QED BY <2>4, <2>5
<1> HIDE DEF ends
<1>6. ASSUME NEW i \in 1 .. n PROVE from(4 * i) = 4 * i - 3
  <2> DEFINE before == {0} \cup {f \in ends : f < 4 * i}
  <2>1. before \subseteq Int /\ 4 * (i - 1) \in before /\ \A f \in before : f <= 4 * (i - 1)
    <3>1. n = 1 \/ n = 2
      OBVIOUS
    <3>2. CASE i = 1
      BY <1>5, <3>2
    <3>3. CASE i = 2
      <4>1. n = 2
        BY <3>1, <3>3
      <4>2. ends = {4, 8}
        <5>1. 1 .. 2 = {1, 2}
          OBVIOUS
        <5> QED BY <1>5, <4>1, <5>1
      <4> QED BY <3>3, <4>2
    <3> QED BY <3>1, <3>2, <3>3
  <2> HIDE DEF before
  <2>2. \A x \in before : (\A y \in before : x >= y) => x = 4 * (i - 1)
    BY <2>1
  <2>3. Max(before) = 4 * (i - 1)
    BY <2>1, <2>2 DEF Max
  <2> QED BY <2>3 DEF before
<1>7. \A i \in 1 .. n : SubSeq(tail, from(4 * i), 4 * i - 1) = p(order[i])
  <2> TAKE i \in 1 .. n
  <2>1. 4 * i - 3 + 2 = 4 * i - 1 /\ 4 * i - 3 + 1 = 4 * i - 2 /\ 4 * i - 3 \in Int
    OBVIOUS
  <2>2. order[i] \in Keys
    OBVIOUS
  <2>3. /\ tail[4 * i - 3] = order[i] /\ tail[4 * i - 3 + 1] = "CR" /\ tail[4 * i - 3 + 2] = "v"
    BY <1>3, <2>1
  <2>4. SubSeq(tail, 4 * i - 3, 4 * i - 3 + 2) = p(order[i])
    BY <2>1, <2>2, <2>3, PairTuple, Zenon
  <2> QED BY <1>6, <2>1, <2>4, Zenon
<1>8. pairs = {p(k) : k \in D}
  <2> HIDE DEF from, p
  <2>1. pairs = {SubSeq(tail, from(4 * i), 4 * i - 1) : i \in 1 .. n}
    BY <1>5
  <2>2. pairs = {p(order[i]) : i \in 1 .. n}
    BY <1>7, <2>1
  <2> QED BY <2>2
<1>9. \A k \in D : Head(p(k)) = k /\ After(p(k), PairSplit) = <<"v">>
  <2>1. D \subseteq Keys
    BY DEF Questions
  <2> QED BY <2>1, PairValue, Zenon
<1> HIDE DEF pairs, p
<1>10. {Head(pair) : pair \in pairs} = D
  BY <1>8, <1>9
<1>11. \A k \in D : (CHOOSE pair \in pairs : Head(pair) = k) = p(k)
  BY <1>8, <1>9
<1>12. Pairs(m) = [key \in {Head(pair) : pair \in pairs} |->
                     After(CHOOSE pair \in pairs : Head(pair) = key, PairSplit)]
  BY Zenon DEF Pairs, pairs, from, ends, tail
<1>13. Pairs(m) = [key \in D |-> <<"v">>]
  BY <1>9, <1>10, <1>11, <1>12
<1>14. q.meta = [key \in D |-> <<"v">>]
  BY DEF Questions
<1> QED BY <1>13, <1>14

\* A request can be cut into what was put together (message/request.go:40-150).
LEMMA RequestCut ==
    ASSUME NEW q \in Questions, NEW order \in SetToSeqs(DOMAIN q.meta)
    PROVE  LET m == EncodeReq(q, order)
           IN  [DecodeReq(m) EXCEPT !.meta = Pairs(m)] = q
<1> DEFINE m == EncodeReq(q, order)
           D == DOMAIN q.meta
           n == Cardinality(D)
           head == SubSeq(m, Fixed + 1, m[1])
<1>1. D \in SUBSET Keys
  BY DEF Questions
<1>2. n \in {0, 1, 2} /\ order \in [1 .. n -> Keys] /\ {order[i] : i \in 1 .. n} = D
  BY <1>1, Orders
<1>3. Laid(m, q, order, n)
  BY Encoded
<1> HIDE DEF m, n
<1>4. UpTo(head, Split) = <<"u">> /\ UpTo(After(head, Split), Split) = q.method
  BY <1>2, <1>3, HeadOf, Zenon
<1>5. Pairs(m) = q.meta
  BY <1>2, <1>3, PairsOf
<1>6. m[2] = 0 /\ m[3] = q.id /\ m[4] = q.version /\ m[5] = q.compressor /\ m[6] = q.serializer
  BY <1>3 DEF Laid
<1> HIDE DEF head, D
<1>7. DecodeReq(m) = [id |-> q.id, version |-> q.version, compressor |-> q.compressor,
                      serializer |-> q.serializer, service |-> <<"u">>, method |-> q.method,
                      meta |-> <<>>, data |-> <<>>]
  BY <1>4, <1>6, Zenon DEF DecodeReq, head
<1>8. [DecodeReq(m) EXCEPT !.meta = Pairs(m)]
        = [id |-> q.id, version |-> q.version, compressor |-> q.compressor,
           serializer |-> q.serializer, service |-> <<"u">>, method |-> q.method,
           meta |-> q.meta, data |-> <<>>]
  BY <1>5, <1>7
<1>9. q.service = <<"u">> /\ q.data = <<>>
  BY DEF Questions, Service
<1> QED BY <1>8, <1>9 DEF Questions, m

\* The fixed fields of an encoded request are the request's
\* (message/request.go:41-55).
LEMMA AskedFields ==
    ASSUME NEW q \in Questions, NEW order \in SetToSeqs(DOMAIN q.meta)
    PROVE  LET m == EncodeReq(q, order)
           IN  m[3] = q.id /\ m[4] = q.version /\ m[5] = q.compressor /\ m[6] = q.serializer
BY Encoded DEF Laid

\* The id of an encoded response is the response's
\* (message/response.go:27-52).
LEMMA GivenField ==
    ASSUME NEW a \in Replies
    PROVE  EncodeResp(a)[3] = a.id
<1> DEFINE e == Len(a.error)
           d == Len(a.data)
<1>1. e \in {0, 1} /\ d \in {0, 1}
  BY DEF Replies
<1>2. EncodeResp(a) = Buffer(6 + e + d, <<6 + e, d, a.id, a.version, a.compressor, a.serializer>>, a.error \o a.data)
  BY DEF EncodeResp, RespHeadLength, RespBodyLength, Fixed
<1> HIDE DEF e, d
<1>3. 6 + e + d \in Nat /\ 6 + e + d >= 6
  BY <1>1
<1> QED BY <1>2, <1>3 DEF Buffer, Fixed

\* What the settings looked at have in common, and that those with the base
\* codes, or a server that knows all codes, never use a code nobody registered
\* (server.go:143-144, 210-219).
LEMMA SetupFields ==
    ASSUME NEW s \in Setups
    PROVE  /\ s.compressor \in {0, 1} /\ s.serializer \in {1, 2}
           /\ s.method \in {<<x>> : x \in Letters}
           /\ s.methods = Usual.methods
           /\ s.codes.compressors \in {{0}, {0, 1}} /\ s.codes.serializers \in {{1}, {1, 2}}
           /\ s.codes = AllCodes =>
                 s.compressor \in s.codes.compressors /\ s.serializer \in s.codes.serializers
           /\ s.compressor = 0 /\ s.serializer = 1 =>
                 s.compressor \in s.codes.compressors /\ s.serializer \in s.codes.serializers
<1> DEFINE M == Usual.methods
           A == {<<x>> : x \in Letters}
           R == [codes : {NewServer, AllCodes}, services : {{Service}},
                 methods : {M}, method : A, serializer : {1, 2},
                 compressor : {0, 1}, reader : {"written", "panics"}]
<1>0. Method \in A /\ Silent \in A /\ Name \in A /\ <<"x">> \in A
  BY DEF Method, Silent, Name, Letters
<1> HIDE DEF A
<1>1. Usual \in R
  <2>1. M = [m \in {Method, Silent, Name} |->
               IF m = Method THEN "fit" ELSE IF m = Silent THEN "no result" ELSE "no request"]
    BY DEF Usual, RegisterService
  <2> QED BY <1>0, <2>1 DEF Usual, RegisterService
<1> HIDE DEF M
<1>2. ASSUME NEW u \in R
      PROVE  /\ \A v \in {1, 2} : [u EXCEPT !.serializer = v] \in R
             /\ \A a \in A : [u EXCEPT !.method = a] \in R
             /\ \A v \in {0, 1} : [u EXCEPT !.compressor = v] \in R
             /\ [u EXCEPT !.codes = AllCodes] \in R
             /\ [u EXCEPT !.reader = "panics"] \in R
  OBVIOUS
<1>3. Proto \in R
  BY <1>1, <1>2 DEF Proto
<1>4. Full \in R
  BY <1>2, <1>3 DEF Full
<1>5. [Full EXCEPT !.method = Silent] \in R
  BY <1>0, <1>2, <1>4
<1>6. [Usual EXCEPT !.method = Name] \in R
  BY <1>0, <1>1, <1>2
<1>7. [Proto EXCEPT !.method = <<"x">>, !.compressor = 1] \in R
  <2>1. [Proto EXCEPT !.method = <<"x">>] \in R
    BY <1>0, <1>2, <1>3
  <2>2. [[Proto EXCEPT !.method = <<"x">>] EXCEPT !.compressor = 1] \in R
    BY <1>2, <2>1
  <2> QED BY <2>2
<1>8. [Usual EXCEPT !.reader = "panics"] \in R
  BY <1>1, <1>2
<1> HIDE DEF R
<1>9. s \in R
  BY <1>1, <1>3, <1>4, <1>5, <1>6, <1>7, <1>8 DEF Setups
<1>10. s.compressor \in {0, 1} /\ s.serializer \in {1, 2} /\ s.codes \in {NewServer, AllCodes}
       /\ s.method \in A /\ s.methods = M
  BY <1>9 DEF R
<1>11. NewServer.compressors = {0} /\ NewServer.serializers = {1}
      /\ AllCodes.compressors = {0, 1} /\ AllCodes.serializers = {1, 2}
  BY DEF NewServer, AllCodes
<1>12. 0 \in {0, 1} /\ NewServer.compressors # AllCodes.compressors
  BY <1>11
<1> QED BY <1>10, <1>11, <1>12 DEF A, M

\* A call's message is one that a client may send, in the codes it was made
\* with (client.go:95-106).
LEMMA MessageType ==
    ASSUME Typed, NEW c \in RpcCalls
    PROVE  /\ Message(c) \in Questions /\ DOMAIN Message(c).meta = meta[c]
           /\ Message(c).id = c /\ Message(c).compressor = setup.compressor
           /\ Message(c).serializer = setup.serializer
<1>1. meta[c] \in SUBSET Keys
  BY DEF Typed, TypeOK
<1>2. setup.compressor \in {0, 1} /\ setup.serializer \in {1, 2}
      /\ setup.method \in {<<x>> : x \in Letters}
  BY SetupFields DEF Typed
<1>3. [key \in meta[c] |-> <<"v">>] \in UNION {[S -> {<<"v">>}] : S \in SUBSET Keys}
  BY <1>1
<1> QED BY <1>2, <1>3 DEF Message, Questions

\* What the server answers carries the id of the request
\* (server.go:118-131, 192-244).
LEMMA AnswerType ==
    ASSUME NEW m \in Asked, NEW a \in Answers(DecodeReq(m))
    PROVE  a \in Replies /\ a.id = m[3]
<1>1. PICK q \in Questions : \E order \in SetToSeqs(DOMAIN q.meta) :
                               m = EncodeReq(q, order)
  BY DEF Asked
<1>2. m[3] = q.id /\ m[4] = q.version /\ m[5] = q.compressor /\ m[6] = q.serializer
  BY <1>1, AskedFields
<1>3. q.id \in RpcCalls /\ q.version = 0 /\ q.compressor \in {0, 1} /\ q.serializer \in {1, 2}
  BY DEF Questions
<1>4. \E error \in {<<"invalid">>, <<"failed">>, <<>>}, data \in {<<>>, <<"reply">>} :
         a = Answer(DecodeReq(m), error, data)
  BY DEF Answers
<1> QED BY <1>2, <1>3, <1>4 DEF Answer, DecodeReq, Replies

-----------------------------------------------------------------------------
\* A queue without repetitions stays one, and its elements are what was there
\* and what was put in.
LEMMA TailOf ==
    ASSUME NEW S, NEW s \in Seq(S), s # <<>>, IsInjective(s)
    PROVE  /\ Head(s) \in S /\ Head(s) \in ToSet(s) /\ Tail(s) \in Seq(S)
           /\ IsInjective(Tail(s)) /\ ToSet(Tail(s)) = ToSet(s) \ {Head(s)}
<1> DEFINE len == Len(s)
           t == Tail(s)
<1>1. /\ Head(s) \in S /\ t \in Seq(S) /\ Len(t) = len - 1
      /\ \A i \in 1 .. Len(t) : t[i] = s[i + 1]
  BY HeadTailProperties
<1>2. len \in Nat /\ len # 0 /\ DOMAIN s = 1 .. len
  BY EmptySeq, LenProperties
<1>3. DOMAIN t = 1 .. len - 1
  BY <1>1, LenProperties
<1>4. Head(s) = s[1]
  OBVIOUS
<1> HIDE DEF len, t
<1>5. /\ 1 \in DOMAIN s
      /\ \A i \in DOMAIN t : i + 1 \in DOMAIN s /\ i + 1 # 1 /\ t[i] = s[i + 1]
      /\ \A i \in DOMAIN s : i = 1 \/ (i - 1 \in DOMAIN t /\ t[i - 1] = s[i])
      /\ \A i, j \in DOMAIN t : i + 1 = j + 1 => i = j
  BY <1>1, <1>2, <1>3
<1>6. IsInjective(t)
  BY <1>5 DEF IsInjective
<1>7. ToSet(t) = ToSet(s) \ {Head(s)}
  BY <1>4, <1>5 DEF ToSet, IsInjective
<1> QED BY <1>1, <1>4, <1>5, <1>6, <1>7 DEF ToSet, t

\* The same of a queue at whose end something new is put.
LEMMA AppendTo ==
    ASSUME NEW S, NEW s \in Seq(S), NEW e \in S
    PROVE  /\ Append(s, e) \in Seq(S) /\ ToSet(Append(s, e)) = ToSet(s) \cup {e}
           /\ IsInjective(s) /\ e \notin ToSet(s) => IsInjective(Append(s, e))
<1> DEFINE len == Len(s)
           t == Append(s, e)
<1>1. /\ t \in Seq(S) /\ Len(t) = len + 1
      /\ \A i \in 1 .. len : t[i] = s[i]
      /\ t[len + 1] = e
  BY AppendProperties
<1>2. len \in Nat /\ DOMAIN s = 1 .. len
  BY LenProperties
<1>3. DOMAIN t = 1 .. len + 1
  BY <1>1, LenProperties
<1> HIDE DEF len, t
<1>4. /\ \A i \in DOMAIN s : i \in DOMAIN t /\ t[i] = s[i]
      /\ \A i \in DOMAIN t : i \in DOMAIN s \/ i = len + 1
      /\ len + 1 \in DOMAIN t
  BY <1>1, <1>2, <1>3
<1>5. ToSet(t) = ToSet(s) \cup {e}
  BY <1>1, <1>4 DEF ToSet
<1>6. IsInjective(s) /\ e \notin ToSet(s) => IsInjective(t)
  BY <1>1, <1>4 DEF ToSet, IsInjective
<1> QED BY <1>1, <1>5, <1>6 DEF t

\* What is written and what is answered has the type of what is on its way
\* (client.go:162-191, server.go:89-131).
LEMMA RequestType ==
    ASSUME Typed, NEW c \in RpcCalls, NEW order \in SetToSeqs(meta[c])
    PROVE  EncodeReq(Message(c), order) \in Sent /\ EncodeReq(Message(c), order)[3] = c
<1>1. Message(c) \in Questions /\ order \in SetToSeqs(DOMAIN Message(c).meta)
  BY MessageType
<1>2. EncodeReq(Message(c), order) \in Asked
  BY <1>1 DEF Asked
<1> QED BY <1>1, <1>2, AskedFields, MessageType DEF Sent

\* An answer to a request that is on its way goes back with its id
\* (server.go:89-131).
LEMMA ReplyType ==
    ASSUME NEW m \in Sent, NEW a \in Answers(DecodeReq(m))
    PROVE  EncodeResp(a) \in Given /\ EncodeResp(a)[3] = m[3]
BY AnswerType, GivenField DEF Sent, Given

\* A reset leaves a connection's messages or takes them all.
LEMMA ResetType ==
    ASSUME Typed, NEW ks, Reset(ks)
    PROVE  /\ conn' \in [Conns -> {"unopened", "open", "closed", "broken"}]
           /\ inbox' \in [Conns -> Seq(Sent)] /\ outbox' \in [Conns -> Seq(Given)]
<1>1. <<>> \in Seq(Sent) /\ <<>> \in Seq(Given)
  BY EmptySeq
<1> QED BY <1>1 DEF Typed, TypeOK, Reset

\* The client's steps keep the types.
LEMMA ClientTypes ==
    ASSUME Typed, Places, NEW c \in RpcCalls, Run(c)
    PROVE  Typed'
<1> USE DEF Typed, TypeOK
<1>1. Sent' = Sent /\ setup' = setup
  BY DEF Sent, Run, GetIdle, GetNew, GetWaits, Write, Read, ReadPanics, Put, Signal, LeaveByContext
<1>2. CASE GetIdle(c)
  <2>1. Head(idle) \in Conns /\ Tail(idle) \in Seq(Conns)
    BY <1>2, HeadTailProperties DEF GetIdle
  <2> QED BY <1>1, <1>2, <2>1 DEF GetIdle, Goto, netVars
<1>3. CASE GetNew(c)
  <2>1. Failed("error") \in Values
    BY DEF Values
  <2>2. \/ \E k \in Conns : /\ conn' = [conn EXCEPT ![k] = "open"]
                            /\ held' = [held EXCEPT ![c] = k]
                            /\ worker' = [worker EXCEPT ![c] = "write"]
                            /\ value' = value
        \/ /\ conn' = conn /\ held' = held
           /\ worker' = [worker EXCEPT ![c] = "signal"]
           /\ value' = [value EXCEPT ![c] = Failed("error")]
    BY <1>3, Zenon DEF GetNew, Goto, Result
  <2>3. UNCHANGED <<caller, outcome, meta, ended, idle, waiters, inbox, outbox, handler, alive>>
    BY <1>3 DEF GetNew, poolVars
  <2>4. worker' \in [RpcCalls -> {"none", "get", "wait", "write", "read", "put",
                                 "signal", "done"}]
    BY <2>2
  <2>5. value' \in [RpcCalls -> Values]
    BY <2>1, <2>2
  <2>6. held' \in [RpcCalls -> Conns \cup {0}]
    <3>1. held' = held \/ \E k \in Conns : held' = [held EXCEPT ![c] = k]
      BY <2>2, Zenon
    <3>2. held \in [RpcCalls -> Conns \cup {0}]
      OBVIOUS
    <3> HIDE DEF Typed, TypeOK
    <3>3. ASSUME NEW k \in Conns, held' = [held EXCEPT ![c] = k]
          PROVE  held' \in [RpcCalls -> Conns \cup {0}]
      BY <3>2, <3>3
    <3> QED BY <3>1, <3>2, <3>3
  <2>7. conn' \in [Conns -> {"unopened", "open", "closed", "broken"}]
    BY <2>2
  <2> QED BY <1>1, <2>3, <2>4, <2>5, <2>6, <2>7
<1>4. CASE GetWaits(c)
  <2>1. Append(waiters, c) \in Seq(RpcCalls)
    BY AppendProperties
  <2> QED BY <1>1, <1>4, <2>1 DEF GetWaits, Goto, netVars
<1>5. CASE Write(c)
  <2>1. held[c] \in Conns
    BY <1>5 DEF Write, Places, Uses
  <2>2. Failed("error") \in Values /\ Failed("one-way") \in Values
    BY DEF Values
  <2>3. \A order \in SetToSeqs(meta[c]) :
           Append(inbox[held[c]], EncodeReq(Message(c), order)) \in Seq(Sent)
    BY <2>1, RequestType, AppendProperties
  <2>4. PICK order \in SetToSeqs(meta[c]) :
           \/ inbox' = [inbox EXCEPT ![held[c]] = Append(@, EncodeReq(Message(c), order))]
           \/ inbox' = inbox
    BY <1>5 DEF Write
  <2>5. \E v \in Values : value' = [value EXCEPT ![c] = v] \/ value' = value
    BY <1>5, <2>2 DEF Write, Result
  <2>6. \E place \in {"read", "put"} : worker' = [worker EXCEPT ![c] = place]
    BY <1>5 DEF Write, Goto
  <2>7. inbox' \in [Conns -> Seq(Sent)]
    BY <2>1, <2>3, <2>4
  <2>8. UNCHANGED <<caller, outcome, meta, ended, held, idle, waiters, conn, outbox, handler, alive>>
    BY <1>5 DEF Write, poolVars
  <2>9. worker' \in [RpcCalls -> {"none", "get", "wait", "write", "read", "put",
                                 "signal", "done"}]
    BY <2>6
  <2>10. value' \in [RpcCalls -> Values]
    BY <2>5
  <2> QED BY <1>1, <2>7, <2>8, <2>9, <2>10
<1>6. CASE Read(c)
  <2>1. held[c] \in Conns
    BY <1>6 DEF Read, Places, Uses
  <2>2. Failed("error") \in Values
    BY DEF Values
  <2>3. outbox[held[c]] # <<>> =>
           /\ DecodeResp(Head(outbox[held[c]])) \in Values
           /\ Tail(outbox[held[c]]) \in Seq(Given)
    BY <2>1, HeadTailProperties DEF Values
  <2>4. outbox' \in [Conns -> Seq(Given)]
    BY <1>6, <2>1, <2>3 DEF Read
  <2>5. value' \in [RpcCalls -> Values]
    <3>1. PICK v \in Values : value' = [value EXCEPT ![c] = v]
      BY <1>6, <2>2, <2>3, Zenon DEF Read, Result
    <3>2. value \in [RpcCalls -> Values]
      OBVIOUS
    <3> HIDE DEF Typed, TypeOK
    <3> QED BY <3>1, <3>2
  <2> QED BY <1>1, <1>6, <2>4, <2>5 DEF Read, Goto, poolVars
<1>7. CASE ReadPanics(c)
  BY <1>1, <1>7 DEF ReadPanics, callVars, poolVars, netVars
<1>8. CASE Put(c)
  <2>1. held[c] \in Conns
    BY <1>8 DEF Put, Places, Uses
  <2>2. waiters # <<>> => Head(waiters) \in RpcCalls /\ Tail(waiters) \in Seq(RpcCalls)
    BY HeadTailProperties
  <2>3. Append(idle, held[c]) \in Seq(Conns)
    BY <2>1, AppendProperties
  <2>4. UNCHANGED <<setup, caller, outcome, meta, ended, value, inbox, outbox, handler, alive>>
    BY <1>8, Zenon DEF Put
  <2>5. CASE waiters # <<>>
    <3>1. /\ held' = [held EXCEPT ![Head(waiters)] = held[c]]
          /\ worker' = [worker EXCEPT ![c] = "signal", ![Head(waiters)] = "write"]
          /\ waiters' = Tail(waiters) /\ idle' = idle /\ conn' = conn
      BY <1>8, <2>5 DEF Put, PutBack
    <3> QED BY <1>1, <2>1, <2>2, <2>4, <2>5, <3>1
  <2>6. CASE waiters = <<>>
    <3>1. /\ held' = held /\ waiters' = waiters
          /\ worker' = [worker EXCEPT ![c] = "signal"]
          /\ idle' \in {idle, Append(idle, held[c])}
          /\ conn' \in {conn, [conn EXCEPT ![held[c]] = "closed"]}
      BY <1>8, <2>6 DEF Put, PutBack, Goto
    <3> QED BY <1>1, <2>1, <2>3, <2>4, <3>1
  <2> QED BY <2>5, <2>6
<1>9. CASE Signal(c)
  <2>1. PICK what \in {"answer", "one-way", "error", "panic"} : Give(c, what)
    BY <1>9 DEF Signal, Outcomes
  <2>2. /\ caller' \in [RpcCalls -> {"idle", "select", "returned", "panicked"}]
        /\ outcome' \in [RpcCalls -> {"none", "error", "one-way", "context", "panic", "answer"}]
    BY <2>1 DEF Give
  <2> QED BY <1>1, <1>9, <2>2 DEF Signal, Goto, poolVars, netVars
<1>10. CASE LeaveByContext(c)
  BY <1>1, <1>10 DEF LeaveByContext, Give, poolVars, netVars
<1> QED BY <1>2, <1>3, <1>4, <1>5, <1>6, <1>7, <1>8, <1>9, <1>10 DEF Run

\* The other steps of the client's process.
LEMMA CallerTypes ==
    ASSUME Typed, NEW c \in RpcCalls,
           End(c) \/ (\E keys \in SUBSET Keys : Call(c, keys)) \/ Expire
    PROVE  Typed'
<1> USE DEF Typed, TypeOK
<1>1. Sent' = Sent /\ setup' = setup
  BY DEF Sent, End, Call, Expire
<1>2. CASE End(c)
  BY <1>1, <1>2 DEF End, poolVars, netVars
<1>3. ASSUME NEW keys \in SUBSET Keys, Call(c, keys) PROVE Typed'
  <2>1. UNCHANGED <<setup, ended, value, held, idle, waiters, conn, inbox, outbox, handler, alive>>
    BY <1>3 DEF Call, poolVars, netVars
  <2>5. meta' \in [RpcCalls -> SUBSET Keys]
    BY <1>3 DEF Call
  <2>2. worker' = worker \/ worker' = [worker EXCEPT ![c] = "get"]
    BY <1>3, Zenon DEF Call
  <2>3. /\ caller' \in [RpcCalls -> {"idle", "select", "returned", "panicked"}]
        /\ outcome' \in [RpcCalls -> {"none", "error", "one-way", "context", "panic", "answer"}]
    BY <1>3 DEF Call, Give
  <2>4. worker' \in [RpcCalls -> {"none", "get", "wait", "write", "read", "put",
                                 "signal", "done"}]
    BY <2>2
  <2> QED BY <1>1, <2>1, <2>3, <2>4, <2>5
<1>4. CASE Expire
  <2>1. Head(idle) \in Conns /\ Tail(idle) \in Seq(Conns)
    BY <1>4, HeadTailProperties DEF Expire
  <2> QED BY <1>1, <1>4, <2>1 DEF Expire, callVars
<1> QED BY <1>2, <1>3, <1>4

\* What a step of the server's process or of the network does: nothing to the
\* connections, a reset of some, or the turn of a handler.
Turn(k) ==
    /\ inbox[k] # <<>> /\ conn' = conn
    /\ inbox' = [inbox EXCEPT ![k] = Tail(@)]
    /\ \/ outbox' = outbox
       \/ /\ conn[k] = "open"
          /\ \E a \in Answers(DecodeReq(Head(inbox[k]))) :
                outbox' = [outbox EXCEPT ![k] = Append(@, EncodeResp(a))]

ServerStep ==
    \/ \E k \in Conns : Accept(k) \/ Serve(k) \/ HandlerReturns(k) \/ Break(k)
    \/ CloseListener

\* What a step of the server changes (server.go:58-116).
LEMMA ServerEffects ==
    ASSUME ServerStep
    PROVE  /\ UNCHANGED <<setup, callVars, poolVars>>
           /\ \/ UNCHANGED netVars
              \/ \E ks \in SUBSET Conns : Reset(ks)
              \/ \E k \in Conns : Turn(k)
<1>1. ASSUME NEW k \in Conns, Accept(k)
      PROVE  UNCHANGED <<setup, callVars, poolVars>> /\ (UNCHANGED netVars \/ Reset(Conns))
  BY <1>1 DEF Accept, ServerDies
<1>2. ASSUME NEW k \in Conns, Serve(k)
      PROVE  UNCHANGED <<setup, callVars, poolVars>> /\ (Turn(k) \/ Reset(Conns))
  BY <1>2 DEF Serve, ServerDies, Turn
<1>3. ASSUME NEW k \in Conns, HandlerReturns(k)
      PROVE  UNCHANGED <<setup, callVars, poolVars>> /\ UNCHANGED netVars
  BY <1>3 DEF HandlerReturns
<1>4. ASSUME NEW k \in Conns, Break(k)
      PROVE  UNCHANGED <<setup, callVars, poolVars>> /\ Reset({k})
  BY <1>4 DEF Break
<1>5. ASSUME CloseListener
      PROVE  /\ UNCHANGED <<setup, callVars, poolVars>>
             /\ Reset({k \in Conns : handler[k] = "none"})
  BY <1>5 DEF CloseListener
<1>6. {k \in Conns : handler[k] = "none"} \in SUBSET Conns /\ Conns \in SUBSET Conns
      /\ \A k \in Conns : {k} \in SUBSET Conns
  OBVIOUS
<1> QED BY <1>1, <1>2, <1>3, <1>4, <1>5, <1>6 DEF ServerStep

\* The server's steps keep the types.
LEMMA ServerTypes ==
    ASSUME Typed, ServerStep
    PROVE  Typed'
<1>1. /\ setup' = setup /\ Sent' = Sent
      /\ UNCHANGED <<caller, outcome, meta, ended, worker, value, held, idle, waiters>>
  BY ServerEffects DEF callVars, poolVars, Sent
<1> DEFINE NetTyped ==
              /\ conn \in [Conns -> {"unopened", "open", "closed", "broken"}]
              /\ inbox \in [Conns -> Seq(Sent)] /\ outbox \in [Conns -> Seq(Given)]
<1>2. NetTyped'
  <2>1. CASE UNCHANGED netVars
    BY <1>1, <2>1 DEF netVars, Typed, TypeOK
  <2>2. CASE \E ks \in SUBSET Conns : Reset(ks)
    BY <1>1, <2>2, ResetType
  <2>3. ASSUME NEW k \in Conns, Turn(k) PROVE  NetTyped'
    <3>1. Head(inbox[k]) \in Sent /\ Tail(inbox[k]) \in Seq(Sent)
      BY <2>3, HeadTailProperties DEF Turn, Typed
    <3>2. \A a \in Answers(DecodeReq(Head(inbox[k]))) :
             Append(outbox[k], EncodeResp(a)) \in Seq(Given)
      BY <3>1, ReplyType, AppendProperties DEF Typed
    <3>3. conn' \in [Conns -> {"unopened", "open", "closed", "broken"}]
      BY <2>3 DEF Turn, Typed, TypeOK
    <3>4. inbox' \in [Conns -> Seq(Sent)]
      <4>1. inbox \in [Conns -> Seq(Sent)] /\ inbox' = [inbox EXCEPT ![k] = Tail(@)]
        BY <2>3, Zenon DEF Turn, Typed
      <4> QED BY <3>1, <4>1
    <3>5. outbox' \in [Conns -> Seq(Given)]
      <4>1. outbox \in [Conns -> Seq(Given)]
        BY Zenon DEF Typed
      <4>2. ASSUME NEW s \in Seq(Given) PROVE [outbox EXCEPT ![k] = s] \in [Conns -> Seq(Given)]
        BY <4>1
      <4>3. \/ outbox' = outbox
            \/ \E a \in Answers(DecodeReq(Head(inbox[k]))) :
                  outbox' = [outbox EXCEPT ![k] = Append(outbox[k], EncodeResp(a))]
        BY <2>3, <4>1 DEF Turn
      <4> QED BY <3>2, <4>1, <4>2, <4>3
    <3> QED BY <1>1, <3>3, <3>4, <3>5
  <2> QED BY <2>1, <2>2, <2>3, ServerEffects
<1> DEFINE Stays ==
              /\ \/ handler' = handler
                 \/ \E k \in Conns : \E place \in {"read", "returned"} :
                        handler' = [handler EXCEPT ![k] = place]
              /\ alive' \in {alive, alive \ {"listener"}, alive \ {"server", "listener"}}
<1>3. Stays
  <2>1. ASSUME NEW k \in Conns, Accept(k) PROVE Stays
    BY <2>1 DEF Accept, ServerDies
  <2>2. ASSUME NEW k \in Conns, Serve(k) PROVE Stays
    BY <2>2 DEF Serve, ServerDies
  <2>3. ASSUME NEW k \in Conns, HandlerReturns(k) PROVE Stays
    BY <2>3 DEF HandlerReturns
  <2>4. ASSUME NEW k \in Conns, Break(k) PROVE Stays
    BY <2>4 DEF Break
  <2>5. ASSUME CloseListener PROVE Stays
    BY <2>5 DEF CloseListener
  <2> QED BY <2>1, <2>2, <2>3, <2>4, <2>5 DEF ServerStep
<1>4. handler' \in [Conns -> {"none", "read", "returned"}]
  BY <1>3 DEF Typed, TypeOK
<1>5. alive' \subseteq {"client", "server", "listener"}
  BY <1>3 DEF Typed, TypeOK
<1> QED BY <1>1, <1>2, <1>4, <1>5 DEF Typed, TypeOK

-----------------------------------------------------------------------------
\* The client's steps leave every connection to one call or to the pool.
LEMMA ClientPool ==
    ASSUME Typed, Typed', Places, Exclusive, Pool, NEW c \in RpcCalls, Run(c)
    PROVE  Places' /\ Exclusive' /\ Pool'
<1> DEFINE Pooled == Places /\ Exclusive /\ Pool
<1>t. /\ caller \in [RpcCalls -> {"idle", "select", "returned", "panicked"}]
      /\ worker \in [RpcCalls -> {"none", "get", "wait", "write", "read", "put",
                                   "signal", "done"}]
      /\ held \in [RpcCalls -> Conns \cup {0}]
      /\ conn \in [Conns -> {"unopened", "open", "closed", "broken"}]
      /\ idle \in Seq(Conns) /\ waiters \in Seq(RpcCalls)
  BY DEF Typed, TypeOK
<1>s. ToSet(waiters) \subseteq RpcCalls /\ ToSet(idle) \subseteq Conns
  BY <1>t, LenProperties, ElementOfSeq DEF ToSet
<1>0. 0 \notin Conns
  BY DEF Conns
<1> USE DEF Places, Exclusive, Pool, Uses
<1>1. CASE GetIdle(c)
  <2>1. /\ Head(idle) \in Conns /\ Head(idle) \in ToSet(idle)
        /\ IsInjective(idle') /\ ToSet(idle') = ToSet(idle) \ {Head(idle)}
    BY <1>1, <1>t, TailOf DEF GetIdle
  <2>2. /\ worker[c] = "get" /\ held' = [held EXCEPT ![c] = Head(idle)]
        /\ worker' = [worker EXCEPT ![c] = "write"]
        /\ UNCHANGED <<caller, conn, waiters>>
    BY <1>1 DEF GetIdle, Goto, netVars
  <2>3. Places'
    BY <1>t, <1>0, <2>1, <2>2
  <2>4. Exclusive'
    BY <1>t, <2>1, <2>2
  <2>5. Pool'
    BY <1>t, <2>1, <2>2
  <2> QED BY <2>3, <2>4, <2>5
<1>2. CASE GetNew(c)
  <2>1. CASE held' = held
    <3>1. /\ worker[c] = "get" /\ worker' = [worker EXCEPT ![c] = "signal"] /\ conn' = conn
          /\ UNCHANGED <<caller, waiters, idle>>
      BY <1>2, <1>t, <1>0, <2>1 DEF GetNew, Goto, poolVars
    <3>2. Places' /\ Exclusive'
      BY <1>t, <2>1, <3>1
    <3>3. Pool'
      BY <1>t, <2>1, <3>1
    <3> QED BY <3>2, <3>3
  <2>2. CASE held' # held
    <3>1. PICK k \in Conns : /\ conn[k] = "unopened" /\ conn' = [conn EXCEPT ![k] = "open"]
                             /\ held' = [held EXCEPT ![c] = k]
      BY <1>2, <2>2 DEF GetNew
    <3>2. /\ worker[c] = "get" /\ worker' = [worker EXCEPT ![c] = "write"]
          /\ UNCHANGED <<caller, waiters, idle>>
      BY <1>2, <2>2 DEF GetNew, Goto, poolVars
    <3>3. Places'
      BY <1>t, <1>0, <3>1, <3>2
    <3>4. Exclusive'
      BY <1>t, <3>1, <3>2, <1>0
    <3>5. Pool'
      BY <1>t, <3>1, <3>2
    <3> QED BY <3>3, <3>4, <3>5
  <2> QED BY <2>1, <2>2
<1>3. CASE GetWaits(c)
  <2>1. /\ worker[c] = "get" /\ worker' = [worker EXCEPT ![c] = "wait"]
        /\ waiters' = Append(waiters, c) /\ UNCHANGED <<caller, held, conn, idle>>
    BY <1>3 DEF GetWaits, Goto, netVars
  <2>2. c \notin ToSet(waiters)
    BY <2>1
  <2>3. IsInjective(waiters') /\ ToSet(waiters') = ToSet(waiters) \cup {c}
    BY <1>t, <2>1, <2>2, AppendTo
  <2>4. Places' /\ Exclusive'
    BY <1>t, <2>1
  <2>5. Pool'
    BY <1>t, <2>1, <2>3
  <2> QED BY <2>4, <2>5
<1>4. CASE Put(c)
  <2>1. worker[c] = "put" /\ caller' = caller /\ held[c] \in Conns /\ conn[held[c]] # "unopened"
    BY <1>4, <1>t DEF Put
  <2>2. CASE waiters # <<>>
    <3> DEFINE w == Head(waiters)
    <3>1. /\ w \in RpcCalls /\ w \in ToSet(waiters)
          /\ IsInjective(Tail(waiters)) /\ ToSet(Tail(waiters)) = ToSet(waiters) \ {w}
      BY <1>t, <2>2, TailOf
    <3>2. worker[w] = "wait" /\ w # c
      BY <3>1, <2>1
    <3>3. /\ held' = [held EXCEPT ![w] = held[c]]
          /\ worker' = [worker EXCEPT ![c] = "signal", ![w] = "write"]
          /\ waiters' = Tail(waiters) /\ UNCHANGED <<idle, conn>>
      BY <1>4, <2>2 DEF Put, PutBack
    <3> HIDE DEF w
    <3>4. Places'
      BY <1>t, <1>0, <2>1, <3>1, <3>2, <3>3
    <3>5. Exclusive'
      BY <1>t, <2>1, <3>1, <3>2, <3>3
    <3>6. Pool'
      BY <1>t, <1>s, <2>1, <3>1, <3>2, <3>3
    <3> QED BY <3>4, <3>5, <3>6
  <2>3. CASE waiters = <<>>
    <3>1. held' = held /\ waiters' = waiters /\ worker' = [worker EXCEPT ![c] = "signal"]
      BY <1>4, <2>3 DEF Put, PutBack, Goto
    <3>2. held[c] \notin ToSet(idle)
      BY <2>1
    <3>3. CASE idle' = Append(idle, held[c]) /\ conn' = conn
      <4>1. IsInjective(idle') /\ ToSet(idle') = ToSet(idle) \cup {held[c]}
        BY <1>t, <2>1, <3>2, <3>3, AppendTo
      <4>2. Places' /\ Exclusive'
        BY <1>t, <2>1, <3>1, <3>3, <4>1
      <4>3. Pool'
        BY <1>t, <2>1, <3>1, <3>3, <4>1
      <4> QED BY <4>2, <4>3
    <3>4. CASE conn' = [conn EXCEPT ![held[c]] = "closed"] /\ idle' = idle
      <4>1. Places' /\ Exclusive'
        BY <1>t, <2>1, <3>1, <3>4
      <4>2. Pool'
        BY <1>t, <2>1, <3>1, <3>4
      <4> QED BY <4>1, <4>2
    <3> QED BY <1>4, <2>3, <3>3, <3>4 DEF Put, PutBack
  <2> QED BY <2>2, <2>3
<1>5. CASE Write(c) \/ Read(c)
  <2>1. /\ Uses(c) /\ \E place \in {"read", "put"} : worker' = [worker EXCEPT ![c] = place]
        /\ UNCHANGED <<caller, held, idle, waiters, conn>>
    BY <1>5 DEF Write, Read, Goto, poolVars
  <2>2. Places' /\ Exclusive'
    BY <1>t, <2>1
  <2>3. Pool'
    BY <1>t, <2>1
  <2> QED BY <2>2, <2>3
<1>6. CASE ReadPanics(c)
  BY <1>6 DEF ReadPanics, callVars, poolVars, netVars
<1>7. CASE Signal(c) \/ LeaveByContext(c)
  <2>1. /\ worker' = worker \/ (worker[c] = "signal" /\ worker' = [worker EXCEPT ![c] = "done"])
        /\ \E place \in {"returned", "panicked"} : caller' = [caller EXCEPT ![c] = place]
        /\ UNCHANGED <<held, idle, waiters, conn>>
    BY <1>7 DEF Signal, LeaveByContext, Give, Goto, poolVars, netVars
  <2>2. Places' /\ Exclusive'
    BY <1>t, <2>1
  <2>3. Pool'
    BY <1>t, <1>s, <2>1
  <2> QED BY <2>2, <2>3
<1> QED BY <1>1, <1>2, <1>3, <1>4, <1>5, <1>6, <1>7 DEF Run

\* So do the callers' steps, and the pool when it drops a connection.
LEMMA CallerPool ==
    ASSUME Typed, Typed', Places, Exclusive, Pool, NEW c \in RpcCalls,
           End(c) \/ (\E keys \in SUBSET Keys : Call(c, keys)) \/ Expire
    PROVE  Places' /\ Exclusive' /\ Pool'
<1>t. /\ caller \in [RpcCalls -> {"idle", "select", "returned", "panicked"}]
      /\ worker \in [RpcCalls -> {"none", "get", "wait", "write", "read", "put",
                                   "signal", "done"}]
      /\ held \in [RpcCalls -> Conns \cup {0}]
      /\ conn \in [Conns -> {"unopened", "open", "closed", "broken"}]
      /\ idle \in Seq(Conns) /\ waiters \in Seq(RpcCalls)
  BY DEF Typed, TypeOK
<1>s. ToSet(waiters) \subseteq RpcCalls /\ ToSet(idle) \subseteq Conns
  BY <1>t, LenProperties, ElementOfSeq DEF ToSet
<1>0. 0 \notin Conns
  BY DEF Conns
<1> USE DEF Places, Exclusive, Pool, Uses
<1>1. CASE End(c)
  BY <1>1 DEF End, poolVars, netVars
<1>2. ASSUME NEW keys \in SUBSET Keys, Call(c, keys) PROVE Places' /\ Exclusive' /\ Pool'
  <2>1. /\ worker[c] = "none"
        /\ worker' = worker \/ worker' = [worker EXCEPT ![c] = "get"]
        /\ \E place \in {"select", "returned", "panicked"} : caller' = [caller EXCEPT ![c] = place]
        /\ UNCHANGED <<held, idle, waiters, conn>>
    BY <1>2 DEF Call, Give, poolVars, netVars
  <2>2. Places' /\ Exclusive'
    BY <1>t, <2>1
  <2>3. Pool'
    BY <1>t, <1>s, <2>1
  <2> QED BY <2>2, <2>3
<1>3. CASE Expire
  <2>1. /\ Head(idle) \in Conns /\ Head(idle) \in ToSet(idle)
        /\ IsInjective(idle') /\ ToSet(idle') = ToSet(idle) \ {Head(idle)}
    BY <1>3, <1>t, TailOf DEF Expire
  <2>2. /\ conn' = [conn EXCEPT ![Head(idle)] = "closed"]
        /\ UNCHANGED <<caller, worker, held, waiters>>
    BY <1>3 DEF Expire, callVars
  <2>3. Places' /\ Exclusive'
    BY <1>t, <1>0, <2>1, <2>2
  <2>4. Pool'
    BY <1>t, <1>s, <2>1, <2>2
  <2> QED BY <2>3, <2>4
<1> QED BY <1>1, <1>2, <1>3

\* The server and the network take no connection from anyone.
LEMMA ServerPool ==
    ASSUME Typed, Places, Exclusive, Pool, ServerStep
    PROVE  Places' /\ Exclusive' /\ Pool'
<1>1. UNCHANGED <<caller, worker, held, idle, waiters>>
  BY ServerEffects DEF callVars, poolVars
<1>2. \A k \in Conns : conn[k] # "unopened" => conn'[k] # "unopened"
  BY ServerEffects DEF netVars, Reset, Turn
<1>3. held \in [RpcCalls -> Conns \cup {0}] /\ ToSet(idle) \subseteq Conns
  BY LenProperties, ElementOfSeq DEF ToSet, Typed, TypeOK
<1> QED BY <1>1, <1>2, <1>3 DEF Places, Exclusive, Pool, Uses

-----------------------------------------------------------------------------
\* What failed in the client carries nobody's id (client.go:162-180).
LEMMA NoAnswer ==
    ASSUME NEW what
    PROVE  Failed(what).id = Nobody
BY DEF Failed, None

\* A step that moves no message and lets no reader go leaves the messages to
\* whom they belong.
LEMMA Kept ==
    ASSUME Typed, Unmixed, Quiet, Unanswered, AnswersMatch,
           UNCHANGED <<setup, meta, inbox, outbox>>,
           \A d \in RpcCalls : worker[d] = "read" => worker'[d] = "read",
           \A d \in RpcCalls : held[d] # 0 => held'[d] = held[d],
           \A d \in RpcCalls : value'[d] = value[d] \/ value'[d].id = Nobody,
           \A k \in Conns : conn'[k] \in {"unopened", "broken"} => conn'[k] = conn[k]
    PROVE  Unmixed' /\ Quiet' /\ Unanswered' /\ AnswersMatch'
<1>t. held \in [RpcCalls -> Conns \cup {0}] /\ 0 \notin Conns
  BY DEF Typed, TypeOK, Conns
<1>1. Sent' = Sent
  BY DEF Sent
<1>2. \A k \in Conns : Mixed(k) => Mixed(k)'
  BY <1>t DEF Mixed, OneWay
<1>3. \A k \in Conns : \A m : Asks(m, k) => Asks(m, k)'
  BY <1>t DEF Asks
<1>4. Unmixed'
  BY <1>1, <1>2, <1>3 DEF Unmixed, Carries
<1>5. Quiet'
  BY DEF Quiet
<1>6. Unanswered'
  BY <1>t DEF Unanswered
<1>7. AnswersMatch'
  BY <1>t DEF Unanswered, AnswersMatch, OneWay
<1> QED BY <1>4, <1>5, <1>6, <1>7

\* The client's steps keep messages and answers with the calls they belong to.
LEMMA ClientNet ==
    ASSUME Typed, Typed', Places, Exclusive, Pool, Unmixed, Quiet, Unanswered,
           AnswersMatch, NEW c \in RpcCalls, Run(c)
    PROVE  Unmixed' /\ Quiet' /\ Unanswered' /\ AnswersMatch'
<1>t. /\ worker \in [RpcCalls -> {"none", "get", "wait", "write", "read", "put",
                                   "signal", "done"}]
      /\ held \in [RpcCalls -> Conns \cup {0}] /\ 0 \notin Conns
      /\ value \in [RpcCalls -> Values]
      /\ conn \in [Conns -> {"unopened", "open", "closed", "broken"}]
      /\ inbox \in [Conns -> Seq(Sent)] /\ outbox \in [Conns -> Seq(Given)]
      /\ waiters \in Seq(RpcCalls)
  BY DEF Typed, TypeOK, Conns
<1>1. CASE GetIdle(c)
  <2>1. /\ worker[c] = "get" /\ held[c] = 0 /\ held' = [held EXCEPT ![c] = Head(idle)]
        /\ worker' = [worker EXCEPT ![c] = "write"]
        /\ UNCHANGED <<setup, meta, value, conn, inbox, outbox>>
    BY <1>1 DEF GetIdle, Goto, netVars, Places
  <2> QED BY <1>t, <2>1, Kept
<1>2. CASE GetNew(c)
  <2>1. /\ worker[c] = "get" /\ held[c] = 0 /\ UNCHANGED <<setup, meta, inbox, outbox>>
        /\ \E place \in {"write", "signal"} : worker' = [worker EXCEPT ![c] = place]
        /\ held' = held \/ \E k \in Conns : held' = [held EXCEPT ![c] = k]
        /\ value' = value \/ value' = [value EXCEPT ![c] = Failed("error")]
        /\ conn' = conn \/ \E k \in Conns : conn' = [conn EXCEPT ![k] = "open"]
    BY <1>2 DEF GetNew, Goto, Result, Places
  <2>2. \A d \in RpcCalls : worker[d] = "read" => worker'[d] = "read"
    BY <1>t, <2>1
  <2>3. \A d \in RpcCalls : held[d] # 0 => held'[d] = held[d]
    BY <1>t, <2>1
  <2>4. \A d \in RpcCalls : value'[d] = value[d] \/ value'[d].id = Nobody
    BY <1>t, <2>1, NoAnswer
  <2>5. \A k \in Conns : conn'[k] \in {"unopened", "broken"} => conn'[k] = conn[k]
    BY <1>t, <2>1
  <2> QED BY <2>1, <2>2, <2>3, <2>4, <2>5, Kept
<1>3. CASE GetWaits(c)
  <2>1. /\ worker[c] = "get" /\ worker' = [worker EXCEPT ![c] = "wait"]
        /\ UNCHANGED <<setup, meta, held, value, conn, inbox, outbox>>
    BY <1>3 DEF GetWaits, Goto, netVars
  <2> QED BY <1>t, <2>1, Kept
<1>4. CASE Put(c)
  <2>1. worker[c] = "put" /\ UNCHANGED <<setup, meta, value, inbox, outbox>>
    BY <1>4 DEF Put
  <2>2. CASE waiters # <<>>
    <3> DEFINE w == Head(waiters)
    <3>1. w \in RpcCalls /\ worker[w] = "wait" /\ held[w] = 0
      BY <1>t, <2>2, TailOf DEF Pool, Places
    <3>2. /\ held' = [held EXCEPT ![w] = held[c]] /\ conn' = conn
          /\ worker' = [worker EXCEPT ![c] = "signal", ![w] = "write"]
      BY <1>4, <2>2 DEF Put, PutBack
    <3> HIDE DEF w
    <3> QED BY <1>t, <2>1, <3>1, <3>2, Kept
  <2>3. CASE waiters = <<>>
    <3>1. /\ held' = held /\ worker' = [worker EXCEPT ![c] = "signal"]
          /\ conn' = conn \/ conn' = [conn EXCEPT ![held[c]] = "closed"]
      BY <1>4, <2>3 DEF Put, PutBack, Goto
    <3> QED BY <1>t, <2>1, <3>1, Kept
  <2> QED BY <2>2, <2>3
<1>5. CASE ReadPanics(c) \/ Signal(c) \/ LeaveByContext(c)
  <2>1. /\ UNCHANGED <<setup, meta, held, value, conn, inbox, outbox>>
        /\ worker' = worker \/ (worker[c] = "signal" /\ worker' = [worker EXCEPT ![c] = "done"])
    BY <1>5 DEF ReadPanics, Signal, LeaveByContext, Goto, callVars, netVars
  <2> QED BY <1>t, <2>1, Kept
<1>6. CASE Write(c)
  <2>1. /\ worker[c] = "write" /\ held[c] \in Conns
        /\ UNCHANGED <<setup, meta, held, conn, outbox>>
    BY <1>6, <1>t DEF Write, Places, Uses
  <2>2. CASE conn[held[c]] # "open"
    <3>1. /\ inbox' = inbox /\ value' = [value EXCEPT ![c] = Failed("error")]
          /\ worker' = [worker EXCEPT ![c] = "put"]
      BY <1>6, <2>2 DEF Write, Result, Goto
    <3> QED BY <1>t, <2>1, <3>1, NoAnswer, Kept
  <2>3. CASE conn[held[c]] = "open"
    <3>0. PICK k \in Conns : k = held[c]
      BY <2>1
    <3>1. PICK order \in SetToSeqs(meta[c]) :
             /\ inbox' = [inbox EXCEPT ![k] = Append(@, EncodeReq(Message(c), order))]
             /\ IF OneWay(c)
                THEN /\ value' = [value EXCEPT ![c] = Failed("one-way")]
                     /\ worker' = [worker EXCEPT ![c] = "put"]
                ELSE worker' = [worker EXCEPT ![c] = "read"] /\ value' = value
      BY <1>6, <2>3, <3>0 DEF Write, Result, Goto
    <3>2. PICK m \in Sent : m = EncodeReq(Message(c), order) /\ m[3] = c
      BY RequestType
    <3>3. Sent' = Sent
      BY <2>1 DEF Sent
    <3>4. ASSUME NEW j \in Conns, ~Mixed(j)' PROVE Carries(j)'
      <4>1. ~Mixed(j) /\ Carries(j)
        BY <2>1, <3>4 DEF Mixed, OneWay, Unmixed
      <4>2. CASE j # k
        <5>1. inbox'[j] = inbox[j] /\ outbox'[j] = outbox[j]
          BY <1>t, <2>1, <3>0, <3>1, <4>2
        <5>2. \A n : Asks(n, j) => Asks(n, j)'
          BY <1>t, <2>1, <3>0, <3>1, <4>2 DEF Asks
        <5> QED BY <3>3, <4>1, <5>1, <5>2 DEF Carries
      <4>3. CASE j = k
        <5>1. \A n : ~Asks(n, k)
          BY <2>1, <3>0 DEF Asks, Exclusive, Uses
        <5>2. inbox[k] = <<>> /\ outbox[k] = <<>>
          BY <4>1, <4>3, <5>1 DEF Carries
        <5>3. Append(<<>>, m) = <<m>>
          OBVIOUS
        <5>4. inbox'[k] = <<m>> /\ outbox'[k] = <<>>
          BY <1>t, <2>1, <3>0, <3>1, <5>2, <3>2, <5>3
        <5>5. ~OneWay(c)
          BY <2>1, <3>0, <3>4, <4>3 DEF Mixed, OneWay
        <5>6. Asks(m, k)'
          BY <1>t, <2>1, <3>0, <3>1, <3>2, <5>5 DEF Asks
        <5> QED BY <3>2, <3>3, <4>3, <5>4, <5>6 DEF Carries
      <4> QED BY <4>2, <4>3
    <3>5. Unmixed'
      BY <3>4 DEF Unmixed
    <3>6. Quiet'
      BY <1>t, <2>1, <2>3, <3>0, <3>1 DEF Quiet
    <3>7. \A d \in RpcCalls : value'[d] = value[d] \/ value'[d].id = Nobody
      BY <1>t, <3>1, NoAnswer
    <3>8. Unanswered' /\ AnswersMatch'
      BY <2>1, <3>7 DEF Unanswered, AnswersMatch, OneWay
    <3> QED BY <3>5, <3>6, <3>8
  <2> QED BY <2>2, <2>3
<1>7. CASE Read(c)
  <2> DEFINE k == held[c]
  <2>1. /\ worker[c] = "read" /\ k \in Conns
        /\ worker' = [worker EXCEPT ![c] = "put"]
        /\ UNCHANGED <<setup, meta, held, conn, inbox>>
        /\ \/ /\ outbox[k] # <<>>
              /\ value' = [value EXCEPT ![c] = DecodeResp(Head(outbox[k]))]
              /\ outbox' = [outbox EXCEPT ![k] = Tail(@)]
           \/ /\ conn[k] = "broken" /\ outbox' = outbox
              /\ value' = [value EXCEPT ![c] = Failed("error")]
    BY <1>7, <1>t DEF Read, Goto, Result, Places, Uses
  <2>2. Sent' = Sent
    BY <2>1 DEF Sent
  <2>3. ~Mixed(k) /\ outbox[k] # <<>> =>
           /\ inbox[k] = <<>> /\ Tail(outbox[k]) = <<>>
           /\ DecodeResp(Head(outbox[k])).id = c
    <3> SUFFICES ASSUME ~Mixed(k), outbox[k] # <<>> PROVE <2>3!2
      OBVIOUS
    <3>1. PICK m \in Given : inbox[k] = <<>> /\ outbox[k] = <<m>> /\ Asks(m, k)
      BY <2>1 DEF Unmixed, Carries
    <3>2. m[3] = c
      BY <2>1, <3>1 DEF Asks, Exclusive, Uses
    <3>3. Tail(outbox[k]) = <<>> /\ Head(outbox[k]) = m
      BY <3>1
    <3> QED BY <3>1, <3>2, <3>3 DEF DecodeResp
  <2>4. ASSUME NEW j \in Conns, ~Mixed(j)' PROVE Carries(j)'
    <3>1. ~Mixed(j) /\ Carries(j)
      BY <2>1, <2>4 DEF Mixed, OneWay, Unmixed
    <3>2. CASE j # k
      <4>1. inbox'[j] = inbox[j] /\ outbox'[j] = outbox[j]
        BY <1>t, <2>1, <3>2
      <4>2. \A n : Asks(n, j) => Asks(n, j)'
        BY <1>t, <2>1, <3>2 DEF Asks
      <4> QED BY <2>2, <3>1, <4>1, <4>2 DEF Carries
    <3>3. CASE j = k
      <4>1. CASE outbox[k] # <<>> /\ outbox' = [outbox EXCEPT ![k] = Tail(@)]
        <5>1. inbox'[k] = <<>> /\ outbox'[k] = <<>>
          BY <1>t, <2>1, <2>3, <3>1, <3>3, <4>1
        <5> QED BY <3>3, <5>1 DEF Carries
      <4>2. CASE conn[k] = "broken" /\ outbox' = outbox
        <5>1. inbox'[k] = <<>> /\ outbox'[k] = <<>>
          BY <2>1, <4>2 DEF Quiet
        <5> QED BY <3>3, <5>1 DEF Carries
      <4> QED BY <2>1, <4>1, <4>2
    <3> QED BY <3>2, <3>3
  <2>5. Unmixed'
    BY <2>4 DEF Unmixed
  <2>6. Quiet'
    BY <1>t, <2>1 DEF Quiet
  <2>7. Unanswered'
    BY <1>t, <2>1 DEF Unanswered
  <2>8. AnswersMatch'
    <3> SUFFICES ASSUME NEW d \in RpcCalls
                 PROVE  value'[d].id \in {d, Nobody} \/ Mixed(held[d])
      BY <2>1 DEF AnswersMatch, Mixed, OneWay
    <3>1. CASE d # c
      BY <1>t, <2>1, <3>1 DEF AnswersMatch, Mixed, OneWay
    <3>2. CASE d = c
      BY <1>t, <2>1, <2>3, <3>2, NoAnswer
    <3> QED BY <3>1, <3>2
  <2> QED BY <2>5, <2>6, <2>7, <2>8
<1> QED BY <1>1, <1>2, <1>3, <1>4, <1>5, <1>6, <1>7 DEF Run

\* A call that starts has no connection, and one dropped from the pool no call.
LEMMA CallerNet ==
    ASSUME Typed, Typed', Places, Exclusive, Unmixed, Quiet, Unanswered,
           AnswersMatch, NEW c \in RpcCalls,
           End(c) \/ (\E keys \in SUBSET Keys : Call(c, keys)) \/ Expire
    PROVE  Unmixed' /\ Quiet' /\ Unanswered' /\ AnswersMatch'
<1>t. /\ worker \in [RpcCalls -> {"none", "get", "wait", "write", "read", "put",
                                   "signal", "done"}]
      /\ held \in [RpcCalls -> Conns \cup {0}] /\ 0 \notin Conns
      /\ meta \in [RpcCalls -> SUBSET Keys]
      /\ conn \in [Conns -> {"unopened", "open", "closed", "broken"}]
  BY DEF Typed, TypeOK, Conns
<1>1. CASE End(c)
  BY <1>1, Kept DEF End, poolVars, netVars
<1>2. ASSUME NEW keys \in SUBSET Keys, Call(c, keys)
      PROVE  Unmixed' /\ Quiet' /\ Unanswered' /\ AnswersMatch'
  <2>1. /\ held[c] = 0 /\ worker[c] = "none" /\ meta' = [meta EXCEPT ![c] = keys]
        /\ worker' = worker \/ worker' = [worker EXCEPT ![c] = "get"]
        /\ UNCHANGED <<setup, held, value, conn, inbox, outbox>>
    BY <1>2 DEF Call, poolVars, netVars, Places
  <2>2. Sent' = Sent
    BY <2>1 DEF Sent
  <2>3. \A o \in RpcCalls : held[o] # 0 => (OneWay(o)' <=> OneWay(o))
    BY <1>t, <2>1 DEF OneWay
  <2>4. \A k \in Conns : Mixed(k) => Mixed(k)'
    BY <1>t, <2>1, <2>3 DEF Mixed
  <2>5. \A k \in Conns : \A m : Asks(m, k) => Asks(m, k)'
    BY <1>t, <2>1 DEF Asks
  <2>6. Unmixed'
    BY <2>1, <2>2, <2>4, <2>5 DEF Unmixed, Carries
  <2>7. Quiet' /\ Unanswered'
    BY <2>1 DEF Quiet, Unanswered
  <2>8. AnswersMatch'
    BY <2>1, <2>3 DEF AnswersMatch, Unanswered
  <2> QED BY <2>6, <2>7, <2>8
<1>3. CASE Expire
  <2>1. /\ conn' = [conn EXCEPT ![Head(idle)] = "closed"]
        /\ UNCHANGED <<setup, meta, worker, held, value, inbox, outbox>>
    BY <1>3 DEF Expire, callVars
  <2> QED BY <1>t, <2>1, Kept
<1> QED BY <1>1, <1>2, <1>3

\* An answer takes its request's place, and belongs to the same call.
LEMMA ServerNet ==
    ASSUME Typed, Unmixed, Quiet, Unanswered, AnswersMatch, ServerStep
    PROVE  Unmixed' /\ Quiet' /\ Unanswered' /\ AnswersMatch'
<1>t. /\ conn \in [Conns -> {"unopened", "open", "closed", "broken"}]
      /\ inbox \in [Conns -> Seq(Sent)] /\ outbox \in [Conns -> Seq(Given)]
  BY DEF Typed, TypeOK
<1>1. UNCHANGED <<setup, meta, worker, value, held>>
  BY ServerEffects DEF callVars
<1>2. /\ Sent' = Sent /\ \A k \in Conns : Mixed(k)' <=> Mixed(k)
      /\ \A k \in Conns : \A m : Asks(m, k)' <=> Asks(m, k)
  BY <1>1 DEF Sent, Mixed, OneWay, Asks
<1>3. Unanswered' /\ AnswersMatch'
  BY <1>1 DEF Unanswered, AnswersMatch, OneWay
<1>4. CASE UNCHANGED netVars
  <2>1. Unmixed'
    BY <1>2, <1>4 DEF netVars, Unmixed, Carries
  <2> QED BY <1>3, <1>4, <2>1 DEF netVars, Quiet
<1>5. ASSUME NEW ks \in SUBSET Conns, Reset(ks)
      PROVE  Unmixed' /\ Quiet' /\ Unanswered' /\ AnswersMatch'
  <2>1. \A k \in Conns : \/ inbox'[k] = inbox[k] /\ outbox'[k] = outbox[k]
                         \/ inbox'[k] = <<>> /\ outbox'[k] = <<>>
    <3> TAKE k \in Conns
    <3>1. CASE k \in ks
      BY <1>5, <3>1 DEF Reset
    <3>2. CASE k \notin ks
      <4>1. inbox'[k] = inbox[k]
        BY <1>5, <3>2 DEF Reset
      <4>2. outbox'[k] = outbox[k]
        BY <1>5, <3>2 DEF Reset
      <4> QED BY <4>1, <4>2
    <3> QED BY <3>1, <3>2
  <2>2. Unmixed'
    BY <1>2, <2>1 DEF Unmixed, Carries
  <2>3. Quiet'
    BY <1>t, <1>5 DEF Quiet, Reset
  <2> QED BY <1>3, <2>2, <2>3
<1>6. ASSUME NEW k \in Conns, Turn(k)
      PROVE  Unmixed' /\ Quiet' /\ Unanswered' /\ AnswersMatch'
  <2>1. inbox[k] # <<>> /\ conn' = conn /\ inbox' = [inbox EXCEPT ![k] = Tail(@)]
    BY <1>6 DEF Turn
  <2>2. PICK a : \/ outbox' = outbox
                 \/ /\ conn[k] = "open" /\ a \in Answers(DecodeReq(Head(inbox[k])))
                    /\ outbox' = [outbox EXCEPT ![k] = Append(@, EncodeResp(a))]
    BY <1>6 DEF Turn
  <2>3. ASSUME NEW j \in Conns, ~Mixed(j) PROVE Carries(j)'
    <3>1. Carries(j)
      BY <2>3 DEF Unmixed
    <3>2. CASE j # k
      <4>1. inbox'[j] = inbox[j] /\ outbox'[j] = outbox[j]
        BY <1>t, <2>1, <2>2, <3>2
      <4> QED BY <1>2, <3>1, <4>1 DEF Carries
    <3>3. CASE j = k
      <4>1. PICK m \in Sent : inbox[k] = <<m>> /\ outbox[k] = <<>> /\ Asks(m, k)
        BY <2>1, <3>1, <3>3 DEF Carries
      <4>2. Head(inbox[k]) = m /\ Tail(inbox[k]) = <<>>
        BY <4>1
      <4>3. inbox'[k] = <<>>
        BY <1>t, <2>1, <4>2
      <4>4. CASE outbox' = outbox
        BY <3>3, <4>1, <4>3, <4>4 DEF Carries
      <4>5. CASE /\ a \in Answers(DecodeReq(m))
                 /\ outbox' = [outbox EXCEPT ![k] = Append(@, EncodeResp(a))]
        <5>1. PICK r \in Given : r = EncodeResp(a) /\ r[3] = m[3]
          BY <4>5, ReplyType
        <5>2. Append(<<>>, r) = <<r>>
          OBVIOUS
        <5>3. outbox'[k] = <<r>>
          BY <1>t, <4>1, <4>5, <5>1, <5>2
        <5>4. Asks(r, k)
          BY <4>1, <5>1 DEF Asks
        <5> QED BY <1>2, <3>3, <4>3, <5>3, <5>4 DEF Carries, Given
      <4> QED BY <2>2, <4>2, <4>4, <4>5
    <3> QED BY <3>2, <3>3
  <2>4. Unmixed'
    BY <1>2, <2>3 DEF Unmixed
  <2>5. Quiet'
    BY <1>t, <2>1, <2>2 DEF Quiet
  <2> QED BY <1>3, <2>4, <2>5
<1> QED BY <1>4, <1>5, <1>6, ServerEffects

-----------------------------------------------------------------------------
\* A call that has been made keeps its metadata, and stays made.
StaysMade ==
    \A c \in RpcCalls : caller[c] # "idle" => caller'[c] # "idle" /\ meta'[c] = meta[c]

\* What a call has sent stays what it sends.
LEMMA SendsKept ==
    ASSUME setup' = setup, StaysMade
    PROVE  \A c \in RpcCalls : caller[c] # "idle" =>
               caller'[c] # "idle" /\ meta'[c] = meta[c] /\ Message(c)' = Message(c)
BY DEF StaysMade, Message

\* Messages that stay, are taken or are lost leave the others what they were.
LEMMA FaithfulKept ==
    ASSUME Faithful, inbox \in [Conns -> Seq(Sent)], setup' = setup, StaysMade,
           \A k \in Conns : \/ inbox'[k] = inbox[k]
                            \/ inbox'[k] = <<>>
                            \/ inbox[k] # <<>> /\ inbox'[k] = Tail(inbox[k])
    PROVE  Faithful'
<1> SUFFICES ASSUME NEW k \in Conns, NEW n \in DOMAIN inbox'[k]
             PROVE  \E c \in RpcCalls :
                       /\ caller'[c] # "idle"
                       /\ \E order \in SetToSeqs(meta'[c]) :
                             inbox'[k][n] = EncodeReq(Message(c)', order)
  BY DEF Faithful, Sends, Conns
<1>1. \E i \in DOMAIN inbox[k] : inbox'[k][n] = inbox[k][i]
  <2>1. CASE inbox'[k] = inbox[k]
    BY <2>1
  <2>2. CASE inbox'[k] = <<>>
    BY <2>2
  <2>3. CASE inbox[k] # <<>> /\ inbox'[k] = Tail(inbox[k])
    <3> DEFINE s == inbox[k]
    <3>1. s \in Seq(Sent) /\ s # <<>>
      BY <2>3
    <3> HIDE DEF s
    <3>2. /\ Tail(s) \in Seq(Sent) /\ Len(Tail(s)) = Len(s) - 1
          /\ \A i \in 1 .. Len(Tail(s)) : Tail(s)[i] = s[i + 1]
      BY <3>1, HeadTailProperties
    <3>3. DOMAIN s = 1 .. Len(s) /\ Len(s) \in Nat /\ DOMAIN Tail(s) = 1 .. Len(Tail(s))
      BY <3>1, <3>2, LenProperties
    <3>4. n \in DOMAIN Tail(s)
      BY <2>3 DEF s
    <3>5. n + 1 \in DOMAIN s /\ Tail(s)[n] = s[n + 1]
      BY <3>2, <3>3, <3>4
    <3> QED BY <2>3, <3>5 DEF s
  <2> QED BY <2>1, <2>2, <2>3
<1>2. PICK c \in RpcCalls : Sends(c, inbox'[k][n])
  BY <1>1 DEF Faithful
<1> QED BY <1>2, SendsKept DEF Sends

\* The client's steps send what their call is, and nothing else.
LEMMA ClientFaithful ==
    ASSUME Typed, Places, Faithful, NEW c \in RpcCalls, Run(c)
    PROVE  Faithful'
<1>t. /\ inbox \in [Conns -> Seq(Sent)] /\ held \in [RpcCalls -> Conns \cup {0}]
      /\ caller \in [RpcCalls -> {"idle", "select", "returned", "panicked"}]
  BY DEF Typed, TypeOK
<1>1. CASE GetIdle(c) \/ GetNew(c) \/ GetWaits(c) \/ Read(c) \/ ReadPanics(c) \/ Put(c)
  <2>1. UNCHANGED <<setup, caller, meta, inbox>>
    BY <1>1 DEF GetIdle, GetNew, GetWaits, Read, ReadPanics, Put, callVars, netVars
  <2>2. StaysMade
    BY <2>1 DEF StaysMade
  <2> QED BY <1>t, <2>1, <2>2, FaithfulKept
<1>2. CASE Signal(c) \/ LeaveByContext(c)
  <2>1. /\ UNCHANGED <<setup, meta, inbox>>
        /\ \E place \in {"returned", "panicked"} : caller' = [caller EXCEPT ![c] = place]
    BY <1>2 DEF Signal, LeaveByContext, Give, netVars
  <2>2. StaysMade
    BY <1>t, <2>1 DEF StaysMade
  <2> QED BY <1>t, <2>1, <2>2, FaithfulKept
<1>3. CASE Write(c)
  <2>1. UNCHANGED <<setup, caller, meta>> /\ worker[c] = "write"
    BY <1>3 DEF Write
  <2>2. StaysMade
    BY <2>1 DEF StaysMade
  <2>3. CASE inbox' = inbox
    BY <1>t, <2>1, <2>2, <2>3, FaithfulKept
  <2>4. CASE inbox' # inbox
    <3>1. PICK order \in SetToSeqs(meta[c]) :
             inbox' = [inbox EXCEPT ![held[c]] = Append(@, EncodeReq(Message(c), order))]
      BY <1>3, <2>4 DEF Write
    <3> DEFINE k == held[c]
               e == EncodeReq(Message(c), order)
               s == inbox[k]
    <3>2. k \in Conns /\ caller[c] # "idle"
      BY <1>t, <2>1 DEF Places, Uses
    <3>3. caller'[c] # "idle" /\ e = EncodeReq(Message(c)', order) /\ meta'[c] = meta[c]
      BY <2>1, <2>2, <3>2, SendsKept
    <3>4. e \in Sent /\ s \in Seq(Sent)
      BY <1>t, <3>2, RequestType
    <3> HIDE DEF e
    <3>5. inbox'[k] = Append(s, e) /\ \A j \in Conns \ {k} : inbox'[j] = inbox[j]
      BY <1>t, <3>1, <3>2 DEF e
    <3> HIDE DEF s, k
    <3>6. /\ Append(s, e) \in Seq(Sent) /\ Len(Append(s, e)) = Len(s) + 1
          /\ \A i \in 1 .. Len(s) : Append(s, e)[i] = s[i]
          /\ Append(s, e)[Len(s) + 1] = e
      BY <3>4, AppendProperties
    <3>7. DOMAIN s = 1 .. Len(s) /\ Len(s) \in Nat /\ DOMAIN Append(s, e) = 1 .. Len(s) + 1
      BY <3>4, <3>6, LenProperties
    <3>8. \A j \in Conns : \A n \in DOMAIN inbox[j] : \E d \in RpcCalls :
             /\ caller'[d] # "idle"
             /\ \E o \in SetToSeqs(meta'[d]) : inbox[j][n] = EncodeReq(Message(d)', o)
      BY <2>1, <2>2, SendsKept DEF Faithful, Sends
    <3>9. \A n \in DOMAIN Append(s, e) :
             \/ n \in DOMAIN s /\ Append(s, e)[n] = s[n]
             \/ Append(s, e)[n] = e
      BY <3>6, <3>7
    <3> SUFFICES ASSUME NEW j \in Conns, NEW n \in DOMAIN inbox'[j]
                 PROVE  \E d \in RpcCalls :
                           /\ caller'[d] # "idle"
                           /\ \E o \in SetToSeqs(meta'[d]) :
                                 inbox'[j][n] = EncodeReq(Message(d)', o)
      BY DEF Faithful, Sends, Conns
    <3>10. CASE j # k
      BY <3>5, <3>8, <3>10
    <3>11. CASE j = k
      <4>1. CASE n \in DOMAIN s /\ Append(s, e)[n] = s[n]
        BY <3>2, <3>5, <3>8, <3>11, <4>1 DEF s
      <4>2. CASE Append(s, e)[n] = e
        BY <3>3, <3>5, <3>11, <4>2
      <4> QED BY <3>5, <3>9, <3>11, <4>1, <4>2
    <3> QED BY <3>10, <3>11
  <2> QED BY <2>3, <2>4
<1> QED BY <1>1, <1>2, <1>3 DEF Run

\* A call is made before it sends anything.
LEMMA CallerFaithful ==
    ASSUME Typed, Faithful, NEW c \in RpcCalls,
           End(c) \/ (\E keys \in SUBSET Keys : Call(c, keys)) \/ Expire
    PROVE  Faithful'
<1>t. /\ inbox \in [Conns -> Seq(Sent)] /\ meta \in [RpcCalls -> SUBSET Keys]
      /\ caller \in [RpcCalls -> {"idle", "select", "returned", "panicked"}]
  BY DEF Typed, TypeOK
<1>1. setup' = setup /\ inbox' = inbox
  BY DEF End, Call, Expire, netVars
<1>2. ASSUME End(c) \/ Expire PROVE StaysMade
  <2>1. caller' = caller /\ meta' = meta
    BY <1>2 DEF End, Expire, callVars
  <2> QED BY <2>1 DEF StaysMade
<1>3. ASSUME NEW keys \in SUBSET Keys, Call(c, keys) PROVE StaysMade
  <2>1. /\ caller[c] = "idle" /\ meta' = [meta EXCEPT ![c] = keys]
        /\ \E place \in {"select", "returned", "panicked"} : caller' = [caller EXCEPT ![c] = place]
    BY <1>3 DEF Call, Give
  <2> QED BY <1>t, <2>1 DEF StaysMade
<1>4. StaysMade
  BY <1>2, <1>3
<1> QED BY <1>t, <1>1, <1>4, FaithfulKept

\* The server takes messages, and a reset loses them.
LEMMA ServerFaithful ==
    ASSUME Typed, Faithful, ServerStep
    PROVE  Faithful'
<1>t. inbox \in [Conns -> Seq(Sent)]
  BY DEF Typed
<1>1. setup' = setup /\ StaysMade
  BY ServerEffects DEF callVars, StaysMade
<1>2. CASE UNCHANGED netVars
  BY <1>t, <1>1, <1>2, FaithfulKept DEF netVars
<1>3. ASSUME NEW ks \in SUBSET Conns, Reset(ks) PROVE Faithful'
  <2>1. \A k \in Conns : inbox'[k] = inbox[k] \/ inbox'[k] = <<>>
    BY <1>3 DEF Reset
  <2> QED BY <1>t, <1>1, <2>1, FaithfulKept
<1>4. ASSUME NEW k \in Conns, Turn(k) PROVE Faithful'
  <2>1. inbox[k] # <<>> /\ inbox' = [inbox EXCEPT ![k] = Tail(@)]
    BY <1>4 DEF Turn
  <2>2. \A j \in Conns : \/ inbox'[j] = inbox[j]
                         \/ inbox[j] # <<>> /\ inbox'[j] = Tail(inbox[j])
    BY <1>t, <2>1
  <2> QED BY <1>t, <1>1, <2>2, FaithfulKept
<1> QED BY <1>2, <1>3, <1>4, ServerEffects

\* A message that a call has sent is cut into that call's request.
LEMMA FaithfulIsIntact ==
    ASSUME Typed, Faithful
    PROVE  RequestsIntact
<1> SUFFICES ASSUME NEW k \in Conns, NEW n \in DOMAIN inbox[k]
             PROVE  LET req == DecodeReq(inbox[k][n])
                    IN  [req EXCEPT !.meta = Pairs(inbox[k][n])] = Message(req.id)
  BY DEF RequestsIntact
<1>1. PICK c \in RpcCalls : Sends(c, inbox[k][n])
  BY DEF Faithful
<1>2. PICK order \in SetToSeqs(meta[c]) : inbox[k][n] = EncodeReq(Message(c), order)
  BY <1>1 DEF Sends
<1> DEFINE m == inbox[k][n]
<1>3. Message(c) \in Questions /\ DOMAIN Message(c).meta = meta[c] /\ Message(c).id = c
  BY MessageType
<1>4. [DecodeReq(m) EXCEPT !.meta = Pairs(m)] = Message(c) /\ m[3] = c
  BY <1>2, <1>3, RequestCut, AskedFields
<1>5. DecodeReq(m).id = m[3]
  BY DEF DecodeReq
<1> QED BY <1>4, <1>5

\* Only a code that the server does not know, a method that is not as it expects,
\* or ReadMsg as it is, ends it (server.go:149-164, 207-230).
LEMMA Survival ==
    ASSUME Typed, Faithful, ServerSurvives, ServerStep
    PROVE  ServerSurvives'
<1>1. setup' = setup
  BY ServerEffects
<1>2. ASSUME NEW k \in Conns, Accept(k) PROVE ServerSurvives'
  BY <1>1, <1>2 DEF Accept, ServerSurvives
<1>3. ASSUME NEW k \in Conns, Serve(k) PROVE ServerSurvives'
  <2> DEFINE m == Head(inbox[k])
             req == DecodeReq(m)
  <2>1. m = inbox[k][1] /\ 1 \in DOMAIN inbox[k]
    BY <1>3, LenProperties DEF Serve, Typed
  <2>2. [req EXCEPT !.meta = Pairs(m)] = Message(req.id)
    BY <2>1, FaithfulIsIntact DEF RequestsIntact
  <2>3. /\ req.compressor = setup.compressor /\ req.serializer = setup.serializer
        /\ req.method = setup.method
    <3>1. /\ [req EXCEPT !.meta = Pairs(m)].compressor = req.compressor
          /\ [req EXCEPT !.meta = Pairs(m)].serializer = req.serializer
          /\ [req EXCEPT !.meta = Pairs(m)].method = req.method
      BY DEF DecodeReq
    <3> HIDE DEF req
    <3>2. /\ Message(req.id).compressor = setup.compressor
          /\ Message(req.id).serializer = setup.serializer
          /\ Message(req.id).method = setup.method
      BY DEF Message
    <3> QED BY <2>2, <3>1, <3>2
  <2> HIDE DEF req, m
  <2>4. CASE Panics(req)
    <3>1. \/ setup.compressor \notin setup.codes.compressors
          \/ setup.serializer \notin setup.codes.serializers
          \/ /\ setup.method \in DOMAIN setup.methods
             /\ setup.methods[setup.method] \in {"no request", "no result"}
      BY <2>3, <2>4 DEF Panics, Known
    <3>2. setup \in Setups
      BY DEF Typed
    <3>3. \/ setup.codes # AllCodes /\ <<setup.serializer, setup.compressor>> # <<1, 0>>
          \/ /\ setup.method \in DOMAIN setup.methods
             /\ setup.methods[setup.method] # "fit"
      BY <3>1, <3>2, SetupFields
    <3> QED BY <1>1, <3>3 DEF ServerSurvives
  <2>5. CASE ~Panics(req)
    <3>1. alive' = alive
      BY <1>3, <2>5 DEF Serve, req, m
    <3> QED BY <1>1, <3>1 DEF ServerSurvives
  <2> QED BY <2>4, <2>5
<1>4. ASSUME NEW k \in Conns, HandlerReturns(k) \/ Break(k) PROVE ServerSurvives'
  BY <1>1, <1>4 DEF HandlerReturns, Break, ServerSurvives
<1>5. ASSUME CloseListener PROVE ServerSurvives'
  BY <1>1, <1>5 DEF CloseListener, ServerSurvives
<1> QED BY <1>2, <1>3, <1>4, <1>5 DEF ServerStep

-----------------------------------------------------------------------------
\* The invariant holds when the client has dialed its first connection.
LEMMA InitInv ==
    ASSUME MaxConns \in Nat \ {0}, Init
    PROVE  IInv
<1>1. /\ 1 \in Conns /\ 0 \notin Conns
      /\ idle = <<1>> /\ waiters = <<>>
  BY DEF Init, Conns
<1>2. idle \in Seq(Conns) /\ ToSet(idle) = {1} /\ IsInjective(idle)
  BY <1>1 DEF ToSet, IsInjective
<1>3. waiters \in Seq(RpcCalls) /\ ToSet(waiters) = {} /\ IsInjective(waiters)
  BY <1>1 DEF ToSet, IsInjective
<1>4. None \in Values /\ None.id = Nobody
  BY DEF Values, None
<1>5. \A S : <<>> \in Seq(S)
  BY EmptySeq
<1>6. Typed
  BY <1>1, <1>2, <1>3, <1>4, <1>5 DEF Init, Typed, TypeOK
<1>7. Places /\ Exclusive /\ Pool
  BY <1>1, <1>2, <1>3 DEF Init, Places, Exclusive, Pool, Uses
<1>8. Unmixed /\ Quiet
  BY DEF Init, Unmixed, Carries, Quiet
<1>9. Unanswered /\ AnswersMatch /\ ServerSurvives
  BY <1>4 DEF Init, Unanswered, AnswersMatch, ServerSurvives
<1>10. Faithful
  BY DEF Init, Faithful
<1> QED BY <1>6, <1>7, <1>8, <1>9, <1>10 DEF IInv

\* Every step keeps the invariant.
LEMMA StepInv ==
    ASSUME Metas \subseteq SUBSET Keys, IInv, [Next]_vars
    PROVE  IInv'
<1> USE DEF IInv
<1>1. ASSUME NEW c \in RpcCalls, Run(c) PROVE IInv'
  <2>1. Typed'
    BY <1>1, ClientTypes
  <2>2. Places' /\ Exclusive' /\ Pool'
    BY <1>1, <2>1, ClientPool
  <2>3. Unmixed' /\ Quiet' /\ Unanswered' /\ AnswersMatch'
    BY <1>1, <2>1, ClientNet
  <2>4. "server" \in alive' <=> "server" \in alive
    BY <1>1 DEF Run, GetIdle, GetNew, GetWaits, Write, Read, ReadPanics, Put, Signal,
                LeaveByContext
  <2>5. setup' = setup
    BY <1>1 DEF Run, GetIdle, GetNew, GetWaits, Write, Read, ReadPanics, Put, Signal,
                LeaveByContext
  <2>6. ServerSurvives'
    BY <2>4, <2>5 DEF ServerSurvives
  <2>7. Faithful'
    BY <1>1, ClientFaithful
  <2> QED BY <2>1, <2>2, <2>3, <2>6, <2>7
<1>2. ASSUME NEW c \in RpcCalls,
             End(c) \/ (\E keys \in SUBSET Keys : Call(c, keys)) \/ Expire
      PROVE  IInv'
  <2>1. Typed'
    BY <1>2, CallerTypes
  <2>2. Places' /\ Exclusive' /\ Pool'
    BY <1>2, <2>1, CallerPool
  <2>3. Unmixed' /\ Quiet' /\ Unanswered' /\ AnswersMatch'
    BY <1>2, <2>1, CallerNet
  <2>4. setup' = setup /\ alive' = alive
    BY <1>2 DEF End, Call, Expire
  <2>5. ServerSurvives'
    BY <2>4 DEF ServerSurvives
  <2>6. Faithful'
    BY <1>2, CallerFaithful
  <2> QED BY <2>1, <2>2, <2>3, <2>5, <2>6
<1>3. CASE ServerStep
  <2>1. Typed' /\ Places' /\ Exclusive' /\ Pool'
    BY <1>3, ServerTypes, ServerPool
  <2>2. Unmixed' /\ Quiet' /\ Unanswered' /\ AnswersMatch'
    BY <1>3, ServerNet
  <2>3. ServerSurvives' /\ Faithful'
    BY <1>3, Survival, ServerFaithful
  <2> QED BY <2>1, <2>2, <2>3
<1>4. CASE UNCHANGED vars
  <2>a. /\ UNCHANGED <<setup, caller, outcome, meta, ended, worker, value, held, idle, waiters>>
        /\ UNCHANGED <<conn, inbox, outbox, handler, alive>>
    BY <1>4 DEF vars, callVars, poolVars, netVars
  <2>b. TypeOK' /\ Typed'
    BY <2>a DEF Typed, TypeOK, Sent
  <2>c. Places' /\ Exclusive' /\ Pool' /\ Quiet' /\ Unanswered'
    BY <2>a DEF Places, Exclusive, Pool, Uses, Quiet, Unanswered
  <2>d. Unmixed' /\ AnswersMatch' /\ ServerSurvives'
    BY <2>a DEF Unmixed, Carries, Asks, Sent, Mixed, OneWay, AnswersMatch, ServerSurvives
  <2>1. Typed' /\ Places' /\ Exclusive' /\ Pool' /\ Unmixed' /\ Quiet' /\ Unanswered'
        /\ AnswersMatch' /\ ServerSurvives'
    BY <2>b, <2>c, <2>d
  <2>2. UNCHANGED <<setup, caller, meta, inbox>>
    BY <1>4 DEF vars, callVars, netVars
  <2>3. StaysMade
    BY <2>2 DEF StaysMade
  <2>4. Faithful'
    BY <2>2, <2>3, FaithfulKept DEF Typed
  <2> QED BY <2>1, <2>4
<1>5. Expire => \E c \in RpcCalls : Expire
  BY DEF Expire
<1> QED BY <1>1, <1>2, <1>3, <1>4, <1>5 DEF Next, ServerStep

(***************************************************************************)
(* The invariant holds of any calls, any limits of the pool and any number *)
(* of connections.                                                         *)
(***************************************************************************)
LEMMA RpcInvariant ==
    ASSUME MaxConns \in Nat \ {0}, Metas \subseteq SUBSET Keys
    PROVE  Spec => []IInv
<1>1. Init => IInv
  BY InitInv
<1>2. IInv /\ [Next]_vars => IInv'
  BY StepInv
<1> QED BY <1>1, <1>2, PTL DEF Spec

(***************************************************************************)
(* The variables keep their types.                                         *)
(***************************************************************************)
THEOREM RpcTypes ==
    ASSUME MaxConns \in Nat \ {0}, Metas \subseteq SUBSET Keys
    PROVE  Spec => []TypeOK
<1>1. IInv => TypeOK
  BY DEF IInv, Typed
<1> QED BY <1>1, RpcInvariant, PTL

(***************************************************************************)
(* A connection on which no one-way call has been carries the answer of    *)
(* the one call that has it, so each call gets its own.  About Get and the *)
(* deferred Put around a call (client.go:162-191, conn.go).                *)
(***************************************************************************)
THEOREM AnswersFindTheirCalls ==
    ASSUME MaxConns \in Nat \ {0}, Metas \subseteq SUBSET Keys
    PROVE  Spec => []AnswersMatch
<1>1. IInv => AnswersMatch
  BY DEF IInv
<1> QED BY <1>1, RpcInvariant, PTL

(***************************************************************************)
(* The server's process ends by a code that nobody registered, by a        *)
(* request for a registered method that is not as the stub expects (Name   *)
(* is one), or by ReadMsg as it is, and by no other message.  About the    *)
(* tables that NewServer and RegisterService fill and the stub indexes     *)
(* (server.go:133-164, 192-244).                                           *)
(***************************************************************************)
THEOREM OnlyKnownCausesEndTheServer ==
    ASSUME MaxConns \in Nat \ {0}, Metas \subseteq SUBSET Keys
    PROVE  Spec => []ServerSurvives
<1>1. IInv => ServerSurvives
  BY DEF IInv
<1> QED BY <1>1, RpcInvariant, PTL

(***************************************************************************)
(* Whatever is on its way to the server can be cut into the request that   *)
(* was sent, its metadata included, in whatever order its map was walked.  *)
(* About the lengths that are computed first and the buffer they size      *)
(* (message/request.go:40-150).                                            *)
(***************************************************************************)
THEOREM RequestsCanBeCut ==
    ASSUME MaxConns \in Nat \ {0}, Metas \subseteq SUBSET Keys
    PROVE  Spec => []RequestsIntact
<1>1. IInv => RequestsIntact
  BY FaithfulIsIntact DEF IInv
<1> QED BY <1>1, RpcInvariant, PTL
=============================================================================
