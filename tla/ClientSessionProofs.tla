------------------------ MODULE ClientSessionProofs ------------------------
(***************************************************************************)
(* Proofs about ClientSession, for any number of sessions, connections and *)
(* failures and any requests.                                              *)
(***************************************************************************)
EXTENDS ClientSession, DataLemmas, SequenceTheorems

-----------------------------------------------------------------------------
(* What a client writes.                                                   *)

Pieces == [src : Sessions, n : Nat, part : {1, 2}, last : BOOLEAN,
           by : {"client", "proxy", "server"}]

\* All the pieces of the requests of s.
Sent(w, s) == UNION {ToSet(Written(w, s, n)) : n \in 1..Len(w[s])}

\* The workloads are sequences of kinds.
LEMMA WorkloadType ==
    ASSUME NEW w \in Workloads, NEW s \in Sessions
    PROVE  w[s] \in Seq(Kinds) /\ Len(w[s]) \in Nat
<1>1. w \in [Sessions -> Seq(Kinds)]
  BY WorkloadsAssumption
<1> QED BY <1>1

\* The elements of a sequence of one and of two.
LEMMA ShortSequences ==
    ASSUME NEW x, NEW y
    PROVE  ToSet(<<x>>) = {x} /\ ToSet(<<x, y>>) = {x, y}
<1>1. \A z : z \in ToSet(<<x>>) <=> z = x
  BY DEF ToSet
<1>2. \A z : z \in ToSet(<<x, y>>) <=> z = x \/ z = y
  <2>1. DOMAIN <<x, y>> = {1, 2}
    OBVIOUS
  <2> QED BY <2>1 DEF ToSet
<1> QED BY <1>1, <1>2

\* A request that is forwarded has two pieces, any other has one.
LEMMA WrittenPieces ==
    ASSUME NEW w \in Workloads, NEW s \in Sessions, NEW n \in 1..Len(w[s])
    PROVE  ToSet(Written(w, s, n)) =
             IF w[s][n] \in Forwarded
             THEN {Piece(s, n, 1, FALSE, "client"), Piece(s, n, 2, TRUE, "client")}
             ELSE {Piece(s, n, 1, TRUE, "client")}
<1> DEFINE a == Piece(s, n, 1, FALSE, "client")
           b == Piece(s, n, 2, TRUE, "client")
           c == Piece(s, n, 1, TRUE, "client")
<1>1. Written(w, s, n) = IF w[s][n] \in Forwarded THEN <<a, b>> ELSE <<c>>
  BY DEF Written, Halves
<1> HIDE DEF a, b, c
<1>2. ToSet(Written(w, s, n)) = IF w[s][n] \in Forwarded THEN {a, b} ELSE {c}
  BY <1>1, ShortSequences
<1> QED BY <1>2 DEF a, b, c

\* What is known of a piece that was written.
LEMMA SentAre ==
    ASSUME NEW w \in Workloads, NEW s \in Sessions, NEW p \in Sent(w, s)
    PROVE  /\ p \in Pieces /\ p.src = s /\ p.by = "client"
           /\ p.n \in 1..Len(w[s])
           /\ p.last <=> (p.part = IF w[s][p.n] \in Forwarded THEN 2 ELSE 1)
           /\ p.part = 2 => w[s][p.n] \in Forwarded
<1>1. Len(w[s]) \in Nat
  BY WorkloadType
<1>2. PICK n \in 1..Len(w[s]) : p \in ToSet(Written(w, s, n))
  BY DEF Sent
<1>3. CASE w[s][n] \in Forwarded
  <2>1. p = Piece(s, n, 1, FALSE, "client") \/ p = Piece(s, n, 2, TRUE, "client")
    BY <1>2, <1>3, WrittenPieces
  <2>2. CASE p = Piece(s, n, 1, FALSE, "client")
    BY <2>2, <1>1, <1>3 DEF Piece, Pieces
  <2>3. CASE p = Piece(s, n, 2, TRUE, "client")
    BY <2>3, <1>1, <1>3 DEF Piece, Pieces
  <2> QED BY <2>1, <2>2, <2>3
<1>4. CASE ~(w[s][n] \in Forwarded)
  <2>1. p = Piece(s, n, 1, TRUE, "client")
    <3>1. ToSet(Written(w, s, n)) = {Piece(s, n, 1, TRUE, "client")}
      BY <1>4, WrittenPieces
    <3> QED BY <3>1, <1>2
  <2> QED BY <2>1, <1>1, <1>4 DEF Piece, Pieces
<1> QED BY <1>3, <1>4

\* Every request is written whole.
LEMMA AreSent ==
    ASSUME NEW w \in Workloads, NEW s \in Sessions, NEW n \in 1..Len(w[s])
    PROVE  /\ w[s][n] \in Forwarded =>
                /\ Piece(s, n, 1, FALSE, "client") \in Sent(w, s)
                /\ Piece(s, n, 2, TRUE, "client") \in Sent(w, s)
           /\ w[s][n] \notin Forwarded => Piece(s, n, 1, TRUE, "client") \in Sent(w, s)
<1>1. \A p \in ToSet(Written(w, s, n)) : p \in Sent(w, s)
  BY DEF Sent
<1> QED BY <1>1, WrittenPieces

\* A piece is known by its request and its part.
LEMMA SentOnce ==
    ASSUME NEW w \in Workloads, NEW s \in Sessions,
           NEW p \in Sent(w, s), NEW q \in Sent(w, s), p.n = q.n, p.part = q.part
    PROVE  p = q
<1>1. \A x \in Pieces : x = [src |-> x.src, n |-> x.n, part |-> x.part,
                             last |-> x.last, by |-> x.by]
  BY DEF Pieces
<1>2. p \in Pieces /\ q \in Pieces /\ p.src = q.src /\ p.by = q.by /\ p.last = q.last
  <2>1. p \in Pieces /\ q \in Pieces
    BY SentAre
  <2>2. p.last <=> q.last
    BY SentAre
  <2>3. p.last \in BOOLEAN /\ q.last \in BOOLEAN
    BY <2>1 DEF Pieces
  <2>4. p.last = q.last
    BY <2>2, <2>3
  <2> QED BY <2>1, <2>4, SentAre
<1> QED BY <1>1, <1>2

\* There are finitely many.
LEMMA SentFinite ==
    ASSUME NEW w \in Workloads, NEW s \in Sessions
    PROVE  IsFiniteSet(Sent(w, s))
<1> DEFINE S == Sent(w, s)
           l == Len(w[s])
           f == [p \in S |-> 2 * p.n + p.part]
           T == 0..(2 * l + 2)
<1>1. l \in Nat
  BY WorkloadType
<1>2. \A p \in S : p.n \in 1..l /\ p.part \in {1, 2}
  BY SentAre DEF Pieces
<1>3. \A p, q \in S : p.n = q.n /\ p.part = q.part => p = q
  BY SentOnce
<1> HIDE DEF S, l
<1>4. f \in Injection(S, T)
  <2>1. \A p \in S : 2 * p.n + p.part \in T
    BY <1>1, <1>2
  <2>2. \A p, q \in S : 2 * p.n + p.part = 2 * q.n + q.part => p.n = q.n /\ p.part = q.part
    BY <1>1, <1>2
  <2> QED BY <2>1, <2>2, <1>3 DEF Injection, IsInjective
<1>5. IsFiniteSet(T)
  BY <1>1, FS_Interval
<1> HIDE DEF f, T
<1>6. IsFiniteSet(S)
  BY <1>4, <1>5, FS_Injection
<1> QED BY <1>6 DEF S

\* A workload's pieces in the order of their requests and parts.
LEMMA StreamInOrder ==
    ASSUME NEW w \in Workloads, NEW s \in Sessions
    PROVE  LET st == Streams[w][s] IN
           /\ st \in Seq(Pieces) /\ Len(st) \in Nat
           /\ \A i \in 1..Len(st) : st[i] \in Sent(w, s)
           /\ \A p \in Sent(w, s) : \E i \in 1..Len(st) : st[i] = p
           /\ \A i, j \in 1..Len(st) : i < j <=> Before(st[i], st[j])
<1> DEFINE S == Sent(w, s)
           R == {x \in S \X S : Before(x[1], x[2])}
           Place(g) == Cardinality({h \in S : <<h, g>> \in R})
           c == Cardinality(S)
           st == Streams[w][s]
<1>1. \A x, y \in S : <<x, y>> \in R <=> Before(x, y)
  OBVIOUS
<1>2. \A p \in S : p \in Pieces /\ p.n \in Nat /\ p.part \in {1, 2}
  BY SentAre DEF Pieces
<1>3. \A g \in S : {h \in S : <<h, g>> \in R} = {h \in S : Before(h, g)}
  BY <1>1
<1>4. \A p, q \in S : p.n = q.n /\ p.part = q.part => p = q
  BY SentOnce
<1>5. st = [i \in 1..c |-> CHOOSE p \in S : Cardinality({q \in S : Before(q, p)}) = i - 1]
  BY DEF Streams, Sent
<1>6. IsFiniteSet(S)
  BY SentFinite
<1>7. /\ c \in Nat
      /\ \A g \in S : Place(g) \in 0..(c - 1)
      /\ \A g, k \in S : <<g, k>> \in R <=> Place(g) < Place(k)
      /\ \A g, k \in S : Place(g) = Place(k) => g = k
      /\ \A i \in 0..(c - 1) : \E g \in S : Place(g) = i
  <2>1. \A x \in S : ~Before(x, x)
    BY <1>2 DEF Before
  <2>2. \A x, y, z \in S : Before(x, y) /\ Before(y, z) => Before(x, z)
    BY <1>2 DEF Before
  <2>3. \A x, y \in S : x # y => Before(x, y) \/ Before(y, x)
    BY <1>2, <1>4 DEF Before
  <2> HIDE DEF S, R
  <2>4. \A x \in S : <<x, x>> \notin R
    BY <2>1, <1>1
  <2>5. \A x, y, z \in S : <<x, y>> \in R /\ <<y, z>> \in R => <<x, z>> \in R
    BY <2>2, <1>1
  <2>6. \A x, y \in S : x # y => <<x, y>> \in R \/ <<y, x>> \in R
    BY <2>3, <1>1
  <2> QED BY <2>4, <2>5, <2>6, <1>6, InOrder
<1>8. \A p \in S : Place(p) = Cardinality({q \in S : Before(q, p)})
  BY <1>3
<1> HIDE DEF S, R, c, st, Place
<1>9. \A i \in 1..c : st[i] \in S /\ Place(st[i]) = i - 1
  <2> SUFFICES ASSUME NEW i \in 1..c PROVE st[i] \in S /\ Place(st[i]) = i - 1
    OBVIOUS
  <2> DEFINE Is(p) == Cardinality({q \in S : Before(q, p)}) = i - 1
  <2>1. i - 1 \in 0..(c - 1)
    BY <1>7
  <2>2. \E p \in S : Is(p)
    BY <2>1, <1>7, <1>8
  <2>3. st[i] = CHOOSE p \in S : Is(p)
    BY <1>5
  <2>4. st[i] \in S /\ Is(st[i])
    <3> HIDE DEF Is
    <3> QED BY <2>2, <2>3, Zenon
  <2> QED BY <2>4, <1>8
<1>10. st \in Seq(Pieces) /\ Len(st) = c
  <2> DEFINE F(i) == CHOOSE p \in S : Cardinality({q \in S : Before(q, p)}) = i - 1
  <2>1. st = [i \in 1..c |-> st[i]]
    <3>1. st = [i \in 1..c |-> F(i)]
      BY <1>5
    <3> HIDE DEF F
    <3> QED BY <3>1
  <2>2. st \in [1..c -> Pieces]
    BY <2>1, <1>9, <1>2
  <2> QED BY <2>2, <1>7
<1>11. \A p \in S : \E i \in 1..c : st[i] = p
  <2> SUFFICES ASSUME NEW p \in S PROVE \E i \in 1..c : st[i] = p
    OBVIOUS
  <2>1. Place(p) + 1 \in 1..c /\ Place(p) = (Place(p) + 1) - 1
    BY <1>7
  <2>2. st[Place(p) + 1] \in S /\ Place(st[Place(p) + 1]) = Place(p)
    BY <2>1, <1>9
  <2>3. st[Place(p) + 1] = p
    BY <2>2, <1>7
  <2> QED BY <2>1, <2>3
<1>12. \A i, j \in 1..c : i < j <=> Before(st[i], st[j])
  <2> SUFFICES ASSUME NEW i \in 1..c, NEW j \in 1..c
               PROVE  i < j <=> Before(st[i], st[j])
    OBVIOUS
  <2>1. Place(st[i]) = i - 1 /\ Place(st[j]) = j - 1 /\ st[i] \in S /\ st[j] \in S
    BY <1>9
  <2>2. Before(st[i], st[j]) <=> Place(st[i]) < Place(st[j])
    BY <2>1, <1>1, <1>7
  <2> QED BY <2>1, <2>2, <1>7
<1> QED BY <1>7, <1>9, <1>10, <1>11, <1>12 DEF S, st

\* The stream of a client: its requests in ascending order, each whole; a piece
\* that is not the last of its request is followed by the second and last.
LEMMA StreamFacts ==
    ASSUME NEW w \in Workloads, NEW s \in Sessions
    PROVE  LET st == Streams[w][s] IN
           /\ st \in Seq(Pieces) /\ Len(st) \in Nat
           /\ \A i \in 1..Len(st) :
                /\ st[i] \in Pieces /\ st[i].src = s /\ st[i].n \in 1..Len(w[s])
                /\ st[i].part = 1 => (st[i].last <=> w[s][st[i].n] \notin Forwarded)
                /\ st[i].part = 2 => st[i].last /\ w[s][st[i].n] \in Forwarded
           /\ Len(st) > 0 => st[1].n = 1 /\ st[1].part = 1
           /\ \A i \in 1..(Len(st) - 1) :
                IF st[i].last THEN st[i + 1].n = st[i].n + 1 /\ st[i + 1].part = 1
                ELSE st[i + 1].n = st[i].n /\ st[i + 1].part = 2
           /\ \A i \in 1..Len(st) : ~st[i].last => i < Len(st)
           /\ \A i, j \in 1..Len(st) : i < j =>
                st[i].n <= st[j].n /\ (st[i].last => st[i].n < st[j].n)
<1> DEFINE st == Streams[w][s]
           l == Len(w[s])
           fw(n) == w[s][n] \in Forwarded
<1>1. /\ st \in Seq(Pieces) /\ Len(st) \in Nat
      /\ \A i \in 1..Len(st) : st[i] \in Sent(w, s)
      /\ \A p \in Sent(w, s) : \E i \in 1..Len(st) : st[i] = p
      /\ \A i, j \in 1..Len(st) : i < j <=> Before(st[i], st[j])
  BY StreamInOrder
<1>2. l \in Nat
  BY WorkloadType
<1>3. \A i \in 1..Len(st) :
        /\ st[i] \in Pieces /\ st[i].src = s
        /\ st[i].n \in 1..l /\ st[i].n \in Nat /\ st[i].part \in {1, 2}
        /\ st[i].last <=> (st[i].part = IF fw(st[i].n) THEN 2 ELSE 1)
        /\ st[i].part = 2 => fw(st[i].n)
  BY <1>1, <1>2, SentAre DEF Pieces
\* Every request has a first piece, and a second if it is forwarded.
<1>4. \A n \in 1..l :
        /\ \E k \in 1..Len(st) : st[k].n = n /\ st[k].part = 1
        /\ fw(n) => \E k \in 1..Len(st) : st[k].n = n /\ st[k].part = 2
  <2> SUFFICES ASSUME NEW n \in 1..l
               PROVE  /\ \E k \in 1..Len(st) : st[k].n = n /\ st[k].part = 1
                      /\ fw(n) => \E k \in 1..Len(st) : st[k].n = n /\ st[k].part = 2
    OBVIOUS
  <2> DEFINE a == Piece(s, n, 1, FALSE, "client")
             b == Piece(s, n, 2, TRUE, "client")
             c == Piece(s, n, 1, TRUE, "client")
  <2>1. a.n = n /\ a.part = 1 /\ b.n = n /\ b.part = 2 /\ c.n = n /\ c.part = 1
    BY DEF Piece
  <2>2. fw(n) => a \in Sent(w, s) /\ b \in Sent(w, s)
    BY AreSent
  <2>3. ~fw(n) => c \in Sent(w, s)
    BY AreSent
  <2> HIDE DEF a, b, c, fw, st, l
  <2> QED BY <2>1, <2>2, <2>3, <1>1 DEF st
<1> HIDE DEF st, l, fw
<1>5. \A i, j \in 1..Len(st) :
        i < j <=> (st[i].n < st[j].n \/ (st[i].n = st[j].n /\ st[i].part < st[j].part))
  BY <1>1 DEF Before, st
<1>6. Len(st) > 0 => st[1].n = 1 /\ st[1].part = 1
  <2> SUFFICES ASSUME Len(st) > 0 PROVE st[1].n = 1 /\ st[1].part = 1
    OBVIOUS
  <2>1. 1 \in 1..Len(st) /\ 1 \in 1..l
    BY <1>1, <1>2, <1>3 DEF st
  <2>2. PICK k \in 1..Len(st) : st[k].n = 1 /\ st[k].part = 1
    BY <2>1, <1>4
  <2>3. ~(k < 1)
    OBVIOUS
  <2>4. k = 1 \/ 1 < k
    OBVIOUS
  <2> QED BY <2>1, <2>2, <2>4, <1>3, <1>5
<1>7. ASSUME NEW i \in 1..Len(st), ~st[i].last
      PROVE  i < Len(st) /\ st[i + 1].n = st[i].n /\ st[i + 1].part = 2
  <2>1. st[i].part = 1 /\ fw(st[i].n)
    BY <1>3, <1>7
  <2>2. PICK k \in 1..Len(st) : st[k].n = st[i].n /\ st[k].part = 2
    BY <2>1, <1>3, <1>4
  <2>3. i < k
    BY <2>1, <2>2, <1>5, <1>3
  <2>4. i + 1 \in 1..Len(st) /\ i < i + 1 /\ i < Len(st) /\ (k = i + 1 \/ i + 1 < k)
    BY <2>3, <1>1 DEF st
  <2>5. CASE k = i + 1
    BY <2>2, <2>4, <2>5
  <2>6. CASE i + 1 < k
    <3>1. st[i].n <= st[i + 1].n /\ st[i + 1].n <= st[k].n
      BY <2>4, <2>6, <1>5, <1>3
    <3>2. st[i + 1].n = st[i].n
      BY <3>1, <2>2, <2>4, <1>3
    <3>3. 1 < st[i + 1].part /\ st[i + 1].part < 2
      BY <3>2, <2>1, <2>2, <2>4, <2>6, <1>5, <1>3
    <3> QED BY <3>3, <2>4, <1>3
  <2> QED BY <2>4, <2>5, <2>6
<1>8. ASSUME NEW i \in 1..(Len(st) - 1), st[i].last
      PROVE  st[i + 1].n = st[i].n + 1 /\ st[i + 1].part = 1
  <2> DEFINE m == st[i].n
             n == st[i + 1].n
             k == st[i + 1].part
  <2>1. i \in 1..Len(st) /\ i + 1 \in 1..Len(st) /\ i < i + 1
    BY <1>1 DEF st
  <2>2. m \in Nat /\ n \in Nat /\ m >= 1 /\ n \in 1..l /\ k \in {1, 2}
    BY <2>1, <1>3, <1>2
  <2>3. m < n
    <3>1. m < n \/ (m = n /\ st[i].part < k)
      BY <2>1, <1>5
    <3>2. m = n /\ st[i].part < k => st[i].part = 1 /\ k = 2
      BY <2>1, <1>3
    <3>3. st[i].part = 1 => ~fw(m)
      BY <2>1, <1>3, <1>8
    <3>4. k = 2 => fw(n)
      BY <2>1, <1>3
    <3> QED BY <3>1, <3>2, <3>3, <3>4
  <2>4. m + 1 \in 1..l
    BY <2>2, <2>3, <1>2
  <2>5. PICK j \in 1..Len(st) : st[j].n = m + 1 /\ st[j].part = 1
    BY <2>4, <1>4
  <2>6. i < j
    BY <2>1, <2>2, <2>5, <1>5
  <2>7. j = i + 1 \/ i + 1 < j
    BY <2>6
  <2>8. CASE i + 1 < j
    <3>1. n < m + 1 \/ (n = m + 1 /\ k < 1)
      BY <2>1, <2>5, <2>8, <1>5
    <3> QED BY <3>1, <2>2, <2>3
  <2> QED BY <2>5, <2>7, <2>8
<1>9. \A i, j \in 1..Len(st) : i < j =>
        st[i].n <= st[j].n /\ (st[i].last => st[i].n < st[j].n)
  <2> SUFFICES ASSUME NEW i \in 1..Len(st), NEW j \in 1..Len(st), i < j
               PROVE  st[i].n <= st[j].n /\ (st[i].last => st[i].n < st[j].n)
    OBVIOUS
  <2>1. st[i].n < st[j].n \/ (st[i].n = st[j].n /\ st[i].part < st[j].part)
    BY <1>5
  <2>2. st[i].n \in Nat /\ st[j].n \in Nat
    BY <1>3
  <2>3. st[i].part < st[j].part => st[i].part = 1 /\ st[j].part = 2
    BY <1>3
  <2>4. st[i].part = 1 /\ st[i].last => ~fw(st[i].n)
    BY <1>3
  <2>5. st[j].part = 2 => fw(st[j].n)
    BY <1>3
  <2> QED BY <2>1, <2>2, <2>3, <2>4, <2>5
<1>10. \A i \in 1..Len(st) :
        /\ st[i].part = 1 => (st[i].last <=> w[s][st[i].n] \notin Forwarded)
        /\ st[i].part = 2 => st[i].last /\ w[s][st[i].n] \in Forwarded
  BY <1>3 DEF fw
<1>11. \A i \in 1..(Len(st) - 1) :
        IF st[i].last THEN st[i + 1].n = st[i].n + 1 /\ st[i + 1].part = 1
        ELSE st[i + 1].n = st[i].n /\ st[i + 1].part = 2
  <2>1. \A i \in 1..(Len(st) - 1) : i \in 1..Len(st)
    BY <1>1 DEF st
  <2> QED BY <2>1, <1>7, <1>8
<1>12. \A i \in 1..Len(st) : ~st[i].last => i < Len(st)
  BY <1>7
<1> QED BY <1>1, <1>3, <1>6, <1>9, <1>10, <1>11, <1>12 DEF st, l

-----------------------------------------------------------------------------
(* The invariant, first part: types, leases, and where each session is.    *)

TypeInv ==
    /\ script \in Workloads
    /\ done \in [Sessions -> Nat]
    /\ auth \in [Sessions -> BOOLEAN]
    /\ pc \in [Sessions -> Stages]
    /\ recvBuff \in [Sessions -> Seq(Pieces)]
    /\ sendBuff \in [Sessions -> Seq(Pieces)]
    /\ toClient \in [Sessions -> Seq(Pieces)]
    /\ recvBufferParsedOffset \in [Sessions -> Nat]
    /\ sendBufferParsedOffset \in [Sessions -> Nat]
    /\ sendBytes \in [Sessions -> Nat]
    /\ sendToRedisBytes \in [Sessions -> 0..1]
    /\ toServer \in [Connections -> Seq(Pieces)]
    /\ fromServer \in [Connections -> Seq(Pieces)]
    /\ broken \in [Connections -> BOOLEAN]
    /\ failures \in 0..MaxFailures
    /\ exposed \in BOOLEAN

LeaseInv ==
    /\ LeaseTypeOK
    /\ IsInjective(line)
    /\ \A s \in ToSet(line) : phase[s] = "waiting"
    /\ \A s \in Sessions :
        IF phase[s] = "granted" THEN lease[s] \in Connections ELSE lease[s] = NoConnection
    /\ \A s, t \in Sessions :
        phase[s] = "granted" /\ phase[t] = "granted" /\ lease[s] = lease[t] => s = t

Busy == {"dispatch", "select", "line", "send", "recv"}
parsedEnd(s) == done[s] + recvBufferParsedOffset[s]

\* recvBuff holds the stream from done on, and requests are parsed whole.
ReadInv(s) ==
    /\ done[s] + Len(recvBuff[s]) <= Len(Stream(s))
    /\ recvBufferParsedOffset[s] <= Len(recvBuff[s])
    /\ \A i \in 1..Len(recvBuff[s]) : recvBuff[s][i] = Stream(s)[done[s] + i]
    /\ done[s] > 0 => Stream(s)[done[s]].last
    /\ parsedEnd(s) > 0 => Stream(s)[parsedEnd(s)].last

SendInv(s) ==
    /\ sendBufferParsedOffset[s] <= Len(sendBuff[s])
    /\ sendBytes[s] <= Len(sendBuff[s])

StageInv(s) ==
    /\ pc[s] = "line" <=> phase[s] = "waiting"
    /\ pc[s] \in {"send", "recv"} <=> phase[s] = "granted"
    /\ pc[s] \in Busy \union {"finish", "write"} => recvBufferParsedOffset[s] > 0
    /\ pc[s] \in Busy \ {"dispatch"} => script[s][current(s)] \in Forwarded
    /\ pc[s] = "write" => recvBufferParsedOffset[s] = Len(recvBuff[s])
    /\ pc[s] \notin {"write", "closed"} => sendBytes[s] = 0

Base ==
    /\ TypeInv
    /\ LeaseInv
    /\ \A s \in Sessions : ReadInv(s) /\ SendInv(s) /\ StageInv(s)

-----------------------------------------------------------------------------
(* Leases.                                                                 *)

\* A session that holds a connection is not in the line, and the head of the
\* line waits.
LEMMA HeadWaits ==
    ASSUME LeaseInv, line # <<>>
    PROVE  /\ Head(line) \in Sessions /\ phase[Head(line)] = "waiting"
           /\ Head(line) \notin ToSet(Tail(line)) /\ Tail(line) \in Seq(Sessions)
           /\ IsInjective(Tail(line)) /\ ToSet(Tail(line)) \subseteq ToSet(line)
<1>1. line \in Seq(Sessions) /\ IsInjective(line)
  BY DEF LeaseInv, LeaseTypeOK
<1>2. /\ Head(line) \in Sessions /\ Head(line) \in ToSet(line)
      /\ Tail(line) \in Seq(Sessions) /\ IsInjective(Tail(line))
      /\ ToSet(Tail(line)) = ToSet(line) \ {Head(line)}
  BY <1>1, TakeHead
<1> QED BY <1>2 DEF LeaseInv

\* No connection is lent twice, and those who wait are in the line once.
LEMMA LeaseKept ==
    ASSUME LeaseInv, LeaseNext
    PROVE  LeaseInv'
<1>1. ASSUME NEW s \in Sessions, Ask(s) \/ Refuse(s) \/ Answer(s) PROVE LeaseInv'
  <2>1. /\ phase' \in [Sessions -> Phases] /\ lease' = lease /\ line' = line
        /\ \A t \in Sessions : t # s => phase'[t] = phase[t]
        /\ phase[s] \notin {"granted", "waiting"} /\ phase'[s] \notin {"granted", "waiting"}
    BY <1>1 DEF Ask, Refuse, Answer, LeaseInv, LeaseTypeOK, Phases
  <2>2. ToSet(line) \subseteq Sessions
    BY EmptyQueue DEF LeaseInv, LeaseTypeOK
  <2> QED BY <2>1, <2>2 DEF LeaseInv, LeaseTypeOK
<1>2. ASSUME NEW s \in Sessions, Grant(s) PROVE LeaseInv'
  <2>1. PICK c \in Available : lease' = [lease EXCEPT ![s] = c]
    BY <1>2 DEF Grant
  <2>2. /\ phase' = [phase EXCEPT ![s] = "granted"] /\ line' = line /\ phase[s] = "asking"
        /\ c \in Connections /\ \A t \in Sessions : lease[t] # c
    BY <1>2 DEF Grant, Available
  <2>3. ToSet(line) \subseteq Sessions
    BY EmptyQueue DEF LeaseInv, LeaseTypeOK
  <2> QED BY <2>1, <2>2, <2>3 DEF LeaseInv, LeaseTypeOK, Phases
<1>3. ASSUME NEW s \in Sessions, Wait(s) PROVE LeaseInv'
  <2>1. /\ phase' = [phase EXCEPT ![s] = "waiting"] /\ line' = Append(line, s)
        /\ lease' = lease /\ phase[s] = "asking" /\ s \notin ToSet(line)
    BY <1>3 DEF Wait, LeaseInv
  <2> DEFINE more == Append(line, s)
  <2>2. more \in Seq(Sessions) /\ ToSet(more) = ToSet(line) \union {s} /\ IsInjective(more)
    BY <2>1, AppendTail DEF LeaseInv, LeaseTypeOK
  <2>3. ToSet(line) \subseteq Sessions
    BY EmptyQueue DEF LeaseInv, LeaseTypeOK
  <2>4. line' = more
    BY <2>1
  <2> HIDE DEF more
  <2> QED BY <2>1, <2>2, <2>3, <2>4 DEF LeaseInv, LeaseTypeOK, Phases
<1>4. ASSUME NEW s \in Sessions, PassOn(s) PROVE LeaseInv'
  <2> DEFINE t == Head(line)
  <2>1. /\ phase' = [phase EXCEPT ![s] = "answered", ![t] = "granted"]
        /\ lease' = [lease EXCEPT ![s] = NoConnection, ![t] = lease[s]]
        /\ line' = Tail(line) /\ phase[s] = "granted" /\ line # <<>>
    BY <1>4 DEF PassOn
  <2>2. /\ t \in Sessions /\ phase[t] = "waiting"
        /\ t \notin ToSet(line') /\ line' \in Seq(Sessions) /\ IsInjective(line')
        /\ ToSet(line') \subseteq ToSet(line)
    BY <2>1, HeadWaits
  <2>3. ToSet(line) \subseteq Sessions
    BY EmptyQueue DEF LeaseInv, LeaseTypeOK
  <2> HIDE DEF t
  <2> QED BY <2>1, <2>2, <2>3 DEF LeaseInv, LeaseTypeOK, Phases
<1>5. ASSUME NEW s \in Sessions, GiveBack(s) PROVE LeaseInv'
  <2>1. ToSet(line) \subseteq Sessions
    BY EmptyQueue DEF LeaseInv, LeaseTypeOK
  <2> QED BY <2>1, <1>5 DEF GiveBack, LeaseInv, LeaseTypeOK, Phases
<1>6. ASSUME TurnAway PROVE LeaseInv'
  <2> DEFINE t == Head(line)
  <2>1. /\ phase' = [phase EXCEPT ![t] = "answered"]
        /\ lease' = lease /\ line' = Tail(line) /\ line # <<>>
    BY <1>6 DEF TurnAway
  <2>2. /\ t \in Sessions /\ phase[t] = "waiting"
        /\ t \notin ToSet(line') /\ line' \in Seq(Sessions) /\ IsInjective(line')
        /\ ToSet(line') \subseteq ToSet(line)
    BY <2>1, HeadWaits
  <2>3. ToSet(line) \subseteq Sessions
    BY EmptyQueue DEF LeaseInv, LeaseTypeOK
  <2> HIDE DEF t
  <2> QED BY <2>1, <2>2, <2>3 DEF LeaseInv, LeaseTypeOK, Phases
<1> QED BY <1>1, <1>2, <1>3, <1>4, <1>5, <1>6 DEF LeaseNext

\* A session is done with its connection, which the head of the line takes
\* over if there is one.
Release(s) ==
    \/ /\ line # <<>> /\ PassOn(s)
       /\ pc' = [pc EXCEPT ![s] = "finish", ![Head(line)] = "send"]
    \/ GiveBack(s) /\ Finished(s)

\* Who is affected.
LEMMA ReleaseFacts ==
    ASSUME Base, NEW s \in Sessions, Release(s)
    PROVE  /\ pc' \in [Sessions -> Stages]
           /\ LeaseInv'
           /\ phase[s] = "granted" /\ phase'[s] = "answered" /\ pc'[s] = "finish"
           /\ lease'[s] = NoConnection
           /\ \A t \in Sessions \ {s} :
                \/ pc'[t] = pc[t] /\ phase'[t] = phase[t] /\ lease'[t] = lease[t]
                \/ /\ pc[t] = "line" /\ phase[t] = "waiting" /\ pc'[t] = "send"
                   /\ phase'[t] = "granted" /\ lease'[t] = lease[s]
                   /\ t = Head(line) /\ line # <<>>
<1>1. LeaseInv /\ pc \in [Sessions -> Stages]
  BY DEF Base, TypeInv
<1>2. phase \in [Sessions -> Phases] /\ lease \in [Sessions -> Connections \union {NoConnection}]
  BY <1>1 DEF LeaseInv, LeaseTypeOK
<1>3. LeaseInv'
  BY <1>1, LeaseKept DEF Release, LeaseNext
<1>4. CASE GiveBack(s) /\ Finished(s)
  BY <1>4, <1>1, <1>2, <1>3 DEF GiveBack, Finished, Stages
<1>5. CASE line # <<>> /\ PassOn(s) /\ pc' = [pc EXCEPT ![s] = "finish", ![Head(line)] = "send"]
  <2> DEFINE t == Head(line)
  <2>1. t \in Sessions /\ phase[t] = "waiting"
    BY <1>1, <1>5, HeadWaits
  <2>2. pc[t] = "line"
    BY <2>1 DEF Base, StageInv
  <2>3. /\ phase' = [phase EXCEPT ![s] = "answered", ![t] = "granted"]
        /\ lease' = [lease EXCEPT ![s] = NoConnection, ![t] = lease[s]]
        /\ pc' = [pc EXCEPT ![s] = "finish", ![t] = "send"]
        /\ phase[s] = "granted" /\ line # <<>>
    BY <1>5 DEF PassOn
  <2>4. t = Head(line)
    OBVIOUS
  <2> HIDE DEF t
  <2> QED BY <2>1, <2>2, <2>3, <2>4, <1>1, <1>2, <1>3 DEF Stages
<1> QED BY <1>4, <1>5 DEF Release

-----------------------------------------------------------------------------
(* The request a session is about, and the next one.                       *)

\* The number of the last request that was parsed.
parsed(s) == IF parsedEnd(s) = 0 THEN 0 ELSE Stream(s)[parsedEnd(s)].n

\* What is known of the stream of a session.
LEMMA StreamType ==
    ASSUME script \in Workloads, NEW s \in Sessions
    PROVE  /\ Stream(s) \in Seq(Pieces) /\ Len(Stream(s)) \in Nat
           /\ script[s] \in Seq(Kinds) /\ Len(script[s]) \in Nat
BY StreamFacts, WorkloadType DEF Stream

\* The numbers of a session.
LEMMA SessionTypes ==
    ASSUME Base, NEW s \in Sessions
    PROVE  /\ done[s] \in Nat /\ parsedEnd(s) \in Nat
           /\ recvBufferParsedOffset[s] \in Nat /\ sendBufferParsedOffset[s] \in Nat
           /\ sendBytes[s] \in Nat /\ sendToRedisBytes[s] \in 0..1
           /\ recvBuff[s] \in Seq(Pieces) /\ Len(recvBuff[s]) \in Nat
           /\ sendBuff[s] \in Seq(Pieces) /\ Len(sendBuff[s]) \in Nat
           /\ toClient[s] \in Seq(Pieces) /\ Len(toClient[s]) \in Nat
           /\ pc[s] \in Stages
           /\ script \in Workloads
           /\ Stream(s) \in Seq(Pieces) /\ Len(Stream(s)) \in Nat
<1>1. TypeInv
  BY DEF Base
<1>2. done[s] \in Nat /\ recvBufferParsedOffset[s] \in Nat /\ sendBufferParsedOffset[s] \in Nat
  BY <1>1 DEF TypeInv
<1>3. sendBytes[s] \in Nat /\ sendToRedisBytes[s] \in 0..1 /\ pc[s] \in Stages
  BY <1>1 DEF TypeInv
<1>4. recvBuff[s] \in Seq(Pieces) /\ sendBuff[s] \in Seq(Pieces) /\ toClient[s] \in Seq(Pieces)
  BY <1>1 DEF TypeInv
<1>5. Len(recvBuff[s]) \in Nat /\ Len(sendBuff[s]) \in Nat /\ Len(toClient[s]) \in Nat
  BY <1>4
<1>6. parsedEnd(s) \in Nat
  BY <1>2 DEF parsedEnd
<1>7. script \in Workloads
  BY <1>1 DEF TypeInv
<1> QED BY <1>2, <1>3, <1>4, <1>5, <1>6, <1>7, StreamType

\* A session that handles a request knows its number, and the whole of it has
\* been read.
LEMMA CurrentFacts ==
    ASSUME Base, NEW s \in Sessions, pc[s] \in Busy \union {"finish", "write"}
    PROVE  /\ recvBufferParsedOffset[s] \in 1..Len(recvBuff[s])
           /\ parsedEnd(s) \in 1..Len(Stream(s))
           /\ current(s) = Stream(s)[parsedEnd(s)].n /\ current(s) = parsed(s)
           /\ current(s) \in Nat /\ current(s) \in 1..Len(script[s])
           /\ Stream(s)[parsedEnd(s)].last
<1>1. ReadInv(s) /\ StageInv(s)
  BY DEF Base
<1>2. /\ done[s] \in Nat /\ recvBufferParsedOffset[s] \in Nat /\ Len(recvBuff[s]) \in Nat
      /\ script \in Workloads /\ Len(Stream(s)) \in Nat
  BY SessionTypes
<1>3. recvBufferParsedOffset[s] \in 1..Len(recvBuff[s])
  BY <1>1, <1>2 DEF ReadInv, StageInv
<1>4. parsedEnd(s) \in 1..Len(Stream(s)) /\ parsedEnd(s) > 0
  BY <1>1, <1>2, <1>3 DEF ReadInv, parsedEnd
<1>5. current(s) = Stream(s)[parsedEnd(s)].n
  BY <1>1, <1>3 DEF ReadInv, current, parsedEnd
<1>6. Stream(s)[parsedEnd(s)].n \in 1..Len(script[s])
  BY <1>2, <1>4, StreamFacts DEF Stream
<1>7. Len(script[s]) \in Nat
  BY <1>2, StreamType
<1> QED BY <1>1, <1>3, <1>4, <1>5, <1>6, <1>7 DEF ReadInv, parsed

\* What it forwards is its current request, in two pieces.
LEMMA RequestFacts ==
    ASSUME Base, NEW s \in Sessions, pc[s] \in Busy \ {"dispatch"}
    PROVE  /\ Request(s) = Halves(s, current(s), "client")
           /\ Request(s) \in Seq(Pieces) /\ Len(Request(s)) = 2
           /\ current(s) \in Nat
<1>1. script[s][current(s)] \in Forwarded
  BY DEF Base, StageInv
<1>2. Request(s) = Halves(s, current(s), "client")
  BY <1>1 DEF Request, RequestPieces, Written
<1>3. current(s) \in Nat
  BY CurrentFacts
<1>4. Halves(s, current(s), "client") \in Seq(Pieces) /\ Len(Halves(s, current(s), "client")) = 2
  BY <1>3 DEF Halves, Piece, Pieces
<1> QED BY <1>2, <1>3, <1>4

\* A part of a sequence.
LEMMA Cut ==
    ASSUME NEW S, NEW q \in Seq(S), NEW a \in Nat, NEW b \in 0..Len(q)
    PROVE  LET d == SubSeq(q, a + 1, b) IN
           /\ d \in Seq(S) /\ Len(d) = IF a < b THEN b - a ELSE 0
           /\ \A i \in 1..(b - a) : d[i] = q[a + i] /\ a + i \in 1..Len(q)
<1>1. \A i \in (a + 1)..b : q[i] \in S
  OBVIOUS
<1>2. /\ SubSeq(q, a + 1, b) \in Seq(S)
      /\ Len(SubSeq(q, a + 1, b)) = IF a + 1 <= b THEN b - (a + 1) + 1 ELSE 0
      /\ \A i \in 1..(b - (a + 1) + 1) : SubSeq(q, a + 1, b)[i] = q[a + 1 + i - 1]
  BY <1>1, SubSeqProperties
<1>3. \A i \in 1..(b - a) : i \in 1..(b - (a + 1) + 1) /\ a + 1 + i - 1 = a + i /\ a + i \in 1..Len(q)
  OBVIOUS
<1>4. (a + 1 <= b <=> a < b) /\ b - (a + 1) + 1 = b - a
  OBVIOUS
<1> QED BY <1>2, <1>3, <1>4

\* Two sequences, one after the other.
LEMMA Join ==
    ASSUME NEW S, NEW q \in Seq(S), NEW r \in Seq(S)
    PROVE  LET d == q \o r IN
           /\ d \in Seq(S) /\ Len(d) = Len(q) + Len(r)
           /\ \A i \in 1..Len(q) : d[i] = q[i]
           /\ \A i \in 1..Len(r) : d[Len(q) + i] = r[i]
<1>1. /\ q \o r \in Seq(S)
      /\ Len(q \o r) = Len(q) + Len(r)
      /\ \A i \in 1..Len(q) + Len(r) : (q \o r)[i] = IF i <= Len(q) THEN q[i] ELSE r[i - Len(q)]
  BY ConcatProperties
<1>2. \A i \in 1..Len(q) : i \in 1..Len(q) + Len(r) /\ i <= Len(q)
  OBVIOUS
<1>3. \A i \in 1..Len(r) : Len(q) + i \in 1..Len(q) + Len(r) /\ ~(Len(q) + i <= Len(q))
                           /\ (Len(q) + i) - Len(q) = i
  OBVIOUS
<1> QED BY <1>1, <1>2, <1>3

\* buff holds the stream from done on.
Holds(buff, s) ==
    /\ buff \in Seq(Pieces)
    /\ done[s] + Len(buff) <= Len(Stream(s))
    /\ \A i \in 1..Len(buff) : buff[i] = Stream(s)[done[s] + i]

\* Parsing goes past the next request, whole, or stays where it is.
LEMMA ParseFacts ==
    ASSUME Base, NEW s \in Sessions, NEW buff, Holds(buff, s),
           recvBufferParsedOffset[s] < Len(buff), Parse(s, buff)
    PROVE  /\ recvBufferParsedOffset' = [recvBufferParsedOffset EXCEPT ![s] = recvBufferParsedOffset'[s]]
           /\ pc' = [pc EXCEPT ![s] = pc'[s]]
           /\ recvBufferParsedOffset'[s] \in Nat /\ recvBufferParsedOffset'[s] <= Len(buff)
           /\ LET e == done[s] + recvBufferParsedOffset'[s] IN
              \/ /\ pc'[s] = "dispatch" /\ recvBufferParsedOffset'[s] > recvBufferParsedOffset[s]
                 /\ e \in 1..Len(Stream(s)) /\ Stream(s)[e].last /\ Stream(s)[e].n = parsed(s) + 1
              \/ /\ pc'[s] \in {"read", "closed"}
                 /\ recvBufferParsedOffset'[s] = recvBufferParsedOffset[s]
<1> DEFINE off == recvBufferParsedOffset[s]
           st == Stream(s)
           d == done[s]
           rest == Unparsed(buff, off)
           p == Head(rest)
           r == ParseRequest(rest)
<1>1. /\ off \in Nat /\ d \in Nat /\ st \in Seq(Pieces) /\ Len(st) \in Nat
      /\ recvBufferParsedOffset \in [Sessions -> Nat] /\ pc \in [Sessions -> Stages]
      /\ script \in Workloads /\ Len(buff) \in Nat /\ parsedEnd(s) = d + off
      /\ buff \in Seq(Pieces) /\ d + Len(buff) <= Len(st) /\ off < Len(buff)
      /\ \A i \in 1..Len(buff) : buff[i] = st[d + i]
  <2>1. recvBufferParsedOffset \in [Sessions -> Nat] /\ pc \in [Sessions -> Stages]
    BY DEF Base, TypeInv
  <2>2. /\ buff \in Seq(Pieces) /\ d + Len(buff) <= Len(st) /\ off < Len(buff)
        /\ \A i \in 1..Len(buff) : buff[i] = st[d + i]
    BY DEF Holds
  <2>3. Len(buff) \in Nat
    BY <2>2
  <2>4. parsedEnd(s) = d + off
    BY DEF parsedEnd
  <2>5. off \in Nat /\ d \in Nat /\ st \in Seq(Pieces) /\ Len(st) \in Nat /\ script \in Workloads
    BY SessionTypes
  <2> QED BY <2>1, <2>2, <2>3, <2>4, <2>5
<1>2. /\ rest \in Seq(Pieces) /\ Len(rest) = Len(buff) - off /\ Len(rest) \in Nat /\ Len(rest) >= 1
      /\ \A i \in 1..Len(rest) : rest[i] = buff[off + i] /\ off + i \in 1..Len(buff)
  <2> HIDE DEF off, d, st
  <2>1. Len(buff) \in 0..Len(buff)
    BY <1>1
  <2>2. /\ rest \in Seq(Pieces) /\ Len(rest) = IF off < Len(buff) THEN Len(buff) - off ELSE 0
        /\ \A i \in 1..(Len(buff) - off) : rest[i] = buff[off + i] /\ off + i \in 1..Len(buff)
    BY <2>1, <1>1, Cut DEF Unparsed
  <2> HIDE DEF rest
  <2> QED BY <2>2, <1>1
<1>3. p = st[d + off + 1] /\ d + off + 1 \in 1..Len(st)
  <2> HIDE DEF rest, off, st, d
  <2>1. p = rest[1] /\ 1 \in 1..Len(rest)
    BY <1>2
  <2>2. rest[1] = buff[off + 1] /\ off + 1 \in 1..Len(buff)
    BY <1>2, <2>1
  <2>3. d + (off + 1) = d + off + 1 /\ d + off + 1 \in 1..Len(st)
    BY <2>2, <1>1
  <2> QED BY <2>1, <2>2, <2>3, <1>1
<1>4. p.src = s /\ p.part = 1 /\ p.n = parsed(s) + 1
  <2>1. p.src = s
    BY <1>1, <1>3, StreamFacts DEF Stream
  <2>2. CASE d + off = 0
    <3>1. p = st[1] /\ Len(st) > 0 /\ parsed(s) = 0
      BY <2>2, <1>1, <1>3 DEF parsed
    <3>2. st[1].n = 1 /\ st[1].part = 1
      BY <3>1, <1>1, StreamFacts DEF Stream
    <3> QED BY <2>1, <3>1, <3>2
  <2>3. CASE d + off > 0
    <3> DEFINE e == d + off
    <3>1. st[e].last /\ e \in 1..(Len(st) - 1) /\ parsed(s) = st[e].n
      BY <2>3, <1>1, <1>3 DEF parsed, Base, ReadInv
    <3> HIDE DEF e
    <3>2. st[e + 1].n = st[e].n + 1 /\ st[e + 1].part = 1
      BY <3>1, <1>1, StreamFacts DEF Stream
    <3> QED BY <2>1, <3>1, <3>2, <1>3 DEF e
  <2> QED BY <2>2, <2>3, <1>1
<1>5. \/ r.state = "error" /\ r.len = 0
      \/ r.state = "incomplete" /\ r.len = 0
      \/ r.state = "ok" /\ r.len = 1 /\ p.last
      \/ r.state = "ok" /\ r.len = 2 /\ ~p.last /\ Len(rest) >= 2
  <2> HIDE DEF rest
  <2> DEFINE bad == script[p.src][p.n] = "bad"
  <2>1. CASE bad
    BY <2>1 DEF ParseRequest
  <2>2. CASE ~bad /\ p.last
    BY <2>2 DEF ParseRequest
  <2>3. CASE ~bad /\ ~p.last /\ Len(rest) = 1
    BY <2>3 DEF ParseRequest
  <2>4. CASE ~bad /\ ~p.last /\ Len(rest) # 1
    BY <2>4, <1>2 DEF ParseRequest
  <2> QED BY <2>1, <2>2, <2>3, <2>4
<1> HIDE DEF r, p, rest, st, d, off
<1>6. /\ recvBufferParsedOffset' = [recvBufferParsedOffset EXCEPT ![s] = @ + r.len]
      /\ r.state = "ok" => pc' = [pc EXCEPT ![s] = "dispatch"]
      /\ r.state = "incomplete" => pc' = [pc EXCEPT ![s] = "read"]
      /\ r.state = "error" => pc' = [pc EXCEPT ![s] = "closed"]
  <2>1. recvBufferParsedOffset' = [recvBufferParsedOffset EXCEPT ![s] = @ + r.len]
    BY DEF Parse, r, rest, off
  <2>2. (CASE r.state = "ok" -> pc' = [pc EXCEPT ![s] = "dispatch"]
           [] r.state = "incomplete" -> pc' = [pc EXCEPT ![s] = "read"]
           [] r.state = "error" -> pc' = [pc EXCEPT ![s] = "closed"])
    BY DEF Parse, r, rest, off
  <2> QED BY <2>1, <2>2
<1>7. CASE r.state \in {"error", "incomplete"} /\ r.len = 0
  BY <1>7, <1>6, <1>1 DEF off, Stages, Holds
<1>8. CASE r.state = "ok" /\ r.len = 1 /\ p.last
  <2>1. pc' = [pc EXCEPT ![s] = "dispatch"] /\ pc'[s] = "dispatch"
    BY <1>8, <1>6, <1>1
  <2>2. /\ recvBufferParsedOffset' = [recvBufferParsedOffset EXCEPT ![s] = off + 1]
        /\ recvBufferParsedOffset'[s] = off + 1
    BY <1>8, <1>6, <1>1 DEF off
  <2>3. d + (off + 1) = d + off + 1 /\ off + 1 <= Len(buff)
    BY <1>1, <1>2
  <2> QED BY <2>1, <2>2, <2>3, <1>1, <1>3, <1>4, <1>8 DEF st, d, off
<1>9. CASE r.state = "ok" /\ r.len = 2 /\ ~p.last /\ Len(rest) >= 2
  <2>1. pc' = [pc EXCEPT ![s] = "dispatch"] /\ pc'[s] = "dispatch"
    BY <1>9, <1>6, <1>1
  <2>2. /\ recvBufferParsedOffset' = [recvBufferParsedOffset EXCEPT ![s] = off + 2]
        /\ recvBufferParsedOffset'[s] = off + 2
    BY <1>9, <1>6, <1>1 DEF off
  <2>3. off + 2 <= Len(buff)
    BY <1>1, <1>2, <1>9
  <2>4. d + off + 1 \in 1..(Len(st) - 1) /\ d + (off + 2) = d + off + 1 + 1 /\ d + off + 1 + 1 \in 1..Len(st)
    BY <2>3, <1>1
  <2>5. st[d + off + 1 + 1].n = p.n /\ st[d + off + 1 + 1].part = 2
    <3> DEFINE e == d + off + 1
    <3>1. ~st[e].last /\ e \in 1..(Len(st) - 1) /\ st[e] = p
      BY <2>4, <1>3, <1>9
    <3> HIDE DEF e
    <3>2. st[e + 1].n = st[e].n /\ st[e + 1].part = 2
      BY <3>1, <1>1, StreamFacts DEF Stream, st
    <3> QED BY <3>1, <3>2 DEF e
  <2>6. st[d + off + 1 + 1].last
    BY <2>4, <2>5, <1>1, StreamFacts DEF Stream, st
  <2>7. /\ d + recvBufferParsedOffset'[s] = d + off + 1 + 1 /\ off + 2 \in Nat /\ off + 2 > off
        /\ st[d + off + 1 + 1].n = parsed(s) + 1
    BY <2>2, <2>4, <2>5, <1>1, <1>4
  <2>8. recvBufferParsedOffset' = [recvBufferParsedOffset EXCEPT ![s] = recvBufferParsedOffset'[s]]
    BY <2>2
  <2> QED BY <2>1, <2>2, <2>3, <2>4, <2>6, <2>7, <2>8 DEF st, d, off
<1> QED BY <1>5, <1>7, <1>8, <1>9

-----------------------------------------------------------------------------
(* What a step leaves alone.                                               *)

SameReading == UNCHANGED <<script, done, recvBuff, recvBufferParsedOffset>>

\* What a client wrote and what is read of it stay, and with them all that is
\* derived from them.
LEMMA ReadKept ==
    ASSUME Base, SameReading, NEW s \in Sessions
    PROVE  /\ ReadInv(s)'
           /\ current(s)' = current(s) /\ Request(s)' = Request(s)
           /\ Stream(s)' = Stream(s) /\ parsedEnd(s)' = parsedEnd(s) /\ parsed(s)' = parsed(s)
<1>1. /\ script' = script /\ done' = done /\ recvBuff' = recvBuff
      /\ recvBufferParsedOffset' = recvBufferParsedOffset /\ ReadInv(s)
  BY DEF SameReading, Base
<1>2. Stream(s)' = Stream(s)
  BY <1>1 DEF Stream
<1>3. parsedEnd(s)' = parsedEnd(s)
  BY <1>1 DEF parsedEnd
<1>4. current(s)' = current(s)
  BY <1>1 DEF current
<1>5. Request(s)' = Request(s)
  BY <1>1, <1>4 DEF Request, RequestPieces
<1>6. parsed(s)' = parsed(s)
  BY <1>2, <1>3 DEF parsed
<1>7. ReadInv(s)'
  BY <1>1, <1>2, <1>3 DEF ReadInv
<1> QED BY <1>2, <1>3, <1>4, <1>5, <1>6, <1>7

\* The lease is as sound as it was if nothing of it changes.
LEMMA LeaseSame == ASSUME LeaseInv, UNCHANGED leaseVars PROVE LeaseInv'
BY DEF LeaseInv, LeaseTypeOK, leaseVars

\* A session whose own values are as they were.
Still(t) ==
    /\ pc'[t] = pc[t] /\ phase'[t] = phase[t]
    /\ sendBuff'[t] = sendBuff[t] /\ sendBytes'[t] = sendBytes[t]
    /\ sendBufferParsedOffset'[t] = sendBufferParsedOffset[t]

\* A session that stands still keeps its part of Base.
LEMMA StillKept ==
    ASSUME Base, SameReading, NEW t \in Sessions, Still(t)
    PROVE  SendInv(t)' /\ StageInv(t)'
<1>1. SendInv(t) /\ StageInv(t)
  BY DEF Base
<1>2. SendInv(t)'
  BY <1>1 DEF SendInv, Still
<1>3. script' = script /\ recvBuff' = recvBuff /\ recvBufferParsedOffset' = recvBufferParsedOffset
  BY DEF SameReading
<1>4. current(t)' = current(t)
  BY ReadKept
<1>5. StageInv(t)'
  BY <1>1, <1>3, <1>4 DEF StageInv, Still, Busy
<1> QED BY <1>2, <1>5

\* One session moves.
LEMMA OneMoves ==
    ASSUME Base, SameReading, TypeInv', LeaseInv', NEW s \in Sessions,
           \A t \in Sessions \ {s} : Still(t), SendInv(s)', StageInv(s)'
    PROVE  Base'
<1>1. ASSUME NEW t \in Sessions PROVE ReadInv(t)' /\ SendInv(t)' /\ StageInv(t)'
  BY <1>1, ReadKept, StillKept
<1> QED BY <1>1 DEF Base

\* The reply the proxy makes is appended to sendBuff.
LEMMA ReplyFacts ==
    ASSUME Base, NEW s \in Sessions, pc[s] \in Busy, Reply(s)
    PROVE  LET r == Piece(s, current(s), 1, TRUE, "proxy") IN
           /\ sendBuff' \in [Sessions -> Seq(Pieces)]
           /\ \A t \in Sessions \ {s} : sendBuff'[t] = sendBuff[t]
           /\ r \in Pieces /\ sendBuff'[s] = Append(sendBuff[s], r)
           /\ Len(sendBuff'[s]) = Len(sendBuff[s]) + 1
<1> DEFINE r == Piece(s, current(s), 1, TRUE, "proxy")
           more == sendBuff[s] \o <<r>>
<1>1. current(s) \in Nat
  BY CurrentFacts
<1>2. r \in Pieces
  BY <1>1 DEF Piece, Pieces
<1>3. sendBuff[s] \in Seq(Pieces) /\ sendBuff \in [Sessions -> Seq(Pieces)]
  BY SessionTypes DEF Base, TypeInv
<1>4. sendBuff' = [sendBuff EXCEPT ![s] = more]
  BY DEF Reply, LocalReply
<1> HIDE DEF r
<1>5. Append(sendBuff[s], r) = more
  BY <1>2, <1>3, AppendIsConcat
<1>6. more \in Seq(Pieces) /\ Len(more) = Len(sendBuff[s]) + 1
  <2>1. Append(sendBuff[s], r) \in Seq(Pieces) /\ Len(Append(sendBuff[s], r)) = Len(sendBuff[s]) + 1
    BY <1>2, <1>3, AppendProperties
  <2> QED BY <2>1, <1>5
<1> HIDE DEF more
<1> QED BY <1>2, <1>3, <1>4, <1>5, <1>6 DEF r

\* The closed session, and the two ways to ask for a connection.
LEMMA MovesBase ==
    ASSUME Base, NEW s \in Sessions,
           ReadFails(s) \/ WriteFails(s) \/ DispatchKey(s) \/ SelectConnection(s) \/ SelectNothing(s)
    PROVE  Base'
<1>1. /\ SameReading /\ UNCHANGED <<auth, bufferVars, toClient, wireVars>>
      /\ \E p \in Stages : pc' = [pc EXCEPT ![s] = p]
  BY DEF ReadFails, WriteFails, Close, DispatchKey, SelectConnection, SelectNothing, SameReading, Stages, bufferVars
<1>2. exposed' \in BOOLEAN
  <2>1. CASE UNCHANGED exposed
    BY <2>1 DEF Base, TypeInv
  <2>2. CASE Expose(s)
    BY <2>2, Zenon DEF Expose
  <2> QED BY <2>1, <2>2 DEF ReadFails, WriteFails, Close, DispatchKey, SelectConnection, SelectNothing
<1>3. TypeInv'
  BY <1>1, <1>2 DEF Base, TypeInv, SameReading, bufferVars, wireVars
<1>4. LeaseInv'
  BY LeaseSame, LeaseKept DEF Base, ReadFails, WriteFails, Close, DispatchKey, SelectConnection, SelectNothing, LeaseNext
<1>5. phase \in [Sessions -> Phases] /\ pc \in [Sessions -> Stages]
  BY DEF Base, LeaseInv, LeaseTypeOK, TypeInv
<1>6. \A t \in Sessions \ {s} : Still(t)
  BY <1>1, <1>5 DEF ReadFails, WriteFails, Close, DispatchKey, SelectConnection, SelectNothing, Still,
     bufferVars, leaseVars, Ask, Grant, Wait
<1>7. SendInv(s) /\ StageInv(s)
  BY DEF Base
<1>8. SendInv(s)'
  BY <1>1, <1>7 DEF SendInv, bufferVars
<1>9. StageInv(s)'
  <2>1. /\ script' = script /\ recvBuff' = recvBuff /\ recvBufferParsedOffset' = recvBufferParsedOffset
        /\ current(s)' = current(s) /\ sendBytes' = sendBytes
    BY <1>1, ReadKept DEF SameReading, bufferVars
  <2>2. CASE ReadFails(s) \/ WriteFails(s)
    <3>1. pc'[s] = "closed" /\ phase' = phase /\ pc[s] \in {"read", "finish", "write"}
      BY <2>2, <1>5 DEF ReadFails, WriteFails, Close, MayWrite, leaseVars
    <3> QED BY <3>1, <2>1, <1>7 DEF StageInv, Busy
  <2>3. CASE DispatchKey(s)
    <3>1. /\ pc'[s] = "select" /\ phase'[s] = "asking" /\ pc[s] = "dispatch"
          /\ script[s][current(s)] \in Forwarded
      BY <2>3, <1>5 DEF DispatchKey, Ask
    <3> QED BY <3>1, <2>1, <1>7 DEF StageInv, Busy
  <2>4. CASE SelectConnection(s)
    <3>1. pc'[s] = "send" /\ phase'[s] = "granted" /\ pc[s] = "select"
      BY <2>4, <1>5 DEF SelectConnection, Grant
    <3> QED BY <3>1, <2>1, <1>7 DEF StageInv, Busy
  <2>5. CASE SelectNothing(s)
    <3>1. pc'[s] = "line" /\ phase'[s] = "waiting" /\ pc[s] = "select"
      BY <2>5, <1>5 DEF SelectNothing, Wait
    <3> QED BY <3>1, <2>1, <1>7 DEF StageInv, Busy
  <2> QED BY <2>2, <2>3, <2>4, <2>5
<1> QED BY <1>1, <1>3, <1>4, <1>6, <1>8, <1>9, OneMoves

\* The session that TurnedAway answers.
LEMMA TurnedAwayStage ==
    ASSUME Base, NEW s \in Sessions, TurnedAway(s)
    PROVE  pc[s] = "line" /\ phase[s] = "waiting" /\ phase' = [phase EXCEPT ![s] = "answered"]
<1>1. line # <<>> /\ s = Head(line) /\ TurnAway /\ LeaseInv
  BY DEF TurnedAway, Base
<1>2. phase[s] = "waiting"
  BY <1>1, HeadWaits
<1> QED BY <1>1, <1>2 DEF TurnAway, Base, StageInv

\* A reply the proxy makes at once.
LEMMA LocalReplyBase ==
    ASSUME Base, NEW s \in Sessions, DispatchLocal(s) \/ Refused(s) \/ TurnedAway(s)
    PROVE  Base'
<1>1. /\ SameReading /\ Reply(s) /\ Finished(s)
      /\ UNCHANGED <<sendBufferParsedOffset, sendBytes, sendToRedisBytes, toClient, wireVars, exposed>>
  BY DEF DispatchLocal, Refused, TurnedAway, SameReading
<1>2. phase \in [Sessions -> Phases] /\ pc \in [Sessions -> Stages]
  BY DEF Base, LeaseInv, LeaseTypeOK, TypeInv
<1>3. /\ pc[s] \in Busy /\ phase'[s] \notin {"waiting", "granted"}
      /\ \A t \in Sessions \ {s} : phase'[t] = phase[t]
  <2>1. CASE DispatchLocal(s)
    BY <2>1 DEF DispatchLocal, Busy, leaseVars, Base, StageInv
  <2>2. CASE Refused(s)
    BY <2>2, <1>2 DEF Refused, Refuse, Busy
  <2>3. CASE TurnedAway(s)
    BY <2>3, <1>2, TurnedAwayStage DEF Busy
  <2> QED BY <2>1, <2>2, <2>3
<1>4. /\ sendBuff' \in [Sessions -> Seq(Pieces)]
      /\ \A t \in Sessions \ {s} : sendBuff'[t] = sendBuff[t]
      /\ Len(sendBuff'[s]) = Len(sendBuff[s]) + 1
  BY <1>1, <1>3, ReplyFacts
<1>5. auth' \in [Sessions -> BOOLEAN]
  BY DEF DispatchLocal, Refused, TurnedAway, Base, TypeInv
<1>6. pc' = [pc EXCEPT ![s] = "finish"]
  BY <1>1 DEF Finished
<1>7. TypeInv'
  BY <1>1, <1>4, <1>5, <1>6 DEF Base, TypeInv, SameReading, wireVars, Stages
<1>8. LeaseInv'
  BY LeaseSame, LeaseKept DEF Base, DispatchLocal, Refused, TurnedAway, LeaseNext
<1>9. \A t \in Sessions \ {s} : Still(t)
  BY <1>1, <1>2, <1>3, <1>4, <1>6 DEF Still
<1>10. SendInv(s) /\ StageInv(s) /\ Len(sendBuff[s]) \in Nat
       /\ sendBufferParsedOffset[s] \in Nat /\ sendBytes[s] \in Nat
  BY SessionTypes DEF Base
<1>11. SendInv(s)'
  BY <1>1, <1>4, <1>10 DEF SendInv
<1>12. StageInv(s)'
  <2>1. /\ script' = script /\ recvBuff' = recvBuff /\ recvBufferParsedOffset' = recvBufferParsedOffset
        /\ current(s)' = current(s) /\ sendBytes' = sendBytes
    BY <1>1, ReadKept DEF SameReading
  <2>2. pc'[s] = "finish"
    BY <1>2, <1>6
  <2> QED BY <2>1, <2>2, <1>3, <1>10 DEF StageInv, Busy
<1> QED BY <1>1, <1>7, <1>8, <1>9, <1>11, <1>12, OneMoves

\* What is left of the request goes out, in part or whole.
LEMMA SendFacts ==
    ASSUME Base, NEW s \in Sessions, SendRequest(s)
    PROVE  /\ pc[s] = "send" /\ lease[s] \in Connections
           /\ \E n \in (sendToRedisBytes[s] + 1)..2 :
                LET some == SubSeq(Request(s), sendToRedisBytes[s] + 1, n) IN
                /\ n \in {1, 2} /\ some \in Seq(Pieces)
                /\ toServer' = [toServer EXCEPT ![lease[s]] =
                      IF broken[lease[s]] THEN @ ELSE @ \o some]
                /\ sendToRedisBytes' = [sendToRedisBytes EXCEPT ![s] = IF n = 2 THEN 0 ELSE 1]
                /\ pc' = [pc EXCEPT ![s] = IF n = 2 THEN "recv" ELSE "send"]
<1>1. pc[s] = "send" /\ phase[s] = "granted" /\ lease[s] \in Connections
  BY DEF SendRequest, Base, StageInv, LeaseInv
<1>2. Request(s) \in Seq(Pieces) /\ Len(Request(s)) = 2
  BY <1>1, RequestFacts DEF Busy
<1>3. sendToRedisBytes[s] \in 0..1
  BY SessionTypes
<1>4. PICK k \in 1..(Len(Request(s)) - sendToRedisBytes[s]) :
        LET n == sendToRedisBytes[s] + k
            all == n = Len(Request(s))
        IN /\ Carry(lease[s], SubSeq(Request(s), sendToRedisBytes[s] + 1, n))
           /\ sendToRedisBytes' = [sendToRedisBytes EXCEPT ![s] = IF all THEN 0 ELSE n]
           /\ pc' = [pc EXCEPT ![s] = IF all THEN "recv" ELSE "send"]
  BY DEF SendRequest
<1> DEFINE n == sendToRedisBytes[s] + k
           some == SubSeq(Request(s), sendToRedisBytes[s] + 1, n)
<1>5. n \in (sendToRedisBytes[s] + 1)..2 /\ n \in {1, 2} /\ (n = Len(Request(s)) <=> n = 2) /\ (n # 2 => n = 1)
  BY <1>2, <1>3, <1>4
<1>6. some \in Seq(Pieces)
  <2>1. n \in 0..Len(Request(s)) /\ sendToRedisBytes[s] \in Nat
    BY <1>2, <1>3, <1>5
  <2> HIDE DEF n
  <2> QED BY <2>1, <1>2, Cut
<1>7. /\ toServer' = [toServer EXCEPT ![lease[s]] = IF broken[lease[s]] THEN @ ELSE @ \o some]
      /\ sendToRedisBytes' = [sendToRedisBytes EXCEPT ![s] = IF n = 2 THEN 0 ELSE 1]
      /\ pc' = [pc EXCEPT ![s] = IF n = 2 THEN "recv" ELSE "send"]
  <2> HIDE DEF some
  <2>1. Carry(lease[s], some)
    BY <1>4 DEF some
  <2>2. sendToRedisBytes' = [sendToRedisBytes EXCEPT ![s] = IF n = 2 THEN 0 ELSE n]
    BY <1>4, <1>5
  <2>3. pc' = [pc EXCEPT ![s] = IF n = 2 THEN "recv" ELSE "send"]
    BY <1>4, <1>5
  <2> HIDE DEF n
  <2>4. (IF n = 2 THEN 0 ELSE n) = IF n = 2 THEN 0 ELSE 1
    BY <1>5
  <2> QED BY <2>1, <2>2, <2>3, <2>4 DEF Carry
<1> HIDE DEF n
<1> QED BY <1>1, <1>5, <1>6, <1>7

\* SendRequest keeps Base.
LEMMA SendBase == ASSUME Base, NEW s \in Sessions, SendRequest(s) PROVE Base'
<1>1. PICK n \in (sendToRedisBytes[s] + 1)..2 :
        LET some == SubSeq(Request(s), sendToRedisBytes[s] + 1, n) IN
        /\ n \in {1, 2} /\ some \in Seq(Pieces)
        /\ toServer' = [toServer EXCEPT ![lease[s]] = IF broken[lease[s]] THEN @ ELSE @ \o some]
        /\ sendToRedisBytes' = [sendToRedisBytes EXCEPT ![s] = IF n = 2 THEN 0 ELSE 1]
        /\ pc' = [pc EXCEPT ![s] = IF n = 2 THEN "recv" ELSE "send"]
  BY SendFacts
<1>2. /\ SameReading
      /\ UNCHANGED <<leaseVars, auth, sendBuff, sendBufferParsedOffset, sendBytes, toClient,
                     fromServer, broken, failures, exposed>>
  BY DEF SendRequest, SameReading
<1>3. /\ phase \in [Sessions -> Phases] /\ pc \in [Sessions -> Stages]
      /\ pc[s] = "send" /\ lease[s] \in Connections
  BY SendFacts DEF Base, LeaseInv, LeaseTypeOK, TypeInv
<1> DEFINE some == SubSeq(Request(s), sendToRedisBytes[s] + 1, n)
<1>4. toServer' \in [Connections -> Seq(Pieces)]
  <2>1. some \in Seq(Pieces) /\ toServer \in [Connections -> Seq(Pieces)]
    BY <1>1 DEF Base, TypeInv
  <2>2. toServer' = [toServer EXCEPT ![lease[s]] = IF broken[lease[s]] THEN @ ELSE @ \o some]
    BY <1>1
  <2> HIDE DEF some
  <2>3. toServer[lease[s]] \o some \in Seq(Pieces)
    BY <2>1, <1>3, Join
  <2> QED BY <2>1, <2>2, <2>3, <1>3
<1>5. /\ sendToRedisBytes' \in [Sessions -> 0..1]
      /\ pc' \in [Sessions -> Stages]
      /\ pc'[s] \in {"send", "recv"}
      /\ \A t \in Sessions \ {s} : pc'[t] = pc[t]
  <2>1. /\ sendToRedisBytes' = [sendToRedisBytes EXCEPT ![s] = IF n = 2 THEN 0 ELSE 1]
        /\ pc' = [pc EXCEPT ![s] = IF n = 2 THEN "recv" ELSE "send"]
    BY <1>1
  <2>2. sendToRedisBytes \in [Sessions -> 0..1]
    BY DEF Base, TypeInv
  <2>3. sendToRedisBytes' \in [Sessions -> 0..1]
    BY <2>1, <2>2
  <2> QED BY <2>1, <2>3, <1>3 DEF Stages
<1>6. TypeInv'
  BY <1>2, <1>4, <1>5 DEF Base, TypeInv, SameReading
<1>7. LeaseInv'
  BY <1>2, LeaseSame DEF Base
<1>8. \A t \in Sessions \ {s} : Still(t)
  BY <1>2, <1>5 DEF Still, leaseVars
<1>9. SendInv(s) /\ StageInv(s)
  BY DEF Base
<1>10. SendInv(s)'
  BY <1>2, <1>9 DEF SendInv
<1>11. StageInv(s)'
  <2>1. /\ script' = script /\ recvBuff' = recvBuff /\ recvBufferParsedOffset' = recvBufferParsedOffset
        /\ current(s)' = current(s) /\ sendBytes' = sendBytes /\ phase' = phase
    BY <1>2, ReadKept DEF SameReading, leaseVars
  <2> QED BY <2>1, <1>3, <1>5, <1>9 DEF StageInv, Busy
<1> QED BY <1>2, <1>6, <1>7, <1>8, <1>10, <1>11, OneMoves

\* Whoever takes over the connection of s was waiting in the line.
LEMMA ReleaseBase ==
    ASSUME Base, SameReading, NEW s \in Sessions, Release(s),
           UNCHANGED <<auth, sendBytes, sendToRedisBytes, toClient>>,
           sendBuff' \in [Sessions -> Seq(Pieces)],
           sendBufferParsedOffset' \in [Sessions -> Nat],
           \A t \in Sessions \ {s} :
                sendBuff'[t] = sendBuff[t] /\ sendBufferParsedOffset'[t] = sendBufferParsedOffset[t],
           Len(sendBuff'[s]) >= Len(sendBuff[s]),
           sendBufferParsedOffset'[s] <= Len(sendBuff'[s]),
           toServer' \in [Connections -> Seq(Pieces)],
           fromServer' \in [Connections -> Seq(Pieces)],
           broken' \in [Connections -> BOOLEAN], failures' \in 0..MaxFailures,
           exposed' \in BOOLEAN
    PROVE  Base'
<1>1. /\ pc' \in [Sessions -> Stages] /\ LeaseInv'
      /\ phase[s] = "granted" /\ phase'[s] = "answered" /\ pc'[s] = "finish"
      /\ \A t \in Sessions \ {s} :
            \/ pc'[t] = pc[t] /\ phase'[t] = phase[t]
            \/ pc[t] = "line" /\ pc'[t] = "send" /\ phase'[t] = "granted"
  BY ReleaseFacts
<1>2. TypeInv'
  BY <1>1 DEF Base, TypeInv, SameReading
<1>3. /\ script' = script /\ recvBuff' = recvBuff /\ recvBufferParsedOffset' = recvBufferParsedOffset
      /\ sendBytes' = sendBytes
  BY DEF SameReading
<1>4. ASSUME NEW t \in Sessions PROVE ReadInv(t)' /\ SendInv(t)' /\ StageInv(t)'
  <2>1. ReadInv(t)' /\ current(t)' = current(t)
    BY ReadKept
  <2>2. SendInv(t) /\ StageInv(t)
    BY DEF Base
  <2>3. CASE t = s
    <3>1. SendInv(s)'
      <4>1. sendBytes[s] \in Nat /\ Len(sendBuff[s]) \in Nat /\ sendBuff'[s] \in Seq(Pieces)
        BY SessionTypes
      <4>2. Len(sendBuff'[s]) \in Nat
        BY <4>1
      <4> QED BY <4>1, <4>2, <1>3, <2>2, <2>3 DEF SendInv
    <3>2. pc[s] \in {"send", "recv"}
      BY <1>1, <2>2, <2>3 DEF StageInv
    <3>3. StageInv(s)'
      BY <1>1, <1>3, <2>1, <2>2, <2>3, <3>2 DEF StageInv, Busy
    <3> QED BY <2>1, <2>3, <3>1, <3>3
  <2>4. CASE t # s /\ pc'[t] = pc[t] /\ phase'[t] = phase[t]
    <3>1. Still(t)
      BY <2>4, <1>3 DEF Still
    <3> QED BY <2>1, <3>1, StillKept
  <2>5. CASE t # s /\ pc[t] = "line" /\ pc'[t] = "send" /\ phase'[t] = "granted"
    <3>1. SendInv(t)'
      BY <2>2, <2>5, <1>3 DEF SendInv
    <3>2. StageInv(t)'
      BY <1>3, <2>1, <2>2, <2>5 DEF StageInv, Busy
    <3> QED BY <2>1, <3>1, <3>2
  <2> QED BY <2>3, <2>4, <2>5, <1>1
<1> QED BY <1>1, <1>2, <1>4 DEF Base

\* To be done with a connection is to give it back or to pass it on.
LEMMA UseCompletedReleases ==
    ASSUME Base, NEW s \in Sessions, UseCompleted(s)
    PROVE  Release(s) /\ exposed' \in BOOLEAN
<1>1. Release(s)
  BY DEF UseCompleted, Release
<1>2. exposed' = exposed \/ \E t : Expose(t)
  BY DEF UseCompleted
<1>3. exposed' \in BOOLEAN
  <2>1. CASE exposed' = exposed
    BY <2>1 DEF Base, TypeInv
  <2>2. CASE \E t : Expose(t)
    BY <2>2, Zenon DEF Expose
  <2> QED BY <1>2, <2>1, <2>2
<1> QED BY <1>1, <1>3

\* A connection fails while a request is sent or a reply received.
LEMMA RepairFacts ==
    ASSUME Base, NEW s \in Sessions, Repair(s), phase[s] = "granted"
    PROVE  /\ Release(s) /\ lease[s] \in Connections
           /\ toServer' = [toServer EXCEPT ![lease[s]] = <<>>]
           /\ fromServer' = [fromServer EXCEPT ![lease[s]] = <<>>]
           /\ broken' = [broken EXCEPT ![lease[s]] = FALSE]
           /\ toServer' \in [Connections -> Seq(Pieces)]
           /\ fromServer' \in [Connections -> Seq(Pieces)]
           /\ broken' \in [Connections -> BOOLEAN] /\ failures' \in 0..MaxFailures
           /\ exposed' \in BOOLEAN
<1>1. lease[s] \in Connections
  BY DEF Base, LeaseInv
<1>2. /\ toServer' = [toServer EXCEPT ![lease[s]] = <<>>]
      /\ fromServer' = [fromServer EXCEPT ![lease[s]] = <<>>]
      /\ broken' = [broken EXCEPT ![lease[s]] = FALSE]
      /\ failures' = failures
      /\ UseCompleted(s) \/ (GiveBack(s) /\ Finished(s) /\ UNCHANGED exposed)
  BY DEF Repair
<1>3. <<>> \in Seq(Pieces)
  OBVIOUS
<1>4. /\ toServer' \in [Connections -> Seq(Pieces)]
      /\ fromServer' \in [Connections -> Seq(Pieces)]
      /\ broken' \in [Connections -> BOOLEAN] /\ failures' \in 0..MaxFailures
  BY <1>1, <1>2, <1>3 DEF Base, TypeInv
<1>5. CASE UseCompleted(s)
  BY <1>1, <1>2, <1>4, <1>5, UseCompletedReleases
<1>6. CASE GiveBack(s) /\ Finished(s) /\ UNCHANGED exposed
  <2>1. Release(s)
    BY <1>6 DEF Release
  <2>2. exposed' \in BOOLEAN
    BY <1>6 DEF Base, TypeInv
  <2> QED BY <1>1, <1>2, <1>4, <2>1, <2>2
<1> QED BY <1>2, <1>5, <1>6

\* SendFails and RecvFails keep Base.
LEMMA FailsBase ==
    ASSUME Base, NEW s \in Sessions, SendFails(s) \/ RecvFails(s)
    PROVE  Base'
<1>1. /\ pc[s] \in {"send", "recv"} /\ Repair(s) /\ Reply(s) /\ SameReading
      /\ UNCHANGED <<auth, sendBufferParsedOffset, sendBytes, sendToRedisBytes, toClient>>
  BY DEF SendFails, RecvFails, SameReading
<1>2. phase[s] = "granted"
  BY <1>1 DEF Base, StageInv
<1>3. /\ Release(s) /\ toServer' \in [Connections -> Seq(Pieces)]
      /\ fromServer' \in [Connections -> Seq(Pieces)]
      /\ broken' \in [Connections -> BOOLEAN] /\ failures' \in 0..MaxFailures
      /\ exposed' \in BOOLEAN
  BY <1>1, <1>2, RepairFacts
<1>4. /\ sendBuff' \in [Sessions -> Seq(Pieces)]
      /\ \A t \in Sessions \ {s} : sendBuff'[t] = sendBuff[t]
      /\ Len(sendBuff'[s]) = Len(sendBuff[s]) + 1
  BY <1>1, ReplyFacts DEF Busy
<1>5. /\ sendBufferParsedOffset' \in [Sessions -> Nat] /\ sendBufferParsedOffset[s] \in Nat
      /\ sendBufferParsedOffset[s] <= Len(sendBuff[s]) /\ Len(sendBuff[s]) \in Nat
  BY <1>1, SessionTypes DEF Base, TypeInv, SendInv
<1>6. Len(sendBuff'[s]) >= Len(sendBuff[s]) /\ sendBufferParsedOffset'[s] <= Len(sendBuff'[s])
  BY <1>1, <1>4, <1>5
<1> QED BY <1>1, <1>3, <1>4, <1>5, <1>6, ReleaseBase

\* Some of what the server sent is read behind what sendBuff holds.
LEMMA RecvFacts ==
    ASSUME Base, NEW s \in Sessions, pc[s] = "recv",
           NEW k \in 1..Len(fromServer[lease[s]])
    PROVE  LET c == lease[s]
               more == SubSeq(fromServer[c], 1, k)
               buff == sendBuff[s] \o more
           IN /\ c \in Connections /\ phase[s] = "granted"
              /\ fromServer[c] \in Seq(Pieces) /\ Len(fromServer[c]) \in Nat
              /\ more \in Seq(Pieces) /\ Len(more) = k
              /\ \A i \in 1..k : more[i] = fromServer[c][i]
              /\ buff \in Seq(Pieces) /\ Len(buff) = Len(sendBuff[s]) + k
              /\ SubSeq(fromServer[c], k + 1, Len(fromServer[c])) \in Seq(Pieces)
<1> DEFINE c == lease[s]
           more == SubSeq(fromServer[c], 1, k)
<1>1. c \in Connections /\ phase[s] = "granted"
  BY DEF Base, StageInv, LeaseInv
<1>2. fromServer[c] \in Seq(Pieces) /\ Len(fromServer[c]) \in Nat
  BY <1>1 DEF Base, TypeInv
<1> HIDE DEF c
<1>3. k \in 1..Len(fromServer[c])
  BY DEF c
<1>4. more \in Seq(Pieces) /\ Len(more) = k /\ \A i \in 1..k : more[i] = fromServer[c][i]
  <2>1. k \in 0..Len(fromServer[c]) /\ 0 \in Nat /\ 0 + 1 = 1 /\ 0 < k /\ k - 0 = k
    BY <1>2, <1>3
  <2>2. /\ SubSeq(fromServer[c], 0 + 1, k) \in Seq(Pieces)
        /\ Len(SubSeq(fromServer[c], 0 + 1, k)) = IF 0 < k THEN k - 0 ELSE 0
        /\ \A i \in 1..(k - 0) : SubSeq(fromServer[c], 0 + 1, k)[i] = fromServer[c][0 + i]
    BY <2>1, <1>2, Cut
  <2>3. \A i \in 1..k : 0 + i = i
    OBVIOUS
  <2> QED BY <2>1, <2>2, <2>3
<1> HIDE DEF more
<1>5. sendBuff[s] \o more \in Seq(Pieces) /\ Len(sendBuff[s] \o more) = Len(sendBuff[s]) + k
  BY <1>4, SessionTypes, Join
<1>6. SubSeq(fromServer[c], k + 1, Len(fromServer[c])) \in Seq(Pieces)
  <2>1. Len(fromServer[c]) \in 0..Len(fromServer[c]) /\ k \in Nat
    BY <1>2, <1>3
  <2> QED BY <2>1, <1>2, Cut
<1> QED BY <1>1, <1>2, <1>4, <1>5, <1>6 DEF c, more

\* The parser never goes past what it was given.
LEMMA ParseReplyFacts ==
    ASSUME NEW rest \in Seq(Pieces), Len(rest) > 0, NEW r \in ParseReply(rest)
    PROVE  /\ r.len \in 0..Len(rest)
           /\ r.state \in {"ok", "error", "incomplete"}
<1> DEFINE p == Head(rest)
           bad == script[p.src][p.n] = "nil"
<1>1. Len(rest) \in Nat
  OBVIOUS
<1>2. Anything(rest) \subseteq [state : {"ok", "error", "incomplete"}, len : 0..Len(rest)]
  BY <1>1 DEF Anything
<1>3. CASE p.part = 1 /\ p.last
  <2>1. r = [state |-> "ok", len |-> 1]
    BY <1>3 DEF ParseReply
  <2> QED BY <2>1, <1>1
<1>4. CASE ~(p.part = 1 /\ p.last) /\ p.part = 1 /\ ~p.last /\ Len(rest) = 1
  <2>1. r \in {[state |-> "incomplete", len |-> 0], [state |-> "error", len |-> 0]}
    BY <1>4 DEF ParseReply
  <2> QED BY <2>1, <1>1
<1>5. CASE /\ ~(p.part = 1 /\ p.last) /\ p.part = 1 /\ ~p.last /\ Len(rest) > 1
           /\ rest[2] = Piece(p.src, p.n, 2, TRUE, p.by)
  <2>1. r = IF bad THEN [state |-> "error", len |-> 0] ELSE [state |-> "ok", len |-> 2]
    BY <1>5 DEF ParseReply
  <2> QED BY <2>1, <1>1, <1>5
<1>6. CASE /\ ~(p.part = 1 /\ p.last)
           /\ ~(p.part = 1 /\ ~p.last /\ Len(rest) = 1)
           /\ ~(p.part = 1 /\ ~p.last /\ Len(rest) > 1
                 /\ rest[2] = Piece(p.src, p.n, 2, TRUE, p.by))
  <2>1. r \in Anything(rest)
    BY <1>6 DEF ParseReply
  <2> QED BY <2>1, <1>2
<1> QED BY <1>3, <1>4, <1>5, <1>6

\* What is read but not parsed, with what is received behind it.
LEMMA UnparsedFacts ==
    ASSUME NEW buff \in Seq(Pieces), NEW off \in Nat, off < Len(buff)
    PROVE  /\ Unparsed(buff, off) \in Seq(Pieces)
           /\ Len(Unparsed(buff, off)) = Len(buff) - off /\ Len(Unparsed(buff, off)) > 0
           /\ \A i \in 1..(Len(buff) - off) : Unparsed(buff, off)[i] = buff[off + i]
<1>1. Len(buff) \in 0..Len(buff) /\ Len(buff) \in Nat
  OBVIOUS
<1>2. /\ Unparsed(buff, off) \in Seq(Pieces)
      /\ Len(Unparsed(buff, off)) = IF off < Len(buff) THEN Len(buff) - off ELSE 0
      /\ \A i \in 1..(Len(buff) - off) : Unparsed(buff, off)[i] = buff[off + i]
  BY <1>1, Cut DEF Unparsed
<1> QED BY <1>1, <1>2

\* RecvReply keeps Base.
LEMMA RecvBase == ASSUME Base, NEW s \in Sessions, RecvReply(s) PROVE Base'
<1> DEFINE c == lease[s]
           off == sendBufferParsedOffset[s]
           got(k) == SubSeq(fromServer[c], 1, k)
           left(k) == SubSeq(fromServer[c], k + 1, Len(fromServer[c]))
<1>1. /\ pc[s] = "recv" /\ SameReading
      /\ UNCHANGED <<auth, sendBytes, sendToRedisBytes, toClient, toServer, broken, failures>>
  BY DEF RecvReply, SameReading
<1>2. PICK k \in 1..Len(fromServer[c]) :
        LET buff == sendBuff[s] \o got(k) IN
        /\ fromServer' = [fromServer EXCEPT ![c] = SubSeq(@, k + 1, Len(@))]
        /\ \E r \in ParseReply(Unparsed(buff, off)) :
            \/ /\ r.state = "ok"
               /\ sendBuff' = [sendBuff EXCEPT ![s] = buff]
               /\ sendBufferParsedOffset' = [sendBufferParsedOffset EXCEPT ![s] = @ + r.len]
               /\ UseCompleted(s)
            \/ /\ r.state = "incomplete"
               /\ sendBuff' = [sendBuff EXCEPT ![s] = buff]
               /\ UNCHANGED <<leaseVars, pc, sendBufferParsedOffset, exposed>>
  BY DEF RecvReply
<1> DEFINE buff == sendBuff[s] \o got(k)
<1>3. /\ c \in Connections /\ phase[s] = "granted"
      /\ buff \in Seq(Pieces) /\ Len(buff) = Len(sendBuff[s]) + k /\ left(k) \in Seq(Pieces)
  BY <1>1, RecvFacts
<1>4. /\ off \in Nat /\ Len(sendBuff[s]) \in Nat /\ off <= Len(sendBuff[s])
      /\ sendBytes[s] <= Len(sendBuff[s]) /\ sendBytes[s] \in Nat /\ k \in Nat /\ k >= 1
  BY SessionTypes DEF Base, SendInv
<1>5. /\ sendBuff \in [Sessions -> Seq(Pieces)] /\ sendBufferParsedOffset \in [Sessions -> Nat]
      /\ toServer \in [Connections -> Seq(Pieces)] /\ fromServer \in [Connections -> Seq(Pieces)]
      /\ broken \in [Connections -> BOOLEAN] /\ failures \in 0..MaxFailures /\ exposed \in BOOLEAN
  BY DEF Base, TypeInv
<1>6. fromServer' \in [Connections -> Seq(Pieces)]
  <2>1. fromServer' = [fromServer EXCEPT ![c] = left(k)]
    BY <1>2, <1>3, <1>5
  <2> HIDE DEF left, c
  <2> QED BY <2>1, <1>3, <1>5
<1>7. /\ sendBuff' = [sendBuff EXCEPT ![s] = buff]
      /\ \E r \in ParseReply(Unparsed(buff, off)) :
            \/ /\ r.state = "ok"
               /\ sendBufferParsedOffset' = [sendBufferParsedOffset EXCEPT ![s] = @ + r.len]
               /\ UseCompleted(s)
            \/ UNCHANGED <<leaseVars, pc, sendBufferParsedOffset, exposed>>
  <2> HIDE DEF buff, off
  <2> QED BY <1>2 DEF buff, off
<1> HIDE DEF buff, got, left
<1>8. sendBuff' \in [Sessions -> Seq(Pieces)] /\ sendBuff'[s] = buff
      /\ \A t \in Sessions \ {s} : sendBuff'[t] = sendBuff[t]
  BY <1>3, <1>5, <1>7
<1>9. PICK r \in ParseReply(Unparsed(buff, off)) :
            \/ /\ r.state = "ok"
               /\ sendBufferParsedOffset' = [sendBufferParsedOffset EXCEPT ![s] = @ + r.len]
               /\ UseCompleted(s)
            \/ UNCHANGED <<leaseVars, pc, sendBufferParsedOffset, exposed>>
  BY <1>7
<1>10. CASE /\ sendBufferParsedOffset' = [sendBufferParsedOffset EXCEPT ![s] = @ + r.len]
            /\ UseCompleted(s)
  <2>1. Release(s) /\ exposed' \in BOOLEAN
    BY <1>10, UseCompletedReleases
  <2>2. off < Len(buff) /\ Len(buff) \in Nat
    BY <1>3, <1>4
  <2>3. r.len \in 0..(Len(buff) - off)
    <3>1. Unparsed(buff, off) \in Seq(Pieces) /\ Len(Unparsed(buff, off)) = Len(buff) - off
          /\ Len(Unparsed(buff, off)) > 0
      BY <2>2, <1>3, <1>4, UnparsedFacts
    <3> QED BY <3>1, ParseReplyFacts
  <2>4. /\ sendBufferParsedOffset' \in [Sessions -> Nat]
        /\ sendBufferParsedOffset'[s] = off + r.len
        /\ \A t \in Sessions \ {s} : sendBufferParsedOffset'[t] = sendBufferParsedOffset[t]
    BY <1>10, <1>4, <1>5, <2>2, <2>3
  <2>5. Len(sendBuff'[s]) >= Len(sendBuff[s]) /\ sendBufferParsedOffset'[s] <= Len(sendBuff'[s])
    BY <1>3, <1>4, <1>8, <2>2, <2>3, <2>4
  <2>6. toServer' = toServer /\ broken' = broken /\ failures' = failures
    BY <1>1
  <2> QED BY <1>1, <1>5, <1>6, <1>8, <2>1, <2>4, <2>5, <2>6, ReleaseBase
<1>11. CASE UNCHANGED <<leaseVars, pc, sendBufferParsedOffset, exposed>>
  <2>1. TypeInv'
    BY <1>1, <1>6, <1>8, <1>11 DEF Base, TypeInv, SameReading
  <2>2. LeaseInv'
    BY <1>11, LeaseSame DEF Base
  <2>3. \A t \in Sessions \ {s} : Still(t)
    BY <1>1, <1>8, <1>11 DEF Still, leaseVars
  <2>4. SendInv(s)'
    BY <1>1, <1>3, <1>4, <1>8, <1>11 DEF SendInv
  <2>5. StageInv(s)'
    <3>1. /\ script' = script /\ recvBuff' = recvBuff /\ recvBufferParsedOffset' = recvBufferParsedOffset
          /\ current(s)' = current(s) /\ sendBytes' = sendBytes /\ phase' = phase /\ pc' = pc
      BY <1>1, <1>11, ReadKept DEF SameReading, leaseVars
    <3> QED BY <3>1 DEF Base, StageInv, Busy
  <2> QED BY <1>1, <2>1, <2>2, <2>3, <2>4, <2>5, OneMoves
<1> QED BY <1>9, <1>10, <1>11

\* RefusedReply keeps Base.
LEMMA RefusedBase == ASSUME Base, NEW s \in Sessions, RefusedReply(s) PROVE Base'
<1> DEFINE c == lease[s]
           got(k) == SubSeq(fromServer[c], 1, k)
           left(k) == SubSeq(fromServer[c], k + 1, Len(fromServer[c]))
           reply == LocalReply(s, current(s))
<1>1. /\ pc[s] = "recv" /\ SameReading /\ Release(s) /\ exposed' = TRUE
      /\ UNCHANGED <<auth, sendBytes, sendBufferParsedOffset, sendToRedisBytes, toClient,
                     toServer, broken, failures>>
  BY DEF RefusedReply, SameReading, Release
<1>2. PICK k \in 1..Len(fromServer[c]) :
        /\ fromServer' = [fromServer EXCEPT ![c] = SubSeq(@, k + 1, Len(@))]
        /\ sendBuff' = [sendBuff EXCEPT ![s] = (sendBuff[s] \o got(k)) \o reply]
  BY DEF RefusedReply
<1> DEFINE buff == sendBuff[s] \o got(k)
<1>3. /\ c \in Connections /\ phase[s] = "granted"
      /\ buff \in Seq(Pieces) /\ Len(buff) = Len(sendBuff[s]) + k /\ left(k) \in Seq(Pieces)
  BY <1>1, RecvFacts
<1>4. reply \in Seq(Pieces) /\ Len(reply) = 1
  <2>1. current(s) \in Nat
    BY <1>1, CurrentFacts DEF Busy
  <2> QED BY <2>1 DEF LocalReply, Piece, Pieces
<1>5. /\ sendBufferParsedOffset[s] \in Nat /\ Len(sendBuff[s]) \in Nat
      /\ sendBufferParsedOffset[s] <= Len(sendBuff[s]) /\ k \in Nat /\ k >= 1
  BY SessionTypes DEF Base, SendInv
<1>6. /\ sendBuff \in [Sessions -> Seq(Pieces)] /\ sendBufferParsedOffset \in [Sessions -> Nat]
      /\ toServer \in [Connections -> Seq(Pieces)] /\ fromServer \in [Connections -> Seq(Pieces)]
      /\ broken \in [Connections -> BOOLEAN] /\ failures \in 0..MaxFailures
  BY DEF Base, TypeInv
<1>7. fromServer' \in [Connections -> Seq(Pieces)]
  <2>1. fromServer' = [fromServer EXCEPT ![c] = left(k)]
    BY <1>2, <1>3, <1>6
  <2> HIDE DEF left, c
  <2> QED BY <2>1, <1>3, <1>6
<1>8. sendBuff' = [sendBuff EXCEPT ![s] = buff \o reply]
  BY <1>2
<1> HIDE DEF buff, got, left, reply
<1>9. buff \o reply \in Seq(Pieces) /\ Len(buff \o reply) = Len(sendBuff[s]) + k + 1
  <2>1. buff \o reply \in Seq(Pieces) /\ Len(buff \o reply) = Len(buff) + Len(reply)
    BY <1>3, <1>4, Join
  <2> QED BY <2>1, <1>3, <1>4, <1>5
<1>10. /\ sendBuff' \in [Sessions -> Seq(Pieces)]
       /\ Len(sendBuff'[s]) = Len(sendBuff[s]) + k + 1
       /\ \A t \in Sessions \ {s} : sendBuff'[t] = sendBuff[t]
  <2> DEFINE more == buff \o reply
  <2>1. sendBuff' = [sendBuff EXCEPT ![s] = more]
    BY <1>8
  <2>2. more \in Seq(Pieces) /\ Len(more) = Len(sendBuff[s]) + k + 1
    BY <1>9
  <2> HIDE DEF more
  <2> QED BY <2>1, <2>2, <1>6
<1>11. Len(sendBuff'[s]) >= Len(sendBuff[s]) /\ sendBufferParsedOffset'[s] <= Len(sendBuff'[s])
  BY <1>1, <1>5, <1>10
<1>12. /\ toServer' = toServer /\ broken' = broken /\ failures' = failures /\ exposed' \in BOOLEAN
       /\ sendBufferParsedOffset' = sendBufferParsedOffset
  BY <1>1
<1> QED BY <1>1, <1>6, <1>7, <1>10, <1>11, <1>12, ReleaseBase

-----------------------------------------------------------------------------
(* Reading and parsing.                                                    *)

\* What is read joins what was read before.
LEMMA ReadMore ==
    ASSUME Base, NEW s \in Sessions, NEW k \in 1..Len(toProxy(s))
    PROVE  LET buff == recvBuff[s] \o SubSeq(toProxy(s), 1, k) IN
           /\ Holds(buff, s) /\ Len(buff) = Len(recvBuff[s]) + k /\ k \in Nat
           /\ recvBufferParsedOffset[s] < Len(buff)
<1> DEFINE d == done[s]
           st == Stream(s)
           l == Len(recvBuff[s])
           q == toProxy(s)
           more == SubSeq(q, 1, k)
           buff == recvBuff[s] \o more
<1>1. /\ d \in Nat /\ l \in Nat /\ st \in Seq(Pieces) /\ Len(st) \in Nat
      /\ recvBuff[s] \in Seq(Pieces) /\ d + l <= Len(st)
      /\ \A i \in 1..l : recvBuff[s][i] = st[d + i]
      /\ recvBufferParsedOffset[s] \in Nat /\ recvBufferParsedOffset[s] <= l
  BY SessionTypes DEF Base, ReadInv
<1> HIDE DEF d, st, l
<1>2. /\ q \in Seq(Pieces) /\ Len(q) \in Nat /\ Len(q) = Len(st) - (d + l)
      /\ \A i \in 1..Len(q) : q[i] = st[d + l + i]
  <2>1. d + l \in Nat /\ Len(st) \in 0..Len(st)
    BY <1>1
  <2>2. q = SubSeq(st, d + l + 1, Len(st))
    BY DEF d, l, st, toProxy
  <2>3. /\ q \in Seq(Pieces) /\ Len(q) = IF d + l < Len(st) THEN Len(st) - (d + l) ELSE 0
        /\ \A i \in 1..(Len(st) - (d + l)) : q[i] = st[d + l + i]
    BY <2>1, <2>2, <1>1, Cut
  <2> HIDE DEF q
  <2> QED BY <2>3, <1>1
<1>3. k \in 1..Len(q)
  OBVIOUS
<1> HIDE DEF q
<1>4. /\ more \in Seq(Pieces) /\ Len(more) = k /\ \A i \in 1..k : more[i] = q[i]
  <2>1. k \in 0..Len(q) /\ 0 \in Nat /\ 0 + 1 = 1 /\ 0 < k /\ k - 0 = k
    BY <1>2, <1>3
  <2>2. /\ SubSeq(q, 0 + 1, k) \in Seq(Pieces)
        /\ Len(SubSeq(q, 0 + 1, k)) = IF 0 < k THEN k - 0 ELSE 0
        /\ \A i \in 1..(k - 0) : SubSeq(q, 0 + 1, k)[i] = q[0 + i]
    BY <2>1, <1>2, Cut
  <2>3. \A i \in 1..k : 0 + i = i
    OBVIOUS
  <2> QED BY <2>1, <2>2, <2>3
<1> HIDE DEF more
<1>5. /\ buff \in Seq(Pieces) /\ Len(buff) = l + k
      /\ \A i \in 1..l : buff[i] = recvBuff[s][i]
      /\ \A i \in 1..k : buff[l + i] = more[i]
  BY <1>1, <1>4, Join DEF l
<1> HIDE DEF buff
<1>6. \A i \in 1..Len(buff) : buff[i] = st[d + i]
  <2> SUFFICES ASSUME NEW i \in 1..(l + k) PROVE buff[i] = st[d + i]
    BY <1>5
  <2>1. CASE i \in 1..l
    BY <2>1, <1>1, <1>5
  <2>2. CASE i \notin 1..l
    <3>1. i - l \in 1..k /\ i - l \in 1..Len(q) /\ l + (i - l) = i /\ d + l + (i - l) = d + i
      BY <2>2, <1>1, <1>2, <1>3
    <3> QED BY <3>1, <1>2, <1>4, <1>5
  <2> QED BY <2>1, <2>2
<1>7. d + Len(buff) <= Len(st) /\ k \in Nat /\ recvBufferParsedOffset[s] < Len(buff)
  BY <1>1, <1>2, <1>3, <1>5
<1> QED BY <1>5, <1>6, <1>7 DEF Holds, d, st, l, q, more, buff

\* The buffer of a session goes on from recvBuff and is parsed.
LEMMA ParseBase ==
    ASSUME Base, NEW s \in Sessions, NEW buff, Holds(buff, s),
           recvBufferParsedOffset[s] < Len(buff), Parse(s, buff),
           recvBuff' = [recvBuff EXCEPT ![s] = buff],
           pc[s] \in {"read", "finish"}
    PROVE  Base'
<1> DEFINE off2 == recvBufferParsedOffset'[s]
           e == done[s] + off2
<1>1. /\ recvBufferParsedOffset' = [recvBufferParsedOffset EXCEPT ![s] = off2]
      /\ pc' = [pc EXCEPT ![s] = pc'[s]]
      /\ off2 \in Nat /\ off2 <= Len(buff)
      /\ \/ /\ pc'[s] = "dispatch" /\ off2 > recvBufferParsedOffset[s]
            /\ e \in 1..Len(Stream(s)) /\ Stream(s)[e].last
         \/ pc'[s] \in {"read", "closed"} /\ off2 = recvBufferParsedOffset[s]
  BY ParseFacts
<1>2. UNCHANGED <<leaseVars, script, done, auth, sendBuff, sendBufferParsedOffset, sendBytes,
                  sendToRedisBytes, toClient, wireVars, exposed>>
  BY DEF Parse
<1>3. /\ recvBuff \in [Sessions -> Seq(Pieces)] /\ recvBufferParsedOffset \in [Sessions -> Nat]
      /\ pc \in [Sessions -> Stages] /\ phase \in [Sessions -> Phases]
      /\ done[s] \in Nat /\ recvBufferParsedOffset[s] \in Nat /\ sendBytes[s] \in Nat
      /\ Len(Stream(s)) \in Nat
  BY SessionTypes DEF Base, TypeInv, LeaseInv, LeaseTypeOK
<1>4. buff \in Seq(Pieces) /\ done[s] + Len(buff) <= Len(Stream(s))
      /\ \A i \in 1..Len(buff) : buff[i] = Stream(s)[done[s] + i]
  BY DEF Holds
<1> HIDE DEF off2
<1>5. /\ recvBuff' \in [Sessions -> Seq(Pieces)] /\ recvBuff'[s] = buff
      /\ recvBufferParsedOffset' \in [Sessions -> Nat] /\ recvBufferParsedOffset'[s] = off2
      /\ pc' \in [Sessions -> Stages]
      /\ \A t \in Sessions \ {s} :
            /\ recvBuff'[t] = recvBuff[t] /\ pc'[t] = pc[t]
            /\ recvBufferParsedOffset'[t] = recvBufferParsedOffset[t]
  <2>1. pc'[s] \in Stages
    BY <1>1 DEF Stages
  <2> QED BY <2>1, <1>1, <1>3, <1>4
<1>6. TypeInv'
  BY <1>2, <1>5 DEF Base, TypeInv, wireVars
<1>7. LeaseInv'
  BY <1>2, LeaseSame DEF Base
<1>8. \A t \in Sessions : Stream(t)' = Stream(t) /\ done'[t] = done[t] /\ phase'[t] = phase[t]
        /\ sendBytes'[t] = sendBytes[t] /\ script' = script
  BY <1>2 DEF Stream, leaseVars
<1>9. ASSUME NEW t \in Sessions \ {s} PROVE ReadInv(t)' /\ SendInv(t)' /\ StageInv(t)'
  <2>1. ReadInv(t) /\ SendInv(t) /\ StageInv(t)
    BY DEF Base
  <2>2. parsedEnd(t)' = parsedEnd(t) /\ current(t)' = current(t)
    BY <1>5, <1>8 DEF parsedEnd, current
  <2>3. ReadInv(t)'
    BY <1>5, <1>8, <2>1, <2>2 DEF ReadInv
  <2>4. SendInv(t)'
    BY <1>2, <2>1 DEF SendInv
  <2>5. StageInv(t)'
    BY <1>5, <1>8, <2>1, <2>2 DEF StageInv, Busy
  <2> QED BY <2>3, <2>4, <2>5
<1>10. ReadInv(s)'
  <2>1. ReadInv(s)
    BY DEF Base
  <2>2. parsedEnd(s)' = e
    BY <1>5, <1>8 DEF parsedEnd
  <2>3. e > 0 => Stream(s)[e].last
    <3>1. off2 = recvBufferParsedOffset[s] => e = parsedEnd(s)
      BY DEF parsedEnd
    <3> QED BY <3>1, <2>1, <1>1 DEF ReadInv
  <2> HIDE DEF e
  <2> QED BY <1>1, <1>4, <1>5, <1>8, <2>1, <2>2, <2>3 DEF ReadInv
<1>11. SendInv(s)'
  BY <1>2 DEF Base, SendInv
<1>12. StageInv(s)'
  <2>1. StageInv(s)
    BY DEF Base
  <2>2. sendBytes[s] = 0 /\ phase[s] \notin {"waiting", "granted"}
    BY <2>1 DEF StageInv
  <2>3. CASE pc'[s] = "dispatch" /\ off2 > recvBufferParsedOffset[s]
    <3>1. off2 > 0
      BY <2>3, <1>1, <1>3
    <3> QED BY <2>2, <2>3, <3>1, <1>5, <1>8 DEF StageInv, Busy
  <2>4. CASE pc'[s] \in {"read", "closed"}
    BY <2>2, <2>4, <1>5, <1>8 DEF StageInv, Busy
  <2> QED BY <2>3, <2>4, <1>1
<1> QED BY <1>6, <1>7, <1>9, <1>10, <1>11, <1>12 DEF Base

\* What a session read is part of its stream.
LEMMA HoldsRead ==
    ASSUME Base, NEW s \in Sessions
    PROVE  Holds(recvBuff[s], s)
BY SessionTypes DEF Base, ReadInv, Holds

\* NextRequest keeps Base.
LEMMA NextRequestBase == ASSUME Base, NEW s \in Sessions, NextRequest(s) PROVE Base'
<1>1. /\ pc[s] = "finish" /\ recvBufferParsedOffset[s] # Len(recvBuff[s])
      /\ Parse(s, recvBuff[s]) /\ recvBuff' = recvBuff
  BY DEF NextRequest
<1>2. recvBuff' = [recvBuff EXCEPT ![s] = recvBuff[s]]
  BY <1>1 DEF Base, TypeInv
<1>3. recvBufferParsedOffset[s] < Len(recvBuff[s])
  BY <1>1, SessionTypes DEF Base, ReadInv
<1> DEFINE buff == recvBuff[s]
<1>4. Holds(buff, s) /\ recvBufferParsedOffset[s] < Len(buff) /\ Parse(s, buff)
      /\ recvBuff' = [recvBuff EXCEPT ![s] = buff]
  BY <1>1, <1>2, <1>3, HoldsRead
<1> HIDE DEF buff
<1> QED BY <1>1, <1>4, ParseBase

\* ReadRequest keeps Base.
LEMMA ReadRequestBase == ASSUME Base, NEW s \in Sessions, ReadRequest(s) PROVE Base'
<1>1. PICK k \in 1..Len(toProxy(s)) :
        LET buff == recvBuff[s] \o SubSeq(toProxy(s), 1, k) IN
        recvBuff' = [recvBuff EXCEPT ![s] = buff] /\ Parse(s, buff)
  BY DEF ReadRequest
<1> DEFINE buff == recvBuff[s] \o SubSeq(toProxy(s), 1, k)
<1>2. Holds(buff, s) /\ recvBufferParsedOffset[s] < Len(buff)
  BY ReadMore
<1>3. recvBuff' = [recvBuff EXCEPT ![s] = buff] /\ Parse(s, buff) /\ pc[s] = "read"
  BY <1>1 DEF ReadRequest
<1> HIDE DEF buff
<1> QED BY <1>2, <1>3, ParseBase

-----------------------------------------------------------------------------
(* Writing the replies, the server, and the theorem.                       *)

\* WriteSome keeps Base.
LEMMA WriteSomeBase == ASSUME Base, NEW s \in Sessions, WriteSome(s) PROVE Base'
<1>1. /\ SameReading /\ pc' = [pc EXCEPT ![s] = "write"] /\ MayWrite(s)
      /\ UNCHANGED <<leaseVars, auth, sendBuff, sendBufferParsedOffset, sendToRedisBytes,
                     wireVars, exposed>>
  BY DEF WriteSome, SameReading
<1>2. PICK n \in (sendBytes[s] + 1)..(Len(sendBuff[s]) - 1) :
        /\ toClient' = [toClient EXCEPT ![s] = @ \o SubSeq(sendBuff[s], sendBytes[s] + 1, n)]
        /\ sendBytes' = [sendBytes EXCEPT ![s] = n]
  BY DEF WriteSome
<1>3. /\ sendBytes[s] \in Nat /\ Len(sendBuff[s]) \in Nat /\ sendBuff[s] \in Seq(Pieces)
      /\ toClient[s] \in Seq(Pieces) /\ recvBufferParsedOffset[s] \in Nat /\ Len(recvBuff[s]) \in Nat
  BY SessionTypes
<1>4. n \in Nat /\ n <= Len(sendBuff[s]) /\ n \in 0..Len(sendBuff[s])
  BY <1>3
<1> DEFINE some == SubSeq(sendBuff[s], sendBytes[s] + 1, n)
           more == toClient[s] \o some
<1>5. more \in Seq(Pieces)
  <2>1. some \in Seq(Pieces)
    BY <1>3, <1>4, Cut
  <2> HIDE DEF some
  <2> QED BY <2>1, <1>3, Join
<1>6. toClient' = [toClient EXCEPT ![s] = more]
  BY <1>2 DEF Base, TypeInv
<1> HIDE DEF more
<1>7. /\ toClient' \in [Sessions -> Seq(Pieces)] /\ sendBytes' \in [Sessions -> Nat]
      /\ pc' \in [Sessions -> Stages] /\ pc'[s] = "write" /\ sendBytes'[s] = n
      /\ \A t \in Sessions \ {s} : pc'[t] = pc[t] /\ sendBytes'[t] = sendBytes[t]
  BY <1>1, <1>2, <1>4, <1>5, <1>6 DEF Base, TypeInv, Stages
<1>8. TypeInv'
  BY <1>1, <1>7 DEF Base, TypeInv, SameReading, wireVars
<1>9. LeaseInv'
  BY <1>1, LeaseSame DEF Base
<1>10. \A t \in Sessions \ {s} : Still(t)
  BY <1>1, <1>7 DEF Still, leaseVars
<1>11. SendInv(s)'
  BY <1>1, <1>4, <1>7 DEF Base, SendInv
<1>12. StageInv(s)'
  <2>1. /\ script' = script /\ recvBuff' = recvBuff /\ recvBufferParsedOffset' = recvBufferParsedOffset
        /\ current(s)' = current(s) /\ phase' = phase /\ StageInv(s)
        /\ pc[s] \in {"finish", "write"} /\ (pc[s] = "finish" => recvBufferParsedOffset[s] = Len(recvBuff[s]))
    BY <1>1, ReadKept DEF SameReading, leaseVars, Base, MayWrite
  <2> QED BY <2>1, <1>7 DEF StageInv, Busy
<1> QED BY <1>1, <1>8, <1>9, <1>10, <1>11, <1>12, OneMoves

\* A batch is answered: the session begins anew, after what it read.
LEMMA WriteRestBase == ASSUME Base, NEW s \in Sessions, WriteRest(s) PROVE Base'
<1> DEFINE more == toClient[s] \o Unparsed(sendBuff[s], sendBytes[s])
           end == done[s] + Len(recvBuff[s])
<1>1. /\ MayWrite(s)
      /\ toClient' = [toClient EXCEPT ![s] = more]
      /\ done' = [done EXCEPT ![s] = end]
      /\ recvBuff' = [recvBuff EXCEPT ![s] = <<>>]
      /\ sendBuff' = [sendBuff EXCEPT ![s] = <<>>]
      /\ recvBufferParsedOffset' = [recvBufferParsedOffset EXCEPT ![s] = 0]
      /\ sendBufferParsedOffset' = [sendBufferParsedOffset EXCEPT ![s] = 0]
      /\ sendBytes' = [sendBytes EXCEPT ![s] = 0]
      /\ sendToRedisBytes' = [sendToRedisBytes EXCEPT ![s] = 0]
      /\ pc' = [pc EXCEPT ![s] = "read"]
      /\ (phase[s] = "answered" /\ Answer(s)) \/ (phase[s] # "answered" /\ UNCHANGED leaseVars)
      /\ UNCHANGED <<script, auth, wireVars, exposed>>
  BY DEF WriteRest, Base, TypeInv
<1>2. more \in Seq(Pieces)
  <2> DEFINE rest == Unparsed(sendBuff[s], sendBytes[s])
  <2>1. /\ sendBuff[s] \in Seq(Pieces) /\ sendBytes[s] \in Nat /\ toClient[s] \in Seq(Pieces)
        /\ Len(sendBuff[s]) \in 0..Len(sendBuff[s])
    BY SessionTypes
  <2>2. rest \in Seq(Pieces) /\ more = toClient[s] \o rest
    BY <2>1, Cut DEF Unparsed
  <2> HIDE DEF rest, more
  <2> QED BY <2>1, <2>2, Join
<1>3. end \in Nat /\ done[s] \in Nat /\ Len(recvBuff[s]) \in Nat
  BY SessionTypes
<1>4. TypeInv /\ phase \in [Sessions -> Phases]
  BY DEF Base, LeaseInv, LeaseTypeOK
<1>5. pc[s] \in {"finish", "write"} /\ recvBufferParsedOffset[s] = Len(recvBuff[s])
  BY <1>1 DEF MayWrite, Base, StageInv
<1>6. Stream(s)[end].last /\ end = parsedEnd(s) /\ end \in 1..Len(Stream(s)) /\ Len(Stream(s)) \in Nat
  BY <1>5, CurrentFacts, SessionTypes DEF parsedEnd
<1> HIDE DEF more, end
<1>7. <<>> \in Seq(Pieces) /\ Len(<<>>) = 0
  OBVIOUS
<1>8. /\ toClient' \in [Sessions -> Seq(Pieces)]
      /\ done' \in [Sessions -> Nat] /\ recvBuff' \in [Sessions -> Seq(Pieces)]
      /\ sendBuff' \in [Sessions -> Seq(Pieces)]
  BY <1>1, <1>2, <1>3, <1>4, <1>7 DEF TypeInv
<1>9. /\ recvBufferParsedOffset' \in [Sessions -> Nat] /\ sendBufferParsedOffset' \in [Sessions -> Nat]
      /\ sendBytes' \in [Sessions -> Nat] /\ sendToRedisBytes' \in [Sessions -> 0..1]
      /\ pc' \in [Sessions -> Stages]
  BY <1>1, <1>4 DEF TypeInv, Stages
<1>10. TypeInv'
  BY <1>1, <1>4, <1>8, <1>9 DEF TypeInv, wireVars
<1>11. LeaseInv'
  BY <1>1, LeaseSame, LeaseKept DEF Base, LeaseNext
<1>12. /\ phase'[s] = (IF phase[s] = "answered" THEN "idle" ELSE phase[s])
       /\ \A t \in Sessions \ {s} : phase'[t] = phase[t]
  BY <1>1, <1>4 DEF Answer, leaseVars
<1>13. \A t \in Sessions : Stream(t)' = Stream(t) /\ script' = script
  BY <1>1 DEF Stream
<1>14. ASSUME NEW t \in Sessions \ {s} PROVE ReadInv(t)' /\ SendInv(t)' /\ StageInv(t)'
  <2>1. ReadInv(t) /\ SendInv(t) /\ StageInv(t)
    BY DEF Base
  <2>2. /\ recvBuff'[t] = recvBuff[t] /\ recvBufferParsedOffset'[t] = recvBufferParsedOffset[t]
        /\ done'[t] = done[t] /\ pc'[t] = pc[t] /\ sendBytes'[t] = sendBytes[t]
        /\ sendBuff'[t] = sendBuff[t] /\ sendBufferParsedOffset'[t] = sendBufferParsedOffset[t]
    BY <1>1, <1>4 DEF TypeInv
  <2>3. parsedEnd(t)' = parsedEnd(t) /\ current(t)' = current(t)
    BY <2>2 DEF parsedEnd, current
  <2>4. ReadInv(t)'
    BY <2>1, <2>2, <2>3, <1>13 DEF ReadInv
  <2>5. SendInv(t)'
    BY <2>1, <2>2 DEF SendInv
  <2>6. StageInv(t)'
    BY <2>1, <2>2, <2>3, <1>12, <1>13 DEF StageInv, Busy
  <2> QED BY <2>4, <2>5, <2>6
<1>15. /\ recvBuff'[s] = <<>> /\ sendBuff'[s] = <<>> /\ recvBufferParsedOffset'[s] = 0
       /\ sendBufferParsedOffset'[s] = 0 /\ sendBytes'[s] = 0 /\ pc'[s] = "read" /\ done'[s] = end
  BY <1>1, <1>4 DEF TypeInv
<1>16. ReadInv(s)'
  <2>1. parsedEnd(s)' = end
    BY <1>3, <1>15 DEF parsedEnd
  <2> QED BY <2>1, <1>3, <1>6, <1>7, <1>13, <1>15 DEF ReadInv
<1>17. SendInv(s)'
  BY <1>7, <1>15 DEF SendInv
<1>18. StageInv(s)'
  <2>1. phase[s] \notin {"waiting", "granted"}
    BY <1>5 DEF Base, StageInv
  <2> QED BY <2>1, <1>12, <1>15 DEF StageInv, Busy
<1> QED BY <1>10, <1>11, <1>14, <1>16, <1>17, <1>18 DEF Base

\* The halves the server answers with.
LEMMA ReplyHalves ==
    ASSUME NEW p \in Pieces
    PROVE  Halves(p.src, p.n, "server") \in Seq(Pieces) /\ Len(Halves(p.src, p.n, "server")) = 2
BY DEF Halves, Piece, Pieces

\* What a server does keeps Base.
LEMMA ServerBase == ASSUME Base, NEW c \in Connections, Server(c) PROVE Base'
<1>1. UNCHANGED <<leaseVars, script, sessionVars, exposed>>
  BY DEF Server, ServerReplies, ServerRejects, ServerFails
<1>2. /\ toServer \in [Connections -> Seq(Pieces)] /\ fromServer \in [Connections -> Seq(Pieces)]
      /\ broken \in [Connections -> BOOLEAN] /\ failures \in 0..MaxFailures /\ MaxFailures \in Nat
  BY MaxFailuresAssumption DEF Base, TypeInv
<1>3. toServer[c] \in Seq(Pieces) /\ fromServer[c] \in Seq(Pieces)
      /\ Len(toServer[c]) \in Nat /\ Len(fromServer[c]) \in Nat
  BY <1>2
<1>4. /\ toServer' \in [Connections -> Seq(Pieces)] /\ fromServer' \in [Connections -> Seq(Pieces)]
      /\ broken' \in [Connections -> BOOLEAN] /\ failures' \in 0..MaxFailures
  <2>1. CASE ServerReplies(c)
    <3> DEFINE p == Head(toServer[c])
               more == fromServer[c] \o Halves(p.src, p.n, "server")
               left == SubSeq(toServer[c], 3, Len(toServer[c]))
    <3>1. /\ fromServer' = [fromServer EXCEPT ![c] = more]
          /\ toServer' = [toServer EXCEPT ![c] = left]
          /\ Len(toServer[c]) >= 2 /\ broken' = broken /\ failures' = failures
      BY <2>1, <1>2 DEF ServerReplies, WholeAtHead
    <3>2. p \in Pieces
      BY <1>3, <3>1
    <3>3. more \in Seq(Pieces)
      <4> HIDE DEF p
      <4> QED BY <3>2, <1>3, ReplyHalves, Join
    <3>4. left \in Seq(Pieces)
      <4>1. Len(toServer[c]) \in 0..Len(toServer[c]) /\ 2 \in Nat /\ 2 + 1 = 3
        BY <1>3
      <4>2. SubSeq(toServer[c], 2 + 1, Len(toServer[c])) \in Seq(Pieces)
        BY <4>1, <1>3, Cut
      <4> QED BY <4>1, <4>2
    <3> HIDE DEF more, left
    <3> QED BY <3>1, <3>3, <3>4, <1>2
  <2>2. CASE ServerRejects(c)
    BY <2>2, <1>2 DEF ServerRejects
  <2>3. CASE ServerFails(c)
    <3>1. PICK k \in 0..Len(fromServer[c]) : fromServer' = [fromServer EXCEPT ![c] = SubSeq(@, 1, k)]
      BY <2>3 DEF ServerFails
    <3> DEFINE left == SubSeq(fromServer[c], 1, k)
    <3>2. left \in Seq(Pieces)
      <4>1. SubSeq(fromServer[c], 0 + 1, k) \in Seq(Pieces)
        BY <1>3, Cut
      <4>2. 0 + 1 = 1
        OBVIOUS
      <4> QED BY <4>1, <4>2
    <3>3. fromServer' = [fromServer EXCEPT ![c] = left]
      BY <3>1, <1>2
    <3> HIDE DEF left
    <3>4. /\ toServer' = [toServer EXCEPT ![c] = <<>>] /\ broken' = [broken EXCEPT ![c] = TRUE]
          /\ failures' = failures + 1 /\ failures < MaxFailures
      BY <2>3 DEF ServerFails
    <3>5. fromServer' \in [Connections -> Seq(Pieces)]
      BY <3>2, <3>3, <1>2
    <3>6. <<>> \in Seq(Pieces)
      OBVIOUS
    <3> QED BY <3>4, <3>5, <3>6, <1>2
  <2> QED BY <2>1, <2>2, <2>3 DEF Server
<1>5. SameReading
  BY <1>1 DEF SameReading, sessionVars, bufferVars
<1>6. TypeInv'
  BY <1>1, <1>4 DEF Base, TypeInv, sessionVars, bufferVars
<1>7. LeaseInv'
  BY <1>1, LeaseSame DEF Base
<1>8. ASSUME NEW t \in Sessions PROVE ReadInv(t)' /\ SendInv(t)' /\ StageInv(t)'
  <2>1. Still(t)
    BY <1>1 DEF Still, sessionVars, bufferVars, leaseVars
  <2> QED BY <2>1, <1>5, ReadKept, StillKept
<1> QED BY <1>6, <1>7, <1>8 DEF Base

\* A stuttering step keeps Base.
LEMMA StutterBase == ASSUME Base, UNCHANGED vars PROVE Base'
<1>1. UNCHANGED <<leaseVars, script, sessionVars, wireVars, exposed>>
  BY DEF vars
<1>2. SameReading
  BY <1>1 DEF SameReading, sessionVars, bufferVars
<1>3. TypeInv'
  BY <1>1 DEF Base, TypeInv, sessionVars, bufferVars, wireVars
<1>4. LeaseInv'
  BY <1>1, LeaseSame DEF Base
<1>5. ASSUME NEW t \in Sessions PROVE ReadInv(t)' /\ SendInv(t)' /\ StageInv(t)'
  <2>1. Still(t)
    BY <1>1 DEF Still, sessionVars, bufferVars, leaseVars
  <2> QED BY <2>1, <1>2, ReadKept, StillKept
<1> QED BY <1>3, <1>4, <1>5 DEF Base

\* Every step keeps Base.
LEMMA NextBase == ASSUME Base, [Next]_vars PROVE Base'
<1>1. CASE UNCHANGED vars
  BY <1>1, StutterBase
<1>2. ASSUME NEW s \in Sessions, SessionStep(s) PROVE Base'
  BY <1>2, MovesBase, LocalReplyBase, SendBase, FailsBase, RecvBase, RefusedBase,
     NextRequestBase, ReadRequestBase, WriteSomeBase, WriteRestBase
     DEF SessionStep, Runs
<1>3. ASSUME NEW c \in Connections, Server(c) PROVE Base'
  BY <1>3, ServerBase
<1> QED BY <1>1, <1>2, <1>3 DEF Next

\* Base holds at the start.
LEMMA InitBase == ASSUME Init PROVE Base
<1>1. <<>> \in Seq(Pieces) /\ Len(<<>>) = 0 /\ ToSet(<<>>) = {} /\ IsInjective(<<>>)
  <2>1. <<>> \in Seq(Pieces) /\ Len(<<>>) = 0
    OBVIOUS
  <2>2. ToSet(<<>>) = {} /\ IsInjective(<<>>)
    BY <2>1, EmptyQueue
  <2> QED BY <2>1, <2>2
<1>2. script \in Workloads
  BY DEF Init
<1>3. TypeInv
  <2>1. auth \in [Sessions -> BOOLEAN]
    BY DEF Init
  <2>2. exposed \in BOOLEAN
    BY Zenon DEF Init
  <2> QED BY <2>1, <2>2, <1>1, MaxFailuresAssumption DEF Init, TypeInv, Stages
<1>4. LeaseInv
  <2>1. line \in Seq(Sessions)
    BY DEF Init, LeaseInit
  <2> QED BY <2>1, <1>1 DEF Init, LeaseInit, LeaseInv, LeaseTypeOK, Phases
<1>5. ASSUME NEW s \in Sessions PROVE ReadInv(s) /\ SendInv(s) /\ StageInv(s)
  <2>1. Len(Stream(s)) \in Nat
    BY <1>2, StreamType
  <2>2. /\ recvBuff[s] = <<>> /\ sendBuff[s] = <<>> /\ recvBufferParsedOffset[s] = 0
        /\ sendBufferParsedOffset[s] = 0 /\ sendBytes[s] = 0 /\ pc[s] = "read" /\ done[s] = 0
        /\ phase[s] = "idle"
    BY DEF Init, LeaseInit
  <2>3. parsedEnd(s) = 0
    BY <2>2 DEF parsedEnd
  <2> QED BY <2>1, <2>2, <2>3, <1>1 DEF ReadInv, SendInv, StageInv, Busy
<1> QED BY <1>3, <1>4, <1>5 DEF Base

\* The invariant implies the type invariant of the module.
LEMMA BaseTypeOK == ASSUME Base PROVE TypeOK
<1>1. /\ LeaseTypeOK /\ script \in Workloads /\ auth \in [Sessions -> BOOLEAN]
      /\ pc \in [Sessions -> Stages] /\ failures \in 0..MaxFailures
      /\ broken \in [Connections -> BOOLEAN]
  BY DEF Base, TypeInv, LeaseInv
<1>2. ASSUME NEW s \in Sessions
      PROVE  /\ done[s] + Len(recvBuff[s]) <= Len(Stream(s))
             /\ recvBufferParsedOffset[s] \in 0..Len(recvBuff[s])
             /\ sendBufferParsedOffset[s] \in 0..Len(sendBuff[s])
             /\ sendBytes[s] \in 0..Len(sendBuff[s])
             /\ sendToRedisBytes[s] \in 0..1
             /\ pc[s] = "line" <=> phase[s] = "waiting"
             /\ pc[s] \in {"send", "recv"} <=> phase[s] = "granted"
  BY SessionTypes DEF Base, ReadInv, SendInv, StageInv
<1> QED BY <1>1, <1>2 DEF TypeOK

-----------------------------------------------------------------------------
(* The invariant, second part: the bytes on the connections.  While        *)
(* exposed is FALSE, a connection nobody holds is empty, and on one that is *)
(* lent there is what its holder has sent, or what is left of the reply.    *)

rest(s) == Unparsed(sendBuff[s], sendBufferParsedOffset[s])

Sending(s) ==
    LET c == lease[s]  a == Piece(s, current(s), 1, FALSE, "client") IN
    /\ sendBufferParsedOffset[s] = Len(sendBuff[s])
    /\ fromServer[c] = <<>>
    /\ toServer[c] = IF broken[c] \/ sendToRedisBytes[s] = 0 THEN <<>> ELSE <<a>>

Receiving(s) ==
    LET c == lease[s]
        x == Piece(s, current(s), 1, FALSE, "server")
        y == Piece(s, current(s), 2, TRUE, "server")
    IN  /\ sendToRedisBytes[s] = 0
        /\ \/ /\ toServer[c] = Request(s) /\ ~broken[c]
              /\ rest(s) = <<>> /\ fromServer[c] = <<>>
           \/ /\ toServer[c] = <<>>
              /\ \/ rest(s) = <<>> /\ fromServer[c] = <<x, y>>
                 \/ rest(s) = <<x>> /\ fromServer[c] = <<y>>
                 \/ broken[c] /\ rest(s) \in {<<>>, <<x>>} /\ fromServer[c] = <<>>
                 \/ broken[c] /\ rest(s) = <<>> /\ fromServer[c] = <<x>>

\* sendToRedisBytes is left at 1 only by a send that failed, whose reply was
\* not parsed: the next forwarded request of the batch exposes the session.
WireInv(s) ==
    /\ pc[s] = "send" => Sending(s)
    /\ pc[s] = "recv" => Receiving(s)
    /\ pc[s] # "send" /\ sendToRedisBytes[s] # 0 => sendBufferParsedOffset[s] # Len(sendBuff[s])

Clean(c) == toServer[c] = <<>> /\ fromServer[c] = <<>>

Wires ==
    /\ \A c \in Available : Clean(c)
    /\ \A s \in Sessions : WireInv(s)

\* Sequences of one and of two elements, and the parts they have.
LEMMA Pairs ==
    ASSUME NEW S, NEW a \in S, NEW b \in S
    PROVE  /\ <<a>> \in Seq(S) /\ <<a, b>> \in Seq(S)
           /\ SubSeq(<<a, b>>, 1, 1) = <<a>> /\ SubSeq(<<a, b>>, 2, 2) = <<b>>
           /\ SubSeq(<<a, b>>, 1, 2) = <<a, b>> /\ SubSeq(<<a, b>>, 3, 2) = <<>>
           /\ SubSeq(<<a>>, 1, 1) = <<a>>
           /\ SubSeq(<<a>>, 2, 1) = <<>> /\ SubSeq(<<a, b>>, 1, 0) = <<>>
           /\ <<>> \o <<a>> = <<a>> /\ <<>> \o <<a, b>> = <<a, b>> /\ <<a>> \o <<b>> = <<a, b>>
<1> DEFINE p == <<a, b>>
           q == <<a>>
<1>1. /\ p \in Seq(S) /\ q \in Seq(S) /\ Len(p) = 2 /\ Len(q) = 1 /\ p[1] = a /\ p[2] = b /\ q[1] = a
      /\ <<b>> \in Seq(S) /\ Len(<<b>>) = 1 /\ <<b>>[1] = b /\ <<>> \in Seq(S) /\ Len(<<>>) = 0
  OBVIOUS
<1>2. \A d \in Seq(S) : /\ Len(d) = 0 => d = <<>>
                        /\ Len(d) = 1 /\ d[1] = a => d = <<a>>
                        /\ Len(d) = 1 /\ d[1] = b => d = <<b>>
                        /\ Len(d) = 2 /\ d[1] = a /\ d[2] = b => d = <<a, b>>
  OBVIOUS
<1> HIDE DEF p, q
<1>3. /\ SubSeq(p, 1, 1) \in Seq(S) /\ Len(SubSeq(p, 1, 1)) = 1 /\ SubSeq(p, 1, 1)[1] = a
      /\ SubSeq(p, 2, 2) \in Seq(S) /\ Len(SubSeq(p, 2, 2)) = 1 /\ SubSeq(p, 2, 2)[1] = b
      /\ SubSeq(p, 1, 2) \in Seq(S) /\ Len(SubSeq(p, 1, 2)) = 2 /\ SubSeq(p, 1, 2)[1] = a /\ SubSeq(p, 1, 2)[2] = b
      /\ SubSeq(q, 1, 1) \in Seq(S) /\ Len(SubSeq(q, 1, 1)) = 1 /\ SubSeq(q, 1, 1)[1] = a
  <2>1. \A i \in 1..2 : p[i] \in S
    BY <1>1
  <2>2. \A i \in 1..1 : q[i] \in S /\ p[i] \in S
    BY <1>1
  <2>3. \A i \in 2..2 : p[i] \in S
    BY <1>1
  <2>4. SubSeq(p, 1, 1) \in Seq(S) /\ Len(SubSeq(p, 1, 1)) = 1 /\ SubSeq(p, 1, 1)[1] = a
    BY <2>2, <1>1, SubSeqProperties
  <2>5. SubSeq(p, 2, 2) \in Seq(S) /\ Len(SubSeq(p, 2, 2)) = 1 /\ SubSeq(p, 2, 2)[1] = b
    BY <2>3, <1>1, SubSeqProperties
  <2>6. SubSeq(p, 1, 2) \in Seq(S) /\ Len(SubSeq(p, 1, 2)) = 2 /\ SubSeq(p, 1, 2)[1] = a /\ SubSeq(p, 1, 2)[2] = b
    BY <2>1, <1>1, SubSeqProperties
  <2>7. SubSeq(q, 1, 1) \in Seq(S) /\ Len(SubSeq(q, 1, 1)) = 1 /\ SubSeq(q, 1, 1)[1] = a
    BY <2>2, <1>1, SubSeqProperties
  <2> QED BY <2>4, <2>5, <2>6, <2>7
<1>4. SubSeq(p, 3, 2) = <<>> /\ SubSeq(q, 2, 1) = <<>> /\ SubSeq(p, 1, 0) = <<>>
  <2>1. 2 < 3 /\ 1 < 2 /\ 0 < 1
    OBVIOUS
  <2> QED BY <2>1, SubSeqEmpty
<1>5. <<>> \o q = q /\ <<>> \o p = p
  BY <1>1, ConcatEmptySeq
<1>6. q \o <<b>> \in Seq(S) /\ Len(q \o <<b>>) = 2 /\ (q \o <<b>>)[1] = a /\ (q \o <<b>>)[2] = b
  BY <1>1, ConcatProperties
<1> QED BY <1>1, <1>2, <1>3, <1>4, <1>5, <1>6 DEF p, q

\* Exposure is for good.
LEMMA ExposedStays == ASSUME Base, [Next]_vars, exposed PROVE exposed'
<1>1. CASE UNCHANGED vars
  BY <1>1 DEF vars
<1>2. ASSUME NEW s \in Sessions, Expose(s) PROVE exposed'
  BY <1>2, Zenon DEF Expose
<1>3. ASSUME NEW s \in Sessions, UseCompleted(s) PROVE exposed'
  <2>1. CASE exposed' = exposed
    BY <2>1
  <2>2. CASE line # <<>> /\ Expose(Head(line))
    <3>1. Head(line) \in Sessions
      BY <2>2, HeadWaits DEF Base
    <3> QED BY <2>2, <3>1, <1>2
  <2> QED BY <1>3, <2>1, <2>2 DEF UseCompleted
<1>4. ASSUME NEW s \in Sessions, Repair(s) PROVE exposed'
  BY <1>3, <1>4 DEF Repair
<1>5. ASSUME NEW s \in Sessions, SessionStep(s) PROVE exposed'
  <2>1. CASE exposed' = exposed
    BY <2>1
  <2>2. CASE SelectConnection(s)
    BY <2>2, <1>2 DEF SelectConnection
  <2>3. CASE SendFails(s) \/ RecvFails(s)
    BY <2>3, <1>4 DEF SendFails, RecvFails
  <2>4. CASE RecvReply(s)
    <3>1. exposed' = exposed \/ UseCompleted(s)
      BY <2>4 DEF RecvReply
    <3> QED BY <3>1, <1>3
  <2>5. CASE RefusedReply(s)
    BY <2>5 DEF RefusedReply
  <2>6. CASE ReadRequest(s) \/ NextRequest(s)
    <3>1. exposed' = exposed
      BY <2>6 DEF ReadRequest, NextRequest, Parse
    <3> QED BY <3>1
  <2>7. \/ exposed' = exposed \/ SelectConnection(s) \/ SendFails(s) \/ RecvFails(s)
        \/ RecvReply(s) \/ RefusedReply(s) \/ ReadRequest(s) \/ NextRequest(s)
    BY <1>5 DEF SessionStep, Runs, ReadFails, WriteFails, Close, DispatchLocal, DispatchKey,
       SelectNothing, Refused, TurnedAway, SendRequest, WriteSome, WriteRest
  <2> QED BY <2>1, <2>2, <2>3, <2>4, <2>5, <2>6, <2>7
<1>6. ASSUME NEW c \in Connections, Server(c) PROVE exposed'
  BY <1>6 DEF Server, ServerReplies, ServerRejects, ServerFails
<1> QED BY <1>1, <1>5, <1>6 DEF Next

\* The values of a session on which its part of the wire invariant depends.
Quiet(t) ==
    /\ pc'[t] = pc[t] /\ lease'[t] = lease[t]
    /\ sendBuff'[t] = sendBuff[t] /\ sendBufferParsedOffset'[t] = sendBufferParsedOffset[t]
    /\ sendToRedisBytes'[t] = sendToRedisBytes[t]
    /\ pc[t] \in {"send", "recv"} =>
         /\ current(t)' = current(t) /\ Request(t)' = Request(t)
         /\ toServer'[lease[t]] = toServer[lease[t]]
         /\ fromServer'[lease[t]] = fromServer[lease[t]]
         /\ broken'[lease[t]] = broken[lease[t]]

\* A session that is quiet, and whose connection is, keeps its part of Wires.
LEMMA QuietKept == ASSUME NEW t \in Sessions, WireInv(t), Quiet(t) PROVE WireInv(t)'
<1>1. rest(t)' = rest(t)
  BY DEF rest, Unparsed, Quiet
<1>2. pc[t] = "send" /\ Sending(t) => Sending(t)'
  BY DEF Sending, Quiet
<1>3. pc[t] = "recv" /\ Receiving(t) => Receiving(t)'
  BY <1>1 DEF Receiving, Quiet
<1> QED BY <1>2, <1>3 DEF WireInv, Quiet

\* A session that neither sends nor receives.
LEMMA IdleWire ==
    ASSUME NEW t \in Sessions, pc'[t] \notin {"send", "recv"},
           sendToRedisBytes'[t] # 0 => sendBufferParsedOffset'[t] # Len(sendBuff'[t])
    PROVE  WireInv(t)'
BY DEF WireInv

\* The connections of two sessions are two.
LEMMA OtherConnection ==
    ASSUME Base, NEW s \in Sessions, pc[s] \in {"send", "recv"},
           NEW t \in Sessions \ {s}, pc[t] \in {"send", "recv"}
    PROVE  lease[t] # lease[s]
BY DEF Base, StageInv, LeaseInv

\* Who is without a connection has none to share.
LEMMA HolderSends ==
    ASSUME Base, NEW s \in Sessions, lease[s] \in Connections
    PROVE  pc[s] \in {"send", "recv"}
BY NoConnectionAssumption DEF Base, StageInv, LeaseInv

\* A connection that is given on, or given back, carries nothing; who takes it
\* over had nothing unparsed, or would be exposed.
LEMMA WireRelease ==
    ASSUME Base, Wires, NEW s \in Sessions, Release(s), SameReading, ~exposed',
           sendToRedisBytes' = sendToRedisBytes,
           \A t \in Sessions : pc[t] = "line" /\ pc'[t] = "send" => Expose(t),
           toServer'[lease[s]] = <<>>, fromServer'[lease[s]] = <<>>,
           \A d \in Connections \ {lease[s]} :
                toServer'[d] = toServer[d] /\ fromServer'[d] = fromServer[d] /\ broken'[d] = broken[d],
           \A t \in Sessions \ {s} :
                sendBuff'[t] = sendBuff[t] /\ sendBufferParsedOffset'[t] = sendBufferParsedOffset[t],
           sendToRedisBytes[s] # 0 => sendBufferParsedOffset'[s] # Len(sendBuff'[s])
    PROVE  Wires'
<1> DEFINE c == lease[s]
<1>1. /\ phase[s] = "granted" /\ pc'[s] = "finish" /\ lease'[s] = NoConnection
      /\ \A t \in Sessions \ {s} :
            \/ pc'[t] = pc[t] /\ lease'[t] = lease[t]
            \/ pc[t] = "line" /\ pc'[t] = "send" /\ lease'[t] = c
  BY ReleaseFacts
<1>2. pc[s] \in {"send", "recv"} /\ c \in Connections
  BY <1>1 DEF Base, StageInv, LeaseInv
<1>3. ASSUME NEW d \in Available' PROVE Clean(d)'
  <2>1. d \in Connections /\ \A t \in Sessions : lease'[t] # d
    BY <1>3 DEF Available
  <2>2. CASE d = c
    BY <2>2 DEF Clean
  <2>3. CASE d # c
    <3>1. ASSUME NEW t \in Sessions, lease[t] = d PROVE FALSE
      <4>1. pc[t] \in {"send", "recv"} /\ t # s
        BY <2>1, <2>3, <3>1, HolderSends
      <4> QED BY <1>1, <2>1, <3>1, <4>1
    <3>2. d \in Available
      BY <2>1, <3>1 DEF Available
    <3> QED BY <2>1, <2>3, <3>2 DEF Clean, Wires
  <2> QED BY <2>2, <2>3
<1>4. WireInv(s)'
  BY <1>1, IdleWire
<1>5. ASSUME NEW t \in Sessions \ {s} PROVE WireInv(t)'
  <2>1. WireInv(t) /\ current(t)' = current(t) /\ Request(t)' = Request(t)
    BY ReadKept DEF Wires
  <2>2. CASE pc'[t] = pc[t] /\ lease'[t] = lease[t]
    <3>1. pc[t] \in {"send", "recv"} => lease[t] \in Connections \ {c}
      <4> SUFFICES ASSUME pc[t] \in {"send", "recv"} PROVE lease[t] \in Connections \ {c}
        OBVIOUS
      <4>1. lease[t] \in Connections
        BY DEF Base, StageInv, LeaseInv
      <4> QED BY <4>1, <1>2, OtherConnection
    <3>2. Quiet(t)
      BY <2>1, <2>2, <3>1 DEF Quiet
    <3> QED BY <2>1, <3>2, QuietKept
  <2>3. CASE pc[t] = "line" /\ pc'[t] = "send" /\ lease'[t] = c
    <3>1. sendBufferParsedOffset[t] = Len(sendBuff[t])
      BY <2>3, Zenon DEF Expose
    <3>2. sendToRedisBytes[t] = 0
      BY <2>1, <2>3, <3>1 DEF WireInv
    <3>3. Sending(t)'
      BY <2>3, <3>1, <3>2 DEF Sending
    <3> QED BY <2>3, <3>3 DEF WireInv
  <2> QED BY <1>1, <2>2, <2>3
<1> QED BY <1>3, <1>4, <1>5 DEF Wires

\* Who takes a connection over is checked for what it has not parsed.
LEMMA UseCompletedExposes ==
    ASSUME Base, NEW s \in Sessions, UseCompleted(s)
    PROVE  \A t \in Sessions : pc[t] = "line" /\ pc'[t] = "send" => Expose(t)
<1>1. CASE PassOn(s) /\ pc' = [pc EXCEPT ![s] = "finish", ![Head(line)] = "send"] /\ Expose(Head(line))
  <2>1. \A t \in Sessions : pc[t] = "line" /\ pc'[t] = "send" => t = Head(line)
    BY <1>1 DEF Base, TypeInv
  <2> QED BY <2>1, <1>1
<1>2. CASE Finished(s)
  BY <1>2 DEF Finished, Base, TypeInv
<1> QED BY <1>1, <1>2 DEF UseCompleted

\* SendFails and RecvFails keep Wires: the connection is emptied.
LEMMA FailsWires ==
    ASSUME Base, Wires, ~exposed', NEW s \in Sessions, SendFails(s) \/ RecvFails(s)
    PROVE  Wires'
<1>1. /\ pc[s] \in {"send", "recv"} /\ Repair(s) /\ Reply(s) /\ SameReading
      /\ sendBufferParsedOffset' = sendBufferParsedOffset /\ sendToRedisBytes' = sendToRedisBytes
  BY DEF SendFails, RecvFails, SameReading
<1>2. phase[s] = "granted"
  BY <1>1 DEF Base, StageInv
<1>3. /\ Release(s) /\ lease[s] \in Connections
      /\ toServer' = [toServer EXCEPT ![lease[s]] = <<>>]
      /\ fromServer' = [fromServer EXCEPT ![lease[s]] = <<>>]
      /\ broken' = [broken EXCEPT ![lease[s]] = FALSE]
  BY <1>1, <1>2, RepairFacts
<1>4. /\ \A t \in Sessions \ {s} : sendBuff'[t] = sendBuff[t]
      /\ Len(sendBuff'[s]) = Len(sendBuff[s]) + 1
  BY <1>1, ReplyFacts DEF Busy
<1>5. sendBufferParsedOffset'[s] # Len(sendBuff'[s])
  BY <1>1, <1>4, SessionTypes DEF Base, SendInv
<1>6. \A t \in Sessions : pc[t] = "line" /\ pc'[t] = "send" => Expose(t)
  <2>1. CASE UseCompleted(s)
    BY <2>1, UseCompletedExposes
  <2>2. CASE Finished(s)
    BY <2>2 DEF Finished, Base, TypeInv
  <2> QED BY <1>1, <2>1, <2>2 DEF Repair
<1>7. /\ toServer'[lease[s]] = <<>> /\ fromServer'[lease[s]] = <<>>
      /\ \A d \in Connections \ {lease[s]} :
            toServer'[d] = toServer[d] /\ fromServer'[d] = fromServer[d] /\ broken'[d] = broken[d]
  BY <1>3 DEF Base, TypeInv
<1> QED BY <1>1, <1>3, <1>4, <1>5, <1>6, <1>7, WireRelease

-----------------------------------------------------------------------------
(* What a session receives.                                                *)

\* What is not parsed of a longer buffer.
LEMMA UnparsedMore ==
    ASSUME NEW q \in Seq(Pieces), NEW r \in Seq(Pieces), NEW off \in 0..Len(q)
    PROVE  Unparsed(q \o r, off) = Unparsed(q, off) \o r
<1> DEFINE u == Unparsed(q, off)
           d == q \o r
           v == Unparsed(d, off)
           w == u \o r
<1>1. Len(q) \in Nat /\ Len(r) \in Nat /\ off \in Nat /\ off <= Len(q)
  OBVIOUS
<1>2. /\ d \in Seq(Pieces) /\ Len(d) = Len(q) + Len(r)
      /\ \A i \in 1..Len(q) : d[i] = q[i]
      /\ \A i \in 1..Len(r) : d[Len(q) + i] = r[i]
  BY Join
<1> HIDE DEF d
<1>3. /\ u \in Seq(Pieces) /\ Len(u) = Len(q) - off
      /\ \A i \in 1..(Len(q) - off) : u[i] = q[off + i]
  <2>1. Len(q) \in 0..Len(q)
    BY <1>1
  <2>2. /\ u \in Seq(Pieces) /\ Len(u) = IF off < Len(q) THEN Len(q) - off ELSE 0
        /\ \A i \in 1..(Len(q) - off) : u[i] = q[off + i]
    BY <2>1, <1>1, Cut DEF Unparsed
  <2> HIDE DEF u
  <2> QED BY <2>2, <1>1
<1>4. /\ v \in Seq(Pieces) /\ Len(v) = Len(d) - off
      /\ \A i \in 1..(Len(d) - off) : v[i] = d[off + i]
  <2>1. Len(d) \in 0..Len(d) /\ off <= Len(d) /\ Len(d) \in Nat
    BY <1>1, <1>2
  <2>2. /\ v \in Seq(Pieces) /\ Len(v) = IF off < Len(d) THEN Len(d) - off ELSE 0
        /\ \A i \in 1..(Len(d) - off) : v[i] = d[off + i]
    BY <2>1, <1>1, <1>2, Cut DEF Unparsed
  <2> HIDE DEF v
  <2> QED BY <2>1, <2>2, <1>1
<1> HIDE DEF u, v
<1>5. /\ w \in Seq(Pieces) /\ Len(w) = Len(u) + Len(r)
      /\ \A i \in 1..Len(u) : w[i] = u[i]
      /\ \A i \in 1..Len(r) : w[Len(u) + i] = r[i]
  <2>1. u \in Seq(Pieces)
    BY <1>3
  <2> QED BY <2>1, Join
<1> HIDE DEF w
<1>6. Len(v) = Len(w)
  BY <1>1, <1>2, <1>3, <1>4, <1>5
<1>7. \A i \in 1..Len(v) : v[i] = w[i]
  <2> SUFFICES ASSUME NEW i \in 1..Len(v) PROVE v[i] = w[i]
    OBVIOUS
  <2>1. v[i] = d[off + i]
    BY <1>4
  <2>2. CASE i <= Len(u)
    <3>1. i \in 1..Len(u) /\ i \in 1..(Len(q) - off) /\ off + i \in 1..Len(q)
      BY <2>2, <1>1, <1>3
    <3> QED BY <3>1, <2>1, <1>2, <1>3, <1>5
  <2>3. CASE i > Len(u)
    <3>1. /\ i - Len(u) \in 1..Len(r) /\ Len(q) + (i - Len(u)) = off + i /\ Len(u) + (i - Len(u)) = i
      BY <2>3, <1>1, <1>2, <1>3, <1>4
    <3> QED BY <3>1, <2>1, <1>2, <1>5
  <2> QED BY <2>2, <2>3, <1>1, <1>3
<1>8. v = w
  BY <1>4, <1>5, <1>6, <1>7, SeqEqual
<1> QED BY <1>8 DEF w, v, u, d

\* A session reads the reply to its current request and nothing else: what it
\* has not parsed is then the first half, or the whole with nothing left.
LEMMA ReceiveFacts ==
    ASSUME Base, NEW s \in Sessions, pc[s] = "recv", Receiving(s),
           NEW k \in 1..Len(fromServer[lease[s]])
    PROVE  LET c == lease[s]
               x == Piece(s, current(s), 1, FALSE, "server")
               y == Piece(s, current(s), 2, TRUE, "server")
               more == SubSeq(fromServer[c], 1, k)
               left == SubSeq(fromServer[c], k + 1, Len(fromServer[c]))
               now == Unparsed(sendBuff[s] \o more, sendBufferParsedOffset[s])
           IN  /\ x \in Pieces /\ y \in Pieces /\ current(s) \in Nat
               /\ toServer[c] = <<>> /\ sendToRedisBytes[s] = 0
               /\ now = rest(s) \o more
               /\ \/ now = <<x, y>> /\ left = <<>>
                     /\ ((rest(s) = <<>> /\ more = <<x, y>>) \/ (rest(s) = <<x>> /\ more = <<y>>))
                  \/ now = <<x>> /\ rest(s) = <<>> /\ more = <<x>>
                     /\ (left = <<y>> \/ (broken[c] /\ left = <<>>))
<1> DEFINE c == lease[s]
           x == Piece(s, current(s), 1, FALSE, "server")
           y == Piece(s, current(s), 2, TRUE, "server")
           from == fromServer[c]
           more == SubSeq(from, 1, k)
           left == SubSeq(from, k + 1, Len(from))
           now == Unparsed(sendBuff[s] \o more, sendBufferParsedOffset[s])
<1>1. current(s) \in Nat
  BY CurrentFacts DEF Busy
<1>2. x \in Pieces /\ y \in Pieces
  BY <1>1 DEF Piece, Pieces
<1>3. now = rest(s) \o more
  <2>1. more \in Seq(Pieces)
    BY RecvFacts
  <2>2. sendBuff[s] \in Seq(Pieces) /\ sendBufferParsedOffset[s] \in 0..Len(sendBuff[s])
    BY SessionTypes DEF Base, SendInv
  <2> HIDE DEF more
  <2> QED BY <2>1, <2>2, UnparsedMore DEF rest
<1>4. k \in 1..Len(from)
  OBVIOUS
<1>5. /\ sendToRedisBytes[s] = 0
      /\ \/ from = <<>>
         \/ /\ toServer[c] = <<>>
            /\ \/ rest(s) = <<>> /\ from = <<x, y>>
               \/ rest(s) = <<x>> /\ from = <<y>>
               \/ broken[c] /\ rest(s) = <<>> /\ from = <<x>>
  BY DEF Receiving
<1> HIDE DEF x, y, from, now, c
<1>6. from # <<>>
  BY <1>4
<1>7. CASE rest(s) = <<>> /\ from = <<x, y>>
  <2>1. k = 1 \/ k = 2
    BY <1>4, <1>7
  <2>2. Len(from) = 2 /\ 1 + 1 = 2 /\ 2 + 1 = 3
    BY <1>7
  <2>3. CASE k = 1
    <3>1. more = <<x>> /\ left = <<y>>
      <4>1. more = SubSeq(<<x, y>>, 1, 1) /\ left = SubSeq(<<x, y>>, 2, 2)
        BY <2>2, <2>3, <1>7
      <4> QED BY <4>1, <1>2, Pairs
    <3>2. now = <<x>>
      BY <3>1, <1>2, <1>3, <1>7, Pairs
    <3> QED BY <3>1, <3>2, <1>1, <1>2, <1>3, <1>5, <1>6, <1>7 DEF x, y, from, now, c
  <2>4. CASE k = 2
    <3>1. more = <<x, y>> /\ left = <<>>
      <4>1. more = SubSeq(<<x, y>>, 1, 2) /\ left = SubSeq(<<x, y>>, 3, 2)
        BY <2>2, <2>4, <1>7
      <4> QED BY <4>1, <1>2, Pairs
    <3>2. now = <<x, y>>
      BY <3>1, <1>2, <1>3, <1>7, Pairs
    <3> QED BY <3>1, <3>2, <1>1, <1>2, <1>3, <1>5, <1>6, <1>7 DEF x, y, from, now, c
  <2> QED BY <2>1, <2>3, <2>4
<1>8. CASE rest(s) = <<x>> /\ from = <<y>>
  <2>1. k = 1 /\ Len(from) = 1 /\ k + 1 = 2
    BY <1>4, <1>8
  <2>2. more = <<y>> /\ left = <<>>
    <3>1. more = SubSeq(<<y>>, 1, 1) /\ left = SubSeq(<<y>>, 2, 1)
      BY <2>1, <1>8
    <3> QED BY <3>1, <1>2, Pairs
  <2>3. now = <<x, y>>
    BY <2>2, <1>2, <1>3, <1>8, Pairs
  <2> QED BY <2>2, <2>3, <1>1, <1>2, <1>3, <1>5, <1>6, <1>8 DEF x, y, from, now, c
<1>9. CASE broken[c] /\ rest(s) = <<>> /\ from = <<x>>
  <2>1. k = 1 /\ Len(from) = 1 /\ k + 1 = 2
    BY <1>4, <1>9
  <2>2. more = <<x>> /\ left = <<>>
    <3>1. more = SubSeq(<<x>>, 1, 1) /\ left = SubSeq(<<x>>, 2, 1)
      BY <2>1, <1>9
    <3> QED BY <3>1, <1>2, Pairs
  <2>3. now = <<x>>
    BY <2>2, <1>2, <1>3, <1>9, Pairs
  <2> QED BY <2>2, <2>3, <1>1, <1>2, <1>3, <1>5, <1>6, <1>9 DEF x, y, from, now, c
<1> QED BY <1>5, <1>6, <1>7, <1>8, <1>9

\* A first half is incomplete, if it is not refused; a whole reply is parsed
\* whole, if it is not refused.
LEMMA ParseHalf ==
    ASSUME NEW s \in Sessions, NEW n \in Nat,
           NEW r \in ParseReply(<<Piece(s, n, 1, FALSE, "server")>>)
    PROVE  r.state # "ok"
<1> DEFINE x == Piece(s, n, 1, FALSE, "server")
<1>1. x.part = 1 /\ ~x.last
  BY DEF Piece
<1> HIDE DEF x
<1>2. Len(<<x>>) = 1 /\ Head(<<x>>) = x
  OBVIOUS
<1>3. r \in ParseReply(<<x>>)
  BY DEF x
<1>4. r.state \in {"incomplete", "error"}
  BY <1>1, <1>2, <1>3 DEF ParseReply
<1> QED BY <1>4

\* A whole reply is parsed as one, or refused.
LEMMA ParseWhole ==
    ASSUME NEW s \in Sessions, NEW n \in Nat,
           NEW r \in ParseReply(<<Piece(s, n, 1, FALSE, "server"), Piece(s, n, 2, TRUE, "server")>>)
    PROVE  r.state = "error" \/ (r.state = "ok" /\ r.len = 2)
<1> DEFINE x == Piece(s, n, 1, FALSE, "server")
           y == Piece(s, n, 2, TRUE, "server")
           nil == script[x.src][x.n] = "nil"
<1>1. x.part = 1 /\ ~x.last /\ y = Piece(x.src, x.n, 2, TRUE, x.by)
  BY DEF Piece
<1>2. r \in ParseReply(<<x, y>>)
  OBVIOUS
<1> HIDE DEF x, y
<1>3. /\ Len(<<x, y>>) # 1 /\ Len(<<x, y>>) > 1
      /\ Head(<<x, y>>) = x /\ <<x, y>>[2] = y
  OBVIOUS
<1>4. r \in {IF nil THEN [state |-> "error", len |-> 0] ELSE [state |-> "ok", len |-> 2]}
  BY <1>1, <1>2, <1>3 DEF ParseReply
<1> QED BY <1>4

\* RecvReply keeps Wires.
LEMMA RecvWires ==
    ASSUME Base, Wires, ~exposed', NEW s \in Sessions, RecvReply(s)
    PROVE  Wires'
<1> DEFINE c == lease[s]
           off == sendBufferParsedOffset[s]
           x == Piece(s, current(s), 1, FALSE, "server")
           y == Piece(s, current(s), 2, TRUE, "server")
           got(k) == SubSeq(fromServer[c], 1, k)
           left(k) == SubSeq(fromServer[c], k + 1, Len(fromServer[c]))
<1>1. /\ pc[s] = "recv" /\ SameReading
      /\ sendToRedisBytes' = sendToRedisBytes /\ toServer' = toServer /\ broken' = broken
  BY DEF RecvReply, SameReading
<1>2. PICK k \in 1..Len(fromServer[c]) :
        LET buff == sendBuff[s] \o got(k) IN
        /\ fromServer' = [fromServer EXCEPT ![c] = SubSeq(@, k + 1, Len(@))]
        /\ sendBuff' = [sendBuff EXCEPT ![s] = buff]
        /\ \E r \in ParseReply(Unparsed(buff, off)) :
            \/ /\ r.state = "ok"
               /\ sendBufferParsedOffset' = [sendBufferParsedOffset EXCEPT ![s] = @ + r.len]
               /\ UseCompleted(s)
            \/ /\ r.state = "incomplete"
               /\ UNCHANGED <<leaseVars, pc, sendBufferParsedOffset, exposed>>
  BY DEF RecvReply
<1> DEFINE buff == sendBuff[s] \o got(k)
           now == Unparsed(buff, off)
<1>3. Receiving(s)
  BY <1>1 DEF Wires, WireInv
<1>4. /\ x \in Pieces /\ y \in Pieces /\ current(s) \in Nat
      /\ toServer[c] = <<>> /\ sendToRedisBytes[s] = 0
      /\ \/ now = <<x, y>> /\ left(k) = <<>>
         \/ now = <<x>> /\ (left(k) = <<y>> \/ (broken[c] /\ left(k) = <<>>))
  <2>1. pc[s] = "recv"
    BY <1>1
  <2> DEFINE most == SubSeq(fromServer[c], 1, k)
             all == sendBuff[s] \o most
             here == Unparsed(all, off)
             over == SubSeq(fromServer[c], k + 1, Len(fromServer[c]))
  <2>2. /\ x \in Pieces /\ y \in Pieces /\ current(s) \in Nat
        /\ toServer[c] = <<>> /\ sendToRedisBytes[s] = 0
        /\ \/ here = <<x, y>> /\ over = <<>>
           \/ here = <<x>> /\ (over = <<y>> \/ (broken[c] /\ over = <<>>))
    BY <2>1, <1>3, ReceiveFacts
  <2>3. here = now /\ over = left(k)
    OBVIOUS
  <2> HIDE DEF here, over, now, left, x, y
  <2> QED BY <2>2, <2>3
<1>5. /\ c \in Connections /\ phase[s] = "granted" /\ buff \in Seq(Pieces)
  BY <1>1, RecvFacts
<1>6. /\ fromServer \in [Connections -> Seq(Pieces)] /\ sendBuff \in [Sessions -> Seq(Pieces)]
      /\ sendBufferParsedOffset \in [Sessions -> Nat]
  BY DEF Base, TypeInv
<1>7. fromServer'[c] = left(k) /\ \A d \in Connections \ {c} : fromServer'[d] = fromServer[d]
  BY <1>2, <1>5, <1>6
<1>8. sendBuff'[s] = buff /\ \A t \in Sessions \ {s} : sendBuff'[t] = sendBuff[t]
  BY <1>2, <1>6
<1>9. PICK r \in ParseReply(now) :
            \/ /\ r.state = "ok"
               /\ sendBufferParsedOffset' = [sendBufferParsedOffset EXCEPT ![s] = @ + r.len]
               /\ UseCompleted(s)
            \/ /\ r.state = "incomplete"
               /\ UNCHANGED <<leaseVars, pc, sendBufferParsedOffset, exposed>>
  BY <1>2
<1> HIDE DEF buff, got, left, now
<1>10. CASE /\ r.state = "ok"
            /\ sendBufferParsedOffset' = [sendBufferParsedOffset EXCEPT ![s] = @ + r.len]
            /\ UseCompleted(s)
  <2>1. now # <<x>>
    BY <1>4, <1>9, <1>10, ParseHalf
  <2>2. fromServer'[c] = <<>>
    BY <1>4, <1>7, <2>1
  <2>3. Release(s) /\ \A t \in Sessions : pc[t] = "line" /\ pc'[t] = "send" => Expose(t)
    BY <1>10, UseCompletedReleases, UseCompletedExposes
  <2>4. \A t \in Sessions \ {s} : sendBufferParsedOffset'[t] = sendBufferParsedOffset[t]
    BY <1>6, <1>10
  <2> QED BY <1>1, <1>4, <1>7, <1>8, <2>2, <2>3, <2>4, WireRelease
<1>11. CASE /\ r.state = "incomplete"
            /\ UNCHANGED <<leaseVars, pc, sendBufferParsedOffset, exposed>>
  <2>1. now # <<x, y>>
    <3> SUFFICES ASSUME now = <<x, y>> PROVE FALSE
      OBVIOUS
    <3>1. r.state = "error" \/ r.state = "ok"
      BY <1>4, <1>9, ParseWhole
    <3> QED BY <3>1, <1>11
  <2>2. now = <<x>> /\ (left(k) = <<y>> \/ (broken[c] /\ left(k) = <<>>))
    BY <1>4, <2>1
  <2>3. /\ current(s)' = current(s) /\ lease'[s] = c /\ pc'[s] = "recv"
        /\ sendBufferParsedOffset' = sendBufferParsedOffset
    BY <1>1, <1>11, ReadKept DEF leaseVars
  <2>4. rest(s)' = <<x>>
    BY <1>8, <2>2, <2>3 DEF rest, now
  <2>5. Receiving(s)'
    BY <1>1, <1>4, <1>7, <2>2, <2>3, <2>4 DEF Receiving
  <2>6. WireInv(s)'
    <3>1. pc'[s] # "send" /\ sendToRedisBytes'[s] = 0
      BY <1>1, <1>4, <2>3
    <3> QED BY <3>1, <2>5 DEF WireInv
  <2>7. ASSUME NEW t \in Sessions \ {s} PROVE WireInv(t)'
    <3>1. current(t)' = current(t) /\ Request(t)' = Request(t)
      BY <1>1, ReadKept
    <3>2. pc[t] \in {"send", "recv"} => lease[t] \in Connections \ {c}
      <4> SUFFICES ASSUME pc[t] \in {"send", "recv"} PROVE lease[t] \in Connections \ {c}
        OBVIOUS
      <4>1. lease[t] \in Connections
        BY DEF Base, StageInv, LeaseInv
      <4> QED BY <4>1, <1>1, OtherConnection
    <3>3. Quiet(t)
      BY <1>1, <1>7, <1>8, <1>11, <3>1, <3>2 DEF Quiet, leaseVars
    <3> QED BY <3>3, QuietKept DEF Wires
  <2>8. \A d \in Available' : Clean(d)'
    <3>1. \A d \in Available' : d \in Available /\ d \in Connections \ {c}
      BY <1>11, <2>3 DEF Available, leaseVars
    <3> QED BY <1>1, <1>7, <3>1 DEF Wires, Clean
  <2> QED BY <2>6, <2>7, <2>8 DEF Wires
<1> QED BY <1>9, <1>10, <1>11

\* One session moves, and neither takes a connection nor sends or receives.
LEMMA OneWires ==
    ASSUME Base, Wires, NEW s \in Sessions, WireInv(s)',
           UNCHANGED <<script, lease, toServer, fromServer, broken>>,
           \A t \in Sessions \ {s} :
                /\ pc'[t] = pc[t] /\ sendToRedisBytes'[t] = sendToRedisBytes[t]
                /\ sendBuff'[t] = sendBuff[t]
                /\ sendBufferParsedOffset'[t] = sendBufferParsedOffset[t]
                /\ recvBuff'[t] = recvBuff[t]
                /\ recvBufferParsedOffset'[t] = recvBufferParsedOffset[t]
    PROVE  Wires'
<1>1. ASSUME NEW t \in Sessions \ {s} PROVE WireInv(t)'
  <2>1. current(t)' = current(t)
    BY DEF current
  <2>2. Request(t)' = Request(t)
    BY <2>1 DEF Request, RequestPieces
  <2>3. Quiet(t)
    BY <2>1, <2>2 DEF Quiet
  <2> QED BY <2>3, QuietKept DEF Wires
<1>2. \A d \in Available' : Clean(d)'
  <2>1. Available' = Available
    BY DEF Available
  <2> QED BY <2>1 DEF Wires, Clean
<1> QED BY <1>1, <1>2 DEF Wires

\* The steps that leave the connections alone.
LEMMA IdleWires ==
    ASSUME Base, Wires, NEW s \in Sessions,
           \/ ReadFails(s) \/ WriteFails(s) \/ DispatchKey(s) \/ SelectNothing(s)
           \/ ReadRequest(s) \/ NextRequest(s) \/ WriteSome(s)
    PROVE  Wires'
<1>1. /\ UNCHANGED <<script, lease, sendBuff, sendBufferParsedOffset, sendToRedisBytes>>
      /\ UNCHANGED <<toServer, fromServer, broken>>
  BY DEF ReadFails, WriteFails, Close, DispatchKey, Ask, SelectNothing, Wait, ReadRequest,
     NextRequest, Parse, WriteSome, leaseVars, bufferVars, wireVars
<1>2. /\ pc[s] \notin {"send", "recv"} /\ pc'[s] \notin {"send", "recv"}
      /\ \A t \in Sessions \ {s} : pc'[t] = pc[t] /\ recvBuff'[t] = recvBuff[t]
           /\ recvBufferParsedOffset'[t] = recvBufferParsedOffset[t]
  <2>1. TypeInv
    BY DEF Base
  <2>2. pc \in [Sessions -> Stages] /\ recvBuff \in [Sessions -> Seq(Pieces)]
        /\ recvBufferParsedOffset \in [Sessions -> Nat]
    BY <2>1 DEF TypeInv
  <2>3. CASE ReadFails(s) \/ WriteFails(s)
    BY <2>2, <2>3 DEF ReadFails, WriteFails, Close, MayWrite, bufferVars
  <2>4. CASE DispatchKey(s) \/ SelectNothing(s) \/ WriteSome(s)
    BY <2>2, <2>4 DEF DispatchKey, SelectNothing, WriteSome, MayWrite, bufferVars
  <2>5. CASE ReadRequest(s)
    <3>1. PICK k \in 1..Len(toProxy(s)) :
            LET buff == recvBuff[s] \o SubSeq(toProxy(s), 1, k) IN
            recvBuff' = [recvBuff EXCEPT ![s] = buff] /\ Parse(s, buff)
      BY <2>5 DEF ReadRequest
    <3> DEFINE buff == recvBuff[s] \o SubSeq(toProxy(s), 1, k)
    <3>2. recvBuff' = [recvBuff EXCEPT ![s] = buff] /\ Parse(s, buff) /\ pc[s] = "read"
      BY <2>5, <3>1 DEF ReadRequest
    <3> HIDE DEF buff
    <3>3. Holds(buff, s) /\ recvBufferParsedOffset[s] < Len(buff)
      BY <2>5, ReadMore DEF buff
    <3>4. pc' = [pc EXCEPT ![s] = pc'[s]] /\ pc'[s] \in {"dispatch", "read", "closed"}
          /\ recvBufferParsedOffset' = [recvBufferParsedOffset EXCEPT ![s] = recvBufferParsedOffset'[s]]
      BY <3>2, <3>3, ParseFacts
    <3> QED BY <2>2, <3>2, <3>4
  <2>6. CASE NextRequest(s)
    <3>1. /\ pc[s] = "finish" /\ recvBuff' = recvBuff /\ Parse(s, recvBuff[s])
          /\ recvBufferParsedOffset[s] # Len(recvBuff[s])
      BY <2>6 DEF NextRequest
    <3>2. recvBufferParsedOffset[s] < Len(recvBuff[s])
      BY <3>1, SessionTypes DEF Base, ReadInv
    <3>3. pc' = [pc EXCEPT ![s] = pc'[s]] /\ pc'[s] \in {"dispatch", "read", "closed"}
          /\ recvBufferParsedOffset' = [recvBufferParsedOffset EXCEPT ![s] = recvBufferParsedOffset'[s]]
      BY <3>1, <3>2, HoldsRead, ParseFacts
    <3> QED BY <2>2, <3>1, <3>3
  <2> QED BY <2>3, <2>4, <2>5, <2>6
<1>3. WireInv(s)
  BY DEF Wires
<1>4. WireInv(s)'
  BY <1>1, <1>2, <1>3 DEF WireInv
<1> QED BY <1>1, <1>2, <1>4, OneWires

\* The proxy answers itself: sendBuff grows, and its end is not parsed.
LEMMA LocalReplyWires ==
    ASSUME Base, Wires, NEW s \in Sessions, DispatchLocal(s) \/ Refused(s) \/ TurnedAway(s)
    PROVE  Wires'
<1>1. /\ UNCHANGED <<script, lease, toServer, fromServer, broken>>
      /\ UNCHANGED <<recvBuff, recvBufferParsedOffset, sendBufferParsedOffset, sendToRedisBytes>>
      /\ Reply(s) /\ Finished(s)
  BY DEF DispatchLocal, Refused, Refuse, TurnedAway, TurnAway, leaseVars, wireVars
<1>2. pc[s] \in Busy
  BY TurnedAwayStage DEF DispatchLocal, Refused, Busy
<1>3. /\ \A t \in Sessions \ {s} : sendBuff'[t] = sendBuff[t]
      /\ Len(sendBuff'[s]) = Len(sendBuff[s]) + 1
  BY <1>1, <1>2, ReplyFacts
<1>4. sendBufferParsedOffset'[s] # Len(sendBuff'[s])
  BY <1>1, <1>3, SessionTypes DEF Base, SendInv
<1>5. pc'[s] = "finish" /\ \A t \in Sessions \ {s} : pc'[t] = pc[t]
  BY <1>1 DEF Finished, Base, TypeInv
<1>6. WireInv(s)'
  BY <1>4, <1>5, IdleWire
<1> QED BY <1>1, <1>3, <1>5, <1>6, OneWires

\* WriteRest keeps Wires: no connection is touched.
LEMMA WriteRestWires ==
    ASSUME Base, Wires, NEW s \in Sessions, WriteRest(s)
    PROVE  Wires'
<1>1. /\ recvBuff' = [recvBuff EXCEPT ![s] = <<>>]
      /\ sendBuff' = [sendBuff EXCEPT ![s] = <<>>]
      /\ recvBufferParsedOffset' = [recvBufferParsedOffset EXCEPT ![s] = 0]
      /\ sendBufferParsedOffset' = [sendBufferParsedOffset EXCEPT ![s] = 0]
      /\ sendToRedisBytes' = [sendToRedisBytes EXCEPT ![s] = 0]
      /\ pc' = [pc EXCEPT ![s] = "read"]
      /\ UNCHANGED <<script, lease>> /\ UNCHANGED <<toServer, fromServer, broken>>
  BY DEF WriteRest, Answer, leaseVars, wireVars
<1>2. pc'[s] = "read" /\ sendToRedisBytes'[s] = 0
  BY <1>1 DEF Base, TypeInv
<1>3. WireInv(s)'
  BY <1>2, IdleWire
<1>4. \A t \in Sessions \ {s} :
        /\ pc'[t] = pc[t] /\ sendToRedisBytes'[t] = sendToRedisBytes[t]
        /\ sendBuff'[t] = sendBuff[t]
        /\ sendBufferParsedOffset'[t] = sendBufferParsedOffset[t]
        /\ recvBuff'[t] = recvBuff[t]
        /\ recvBufferParsedOffset'[t] = recvBufferParsedOffset[t]
  BY <1>1 DEF Base, TypeInv
<1> QED BY <1>1, <1>3, <1>4, OneWires

\* A session gets a connection nobody held.
LEMMA SelectWires ==
    ASSUME Base, Wires, ~exposed', NEW s \in Sessions, SelectConnection(s)
    PROVE  Wires'
<1>1. PICK c \in Available : lease' = [lease EXCEPT ![s] = c]
  BY DEF SelectConnection, Grant
<1>2. /\ pc[s] = "select" /\ pc' = [pc EXCEPT ![s] = "send"] /\ Expose(s)
      /\ SameReading /\ UNCHANGED <<sendBuff, sendBufferParsedOffset, sendToRedisBytes>>
      /\ UNCHANGED <<toServer, fromServer, broken>>
  BY DEF SelectConnection, SameReading, bufferVars, wireVars
<1>3. /\ lease \in [Sessions -> Connections \union {NoConnection}] /\ pc \in [Sessions -> Stages]
      /\ sendToRedisBytes[s] \in 0..1
  BY SessionTypes DEF Base, LeaseInv, LeaseTypeOK, TypeInv
<1>4. /\ lease'[s] = c /\ pc'[s] = "send"
      /\ \A t \in Sessions \ {s} : lease'[t] = lease[t] /\ pc'[t] = pc[t]
  BY <1>1, <1>2, <1>3
<1>5. sendBufferParsedOffset[s] = Len(sendBuff[s])
  BY <1>2, Zenon DEF Expose
<1>6. sendToRedisBytes[s] = 0
  BY <1>2, <1>5 DEF Wires, WireInv
<1>7. Clean(c)
  BY DEF Wires
<1>8. Sending(s)'
  BY <1>2, <1>4, <1>5, <1>6, <1>7 DEF Sending, Clean
<1>9. WireInv(s)'
  BY <1>4, <1>8 DEF WireInv
<1>10. ASSUME NEW t \in Sessions \ {s} PROVE WireInv(t)'
  <2>1. current(t)' = current(t) /\ Request(t)' = Request(t)
    BY <1>2, ReadKept
  <2>2. Quiet(t)
    BY <1>2, <1>4, <2>1 DEF Quiet
  <2> QED BY <2>2, QuietKept DEF Wires
<1>11. ASSUME NEW d \in Available' PROVE Clean(d)'
  <2>1. d \in Connections /\ \A t \in Sessions : lease'[t] # d
    BY <1>11 DEF Available
  <2>2. lease[s] # d
    <3>1. phase[s] # "granted"
      BY <1>2 DEF Base, StageInv
    <3>2. lease[s] = NoConnection
      BY <3>1 DEF Base, LeaseInv
    <3> QED BY <2>1, <3>2, NoConnectionAssumption
  <2>3. d \in Available
    BY <1>4, <2>1, <2>2 DEF Available
  <2> QED BY <1>2, <2>3 DEF Wires, Clean
<1> QED BY <1>9, <1>10, <1>11 DEF Wires

\* Only the connection that s holds changes, and nothing of the others does.
LEMMA HolderWires ==
    ASSUME Base, Wires, NEW s \in Sessions, pc[s] \in {"send", "recv"}, WireInv(s)',
           SameReading, lease' = lease,
           \A d \in Connections \ {lease[s]} :
                toServer'[d] = toServer[d] /\ fromServer'[d] = fromServer[d] /\ broken'[d] = broken[d],
           \A t \in Sessions \ {s} :
                /\ pc'[t] = pc[t] /\ sendToRedisBytes'[t] = sendToRedisBytes[t]
                /\ sendBuff'[t] = sendBuff[t]
                /\ sendBufferParsedOffset'[t] = sendBufferParsedOffset[t]
    PROVE  Wires'
<1>1. ASSUME NEW t \in Sessions \ {s} PROVE WireInv(t)'
  <2>1. current(t)' = current(t) /\ Request(t)' = Request(t)
    BY ReadKept
  <2>2. pc[t] \in {"send", "recv"} => lease[t] \in Connections \ {lease[s]}
    <3> SUFFICES ASSUME pc[t] \in {"send", "recv"} PROVE lease[t] \in Connections \ {lease[s]}
      OBVIOUS
    <3>1. lease[t] \in Connections
      BY DEF Base, StageInv, LeaseInv
    <3> QED BY <3>1, OtherConnection
  <2>3. Quiet(t)
    BY <2>1, <2>2 DEF Quiet
  <2> QED BY <2>3, QuietKept DEF Wires
<1>2. \A d \in Available' : Clean(d)'
  <2>1. \A d \in Available' : d \in Available /\ d \in Connections \ {lease[s]}
    BY DEF Available
  <2> QED BY <2>1 DEF Wires, Clean
<1> QED BY <1>1, <1>2 DEF Wires

\* The pieces of the request a session forwards, and of its reply.
LEMMA HalfPieces ==
    ASSUME Base, NEW s \in Sessions, pc[s] \in {"send", "recv"}
    PROVE  LET a == Piece(s, current(s), 1, FALSE, "client")
               b == Piece(s, current(s), 2, TRUE, "client")
               x == Piece(s, current(s), 1, FALSE, "server")
               y == Piece(s, current(s), 2, TRUE, "server")
           IN  /\ a \in Pieces /\ b \in Pieces /\ x \in Pieces /\ y \in Pieces
               /\ Request(s) = <<a, b>> /\ Halves(s, current(s), "server") = <<x, y>>
<1>1. Request(s) = Halves(s, current(s), "client") /\ current(s) \in Nat
  BY RequestFacts DEF Busy
<1> QED BY <1>1 DEF Halves, Piece, Pieces

\* SendRequest keeps Wires.
LEMMA SendWires ==
    ASSUME Base, Wires, NEW s \in Sessions, SendRequest(s)
    PROVE  Wires'
<1> DEFINE c == lease[s]
           a == Piece(s, current(s), 1, FALSE, "client")
           b == Piece(s, current(s), 2, TRUE, "client")
           sent == sendToRedisBytes[s]
<1>1. pc[s] = "send" /\ c \in Connections
  BY SendFacts
<1>2. PICK n \in (sent + 1)..2 :
        /\ n \in {1, 2}
        /\ toServer' = [toServer EXCEPT ![c] =
              IF broken[c] THEN @ ELSE @ \o SubSeq(Request(s), sent + 1, n)]
        /\ sendToRedisBytes' = [sendToRedisBytes EXCEPT ![s] = IF n = 2 THEN 0 ELSE 1]
        /\ pc' = [pc EXCEPT ![s] = IF n = 2 THEN "recv" ELSE "send"]
  BY SendFacts
<1>3. /\ SameReading
      /\ UNCHANGED <<lease, sendBuff, sendBufferParsedOffset, fromServer, broken>>
  BY DEF SendRequest, SameReading, leaseVars
<1>4. a \in Pieces /\ b \in Pieces /\ Request(s) = <<a, b>>
  BY <1>1, HalfPieces
<1>5. /\ toServer \in [Connections -> Seq(Pieces)] /\ pc \in [Sessions -> Stages]
      /\ sendToRedisBytes \in [Sessions -> 0..1] /\ broken \in [Connections -> BOOLEAN]
  BY DEF Base, TypeInv
<1>6. /\ sendBufferParsedOffset[s] = Len(sendBuff[s]) /\ fromServer[c] = <<>>
      /\ toServer[c] = IF broken[c] \/ sent = 0 THEN <<>> ELSE <<a>>
  BY <1>1 DEF Wires, WireInv, Sending
<1>7. sent \in 0..1 /\ sent' = IF n = 2 THEN 0 ELSE 1
  BY <1>2, <1>5
<1>8. toServer'[c] = IF broken[c] THEN <<>> ELSE IF n = 2 THEN <<a, b>> ELSE <<a>>
  <2> DEFINE some == SubSeq(<<a, b>>, sent + 1, n)
  <2>1. toServer'[c] = IF broken[c] THEN toServer[c] ELSE toServer[c] \o some
    BY <1>1, <1>2, <1>4, <1>5
  <2> HIDE DEF a, b, c, sent
  <2>2. CASE sent = 0 /\ n = 1
    <3>1. sent + 1 = 1
      BY <2>2
    <3>2. some = SubSeq(<<a, b>>, 1, 1)
      BY <2>2, <3>1
    <3>3. some = <<a>> /\ <<>> \o <<a>> = <<a>>
      BY <3>2, <1>4, Pairs
    <3> HIDE DEF some
    <3> QED BY <2>1, <2>2, <3>3, <1>6
  <2>3. CASE sent = 0 /\ n = 2
    <3>1. sent + 1 = 1
      BY <2>3
    <3>2. some = SubSeq(<<a, b>>, 1, 2)
      BY <2>3, <3>1
    <3>3. some = <<a, b>> /\ <<>> \o <<a, b>> = <<a, b>>
      BY <3>2, <1>4, Pairs
    <3> HIDE DEF some
    <3> QED BY <2>1, <2>3, <3>3, <1>6
  <2>4. CASE sent = 1
    <3>1. n = 2 /\ sent + 1 = 2
      BY <2>4, <1>2
    <3>2. some = SubSeq(<<a, b>>, 2, 2)
      BY <3>1
    <3>3. some = <<b>> /\ <<a>> \o <<b>> = <<a, b>>
      BY <3>2, <1>4, Pairs
    <3>4. toServer[c] = IF broken[c] THEN <<>> ELSE <<a>>
      BY <2>4, <1>6
    <3> HIDE DEF some
    <3>5. CASE broken[c]
      BY <2>1, <3>4, <3>5
    <3>6. CASE ~broken[c]
      BY <2>1, <3>1, <3>3, <3>4, <3>6
    <3> QED BY <3>5, <3>6
  <2> QED BY <2>2, <2>3, <2>4, <1>2, <1>7
<1>9. /\ \A d \in Connections \ {c} : toServer'[d] = toServer[d]
      /\ \A t \in Sessions \ {s} :
            pc'[t] = pc[t] /\ sendToRedisBytes'[t] = sendToRedisBytes[t]
      /\ pc'[s] = IF n = 2 THEN "recv" ELSE "send"
  BY <1>1, <1>2, <1>5
<1>10. current(s)' = current(s) /\ Request(s)' = <<a, b>>
  BY <1>3, <1>4, ReadKept
<1>11. rest(s)' = <<>>
  <2>1. rest(s)' = SubSeq(sendBuff[s], Len(sendBuff[s]) + 1, Len(sendBuff[s]))
    BY <1>3, <1>6 DEF rest, Unparsed
  <2>2. sendBuff[s] \in Seq(Pieces) /\ Len(sendBuff[s]) \in Nat
    BY SessionTypes
  <2>3. Len(sendBuff[s]) < Len(sendBuff[s]) + 1
    BY <2>2
  <2> QED BY <2>1, <2>2, <2>3, SubSeqEmpty
<1>12. WireInv(s)'
  <2>1. CASE n = 1
    <3>1. Sending(s)'
      BY <2>1, <1>3, <1>6, <1>7, <1>8, <1>10 DEF Sending
    <3> QED BY <2>1, <3>1, <1>9 DEF WireInv
  <2>2. CASE n = 2
    <3>1. Receiving(s)'
      <4>1. /\ sendToRedisBytes'[s] = 0 /\ lease'[s] = c /\ fromServer'[c] = <<>> /\ broken' = broken
        BY <2>2, <1>3, <1>6, <1>7
      <4>2. CASE broken[c]
        <5>1. toServer'[c] = <<>>
          BY <4>2, <1>8
        <5> QED BY <4>1, <4>2, <5>1, <1>11 DEF Receiving
      <4>3. CASE ~broken[c]
        <5>1. toServer'[c] = <<a, b>>
          BY <4>3, <2>2, <1>8
        <5>2. toServer'[c] = Request(s)'
          BY <5>1, <1>10
        <5> QED BY <4>1, <4>3, <5>2, <1>11 DEF Receiving
      <4> QED BY <4>2, <4>3
    <3> QED BY <2>2, <3>1, <1>7, <1>9 DEF WireInv
  <2> QED BY <1>2, <2>1, <2>2
<1> QED BY <1>1, <1>3, <1>9, <1>12, HolderWires

-----------------------------------------------------------------------------
(* The server's steps.                                                     *)

\* A connection nobody holds stays empty.
LEMMA FreeServer ==
    ASSUME Base, Wires, NEW c \in Connections, Server(c), \A s \in Sessions : lease[s] # c
    PROVE  Wires'
<1>1. toServer[c] = <<>> /\ fromServer[c] = <<>> /\ c \in Available
  BY DEF Available, Wires, Clean
<1>2. UNCHANGED <<leaseVars, script, sessionVars, exposed>>
  BY DEF Server, ServerReplies, ServerRejects, ServerFails
<1>3. ServerFails(c)
  BY <1>1 DEF Server, ServerReplies, ServerRejects, WholeAtHead
<1>4. PICK k \in 0..Len(fromServer[c]) : fromServer' = [fromServer EXCEPT ![c] = SubSeq(@, 1, k)]
  BY <1>3 DEF ServerFails
<1>5. TypeInv
  BY DEF Base
<1>6. /\ toServer' = [toServer EXCEPT ![c] = <<>>] /\ broken' = [broken EXCEPT ![c] = TRUE]
  BY <1>3 DEF ServerFails
<1>7. fromServer'[c] = <<>> /\ toServer'[c] = <<>>
  <2>1. k = 0
    BY <1>1
  <2>2. SubSeq(fromServer[c], 1, 0) = <<>>
    <3>1. <<>> \in Seq(Pieces) /\ 0 < 1
      OBVIOUS
    <3> QED BY <3>1, <1>1, SubSeqEmpty
  <2> QED BY <2>1, <2>2, <1>4, <1>5, <1>6 DEF TypeInv
<1>8. \A d \in Connections \ {c} :
        toServer'[d] = toServer[d] /\ fromServer'[d] = fromServer[d] /\ broken'[d] = broken[d]
  BY <1>4, <1>5, <1>6 DEF TypeInv
<1>9. SameReading /\ UNCHANGED <<lease, pc, sendBuff, sendBufferParsedOffset, sendToRedisBytes>>
  BY <1>2 DEF SameReading, sessionVars, bufferVars, leaseVars
<1>10. ASSUME NEW t \in Sessions PROVE WireInv(t)'
  <2>1. current(t)' = current(t) /\ Request(t)' = Request(t)
    BY <1>9, ReadKept
  <2>2. pc[t] \in {"send", "recv"} => lease[t] \in Connections \ {c}
    BY DEF Base, StageInv, LeaseInv
  <2>3. Quiet(t)
    BY <1>8, <1>9, <2>1, <2>2 DEF Quiet
  <2> QED BY <2>3, QuietKept DEF Wires
<1>11. \A d \in Available' : Clean(d)'
  <2>1. Available' = Available
    BY <1>9 DEF Available
  <2> QED BY <2>1, <1>7, <1>8 DEF Wires, Clean, Available
<1> QED BY <1>10, <1>11 DEF Wires

\* The connection of a session that sends or receives.
LEMMA HeldServer ==
    ASSUME Base, Wires, NEW s \in Sessions, pc[s] \in {"send", "recv"}, Server(lease[s])
    PROVE  Wires'
<1> DEFINE c == lease[s]
           a == Piece(s, current(s), 1, FALSE, "client")
           b == Piece(s, current(s), 2, TRUE, "client")
           x == Piece(s, current(s), 1, FALSE, "server")
           y == Piece(s, current(s), 2, TRUE, "server")
<1>1. c \in Connections
  BY DEF Base, StageInv, LeaseInv
<1>2. UNCHANGED <<leaseVars, script, sessionVars, exposed>>
  BY DEF Server, ServerReplies, ServerRejects, ServerFails
<1>3. SameReading /\ UNCHANGED <<lease, pc, sendBuff, sendBufferParsedOffset, sendToRedisBytes>>
  BY <1>2 DEF SameReading, sessionVars, bufferVars, leaseVars
<1>4. /\ a \in Pieces /\ b \in Pieces /\ x \in Pieces /\ y \in Pieces
      /\ Request(s) = <<a, b>> /\ Halves(s, current(s), "server") = <<x, y>>
  BY HalfPieces
<1>5. /\ toServer \in [Connections -> Seq(Pieces)] /\ fromServer \in [Connections -> Seq(Pieces)]
      /\ broken \in [Connections -> BOOLEAN]
  BY DEF Base, TypeInv
<1>6. current(s)' = current(s) /\ Request(s)' = Request(s) /\ rest(s)' = rest(s)
  BY <1>3, ReadKept DEF rest
<1>7. /\ a.part = 1 /\ a.src = s /\ a.n = current(s)
      /\ Len(<<a, b>>) = 2 /\ Head(<<a, b>>) = a /\ Len(<<a>>) = 1 /\ Head(<<a>>) = a
      /\ Len(<<>>) = 0 /\ <<a, b>> # <<>> /\ <<a>> # <<>>
  BY DEF Piece
<1>8. /\ pc[s] = "send" => toServer[c] \in {<<>>, <<a>>}
      /\ pc[s] = "recv" => toServer[c] \in {<<>>, <<a, b>>}
  BY <1>4 DEF Wires, WireInv, Sending, Receiving
<1>9. WireInv(s)'
  <2> HIDE DEF a, b, x, y, c
  <2>1. CASE ServerReplies(c)
    <3>1. ~broken[c] /\ Len(toServer[c]) >= 2
      BY <2>1 DEF ServerReplies, WholeAtHead
    <3>2. pc[s] = "recv" /\ toServer[c] = <<a, b>>
      <4>1. toServer[c] # <<>>
        <5> SUFFICES ASSUME toServer[c] = <<>> PROVE FALSE
          OBVIOUS
        <5>1. Len(toServer[c]) = 0
          OBVIOUS
        <5> QED BY <5>1, <3>1
      <4>2. toServer[c] # <<a>>
        <5> SUFFICES ASSUME toServer[c] = <<a>> PROVE FALSE
          OBVIOUS
        <5>1. Len(toServer[c]) = 1
          OBVIOUS
        <5> QED BY <5>1, <3>1
      <4> QED BY <4>1, <4>2, <1>8
    <3>3. fromServer[c] = <<>> /\ rest(s) = <<>> /\ sendToRedisBytes[s] = 0
      BY <3>2, <1>7 DEF Wires, WireInv, Receiving, c
    <3>4. Head(toServer[c]) = a
      BY <3>2, <1>7
    <3>5. /\ fromServer' = [fromServer EXCEPT ![c] = @ \o Halves(a.src, a.n, "server")]
          /\ toServer' = [toServer EXCEPT ![c] = SubSeq(@, 3, Len(@))] /\ broken' = broken
      BY <2>1, <3>4 DEF ServerReplies
    <3>6. fromServer'[c] = <<x, y>>
      <4>1. <<>> \o <<x, y>> = <<x, y>>
        BY <1>4, Pairs
      <4>2. fromServer'[c] = <<>> \o Halves(s, current(s), "server")
        BY <3>3, <3>5, <1>1, <1>5, <1>7 DEF c
      <4> QED BY <4>1, <4>2, <1>4
    <3>7. toServer'[c] = <<>>
      <4>1. SubSeq(<<a, b>>, 3, 2) = <<>>
        BY <1>4, Pairs
      <4>2. toServer'[c] = SubSeq(<<a, b>>, 3, 2)
        BY <3>2, <3>5, <1>1, <1>5, <1>7 DEF c
      <4> QED BY <4>1, <4>2
    <3>8. Receiving(s)'
      BY <3>3, <3>6, <3>7, <1>3, <1>6 DEF Receiving, c, x, y
    <3> QED BY <3>2, <3>3, <3>8, <1>3 DEF WireInv
  <2>2. CASE ServerRejects(c)
    <3>1. toServer[c] # <<>> /\ Head(toServer[c]).part = 2
      BY <2>2 DEF ServerRejects
    <3> QED BY <3>1, <1>7, <1>8
  <2>3. CASE ServerFails(c)
    <3>1. PICK k \in 0..Len(fromServer[c]) : fromServer' = [fromServer EXCEPT ![c] = SubSeq(@, 1, k)]
      BY <2>3 DEF ServerFails
    <3>2. /\ toServer' = [toServer EXCEPT ![c] = <<>>] /\ broken' = [broken EXCEPT ![c] = TRUE]
          /\ ~broken[c]
      BY <2>3 DEF ServerFails
    <3>3. toServer'[c] = <<>> /\ broken'[c] /\ fromServer'[c] = SubSeq(fromServer[c], 1, k)
      BY <3>1, <3>2, <1>1, <1>5 DEF c
    <3>4. SubSeq(<<>>, 1, 0) = <<>>
      <4>1. <<>> \in Seq(Pieces) /\ 0 < 1
        OBVIOUS
      <4> QED BY <4>1, SubSeqEmpty
    <3>5. fromServer[c] = <<>> => fromServer'[c] = <<>>
      <4> SUFFICES ASSUME fromServer[c] = <<>> PROVE fromServer'[c] = <<>>
        OBVIOUS
      <4>1. k = 0
        OBVIOUS
      <4> QED BY <4>1, <3>3, <3>4
    <3>6. CASE pc[s] = "send"
      <4>1. Sending(s)
        BY <3>6 DEF Wires, WireInv
      <4>2. Sending(s)'
        BY <3>3, <3>5, <4>1, <1>3, <1>6 DEF Sending, c
      <4> QED BY <3>6, <4>2, <1>3 DEF WireInv
    <3>7. CASE pc[s] = "recv"
      <4>1. /\ sendToRedisBytes[s] = 0
            /\ \/ rest(s) = <<>> /\ fromServer[c] = <<>>
               \/ rest(s) = <<>> /\ fromServer[c] = <<x, y>>
               \/ rest(s) = <<x>> /\ fromServer[c] = <<y>>
        BY <3>2, <3>7 DEF Wires, WireInv, Receiving, c, x, y
      <4>2. \/ rest(s) = <<>> /\ fromServer'[c] \in {<<>>, <<x>>, <<x, y>>}
            \/ rest(s) = <<x>> /\ fromServer'[c] \in {<<>>, <<y>>}
        <5>1. CASE rest(s) = <<>> /\ fromServer[c] = <<>>
          BY <5>1, <3>5
        <5>2. CASE rest(s) = <<>> /\ fromServer[c] = <<x, y>>
          <6>1. k = 0 \/ k = 1 \/ k = 2
            BY <5>2
          <6>2. /\ SubSeq(<<x, y>>, 1, 0) = <<>> /\ SubSeq(<<x, y>>, 1, 1) = <<x>>
                /\ SubSeq(<<x, y>>, 1, 2) = <<x, y>>
            BY <1>4, Pairs
          <6>3. fromServer'[c] = SubSeq(<<x, y>>, 1, k)
            BY <5>2, <3>3
          <6>4. fromServer'[c] \in {<<>>, <<x>>, <<x, y>>}
            BY <6>1, <6>2, <6>3
          <6> QED BY <5>2, <6>4
        <5>3. CASE rest(s) = <<x>> /\ fromServer[c] = <<y>>
          <6>1. k = 0 \/ k = 1
            BY <5>3
          <6>2. SubSeq(<<y>>, 1, 0) = <<>> /\ SubSeq(<<y>>, 1, 1) = <<y>>
            <7>1. SubSeq(<<y>>, 1, 1) = <<y>>
              BY <1>4, Pairs
            <7>2. <<y>> \in Seq(Pieces) /\ 0 < 1
              BY <1>4
            <7>3. SubSeq(<<y>>, 1, 0) = <<>>
              BY <7>2, SubSeqEmpty
            <7> QED BY <7>1, <7>3
          <6>3. fromServer'[c] = SubSeq(<<y>>, 1, k)
            BY <5>3, <3>3
          <6>4. fromServer'[c] \in {<<>>, <<y>>}
            BY <6>1, <6>2, <6>3
          <6> QED BY <5>3, <6>4
        <5> QED BY <4>1, <5>1, <5>2, <5>3
      <4>3. Receiving(s)'
        BY <3>3, <4>1, <4>2, <1>3, <1>6 DEF Receiving, c, x, y
      <4> QED BY <3>7, <4>1, <4>3, <1>3 DEF WireInv
    <3> QED BY <3>6, <3>7
  <2> QED BY <2>1, <2>2, <2>3 DEF Server, c
<1>10. \A d \in Connections \ {c} :
        toServer'[d] = toServer[d] /\ fromServer'[d] = fromServer[d] /\ broken'[d] = broken[d]
  BY <1>1, <1>5 DEF Server, ServerReplies, ServerRejects, ServerFails
<1> QED BY <1>3, <1>9, <1>10, HolderWires

\* While no session is exposed, the bytes stay where they belong.
LEMMA NextWires == ASSUME Base, Wires, [Next]_vars, ~exposed' PROVE Wires'
<1>1. CASE UNCHANGED vars
  <2>1. UNCHANGED <<lease, pc, sendBuff, sendBufferParsedOffset, sendToRedisBytes,
                    toServer, fromServer, broken>> /\ SameReading
    BY <1>1 DEF vars, leaseVars, sessionVars, bufferVars, wireVars, SameReading
  <2>2. ASSUME NEW t \in Sessions PROVE WireInv(t)'
    <3>1. current(t)' = current(t) /\ Request(t)' = Request(t)
      BY <2>1, ReadKept
    <3>2. Quiet(t)
      BY <2>1, <3>1 DEF Quiet
    <3> QED BY <3>2, QuietKept DEF Wires
  <2>3. \A d \in Available' : Clean(d)'
    <3>1. Available' = Available
      BY <2>1 DEF Available
    <3> QED BY <2>1, <3>1 DEF Wires, Clean
  <2> QED BY <2>2, <2>3 DEF Wires
<1>2. ASSUME NEW s \in Sessions, SessionStep(s) PROVE Wires'
  <2>1. CASE RefusedReply(s)
    BY <2>1 DEF RefusedReply
  <2> QED BY <1>2, <2>1, IdleWires, LocalReplyWires, SelectWires, SendWires, FailsWires,
             RecvWires, WriteRestWires DEF SessionStep, Runs
<1>3. ASSUME NEW c \in Connections, Server(c) PROVE Wires'
  <2>1. CASE \A s \in Sessions : lease[s] # c
    BY <1>3, <2>1, FreeServer
  <2>2. CASE \E s \in Sessions : lease[s] = c
    <3>1. PICK s \in Sessions : lease[s] = c
      BY <2>2
    <3>2. pc[s] \in {"send", "recv"}
      BY <1>3, <3>1, HolderSends
    <3> QED BY <1>3, <3>1, <3>2, HeldServer
  <2> QED BY <2>1, <2>2
<1> QED BY <1>1, <1>2, <1>3 DEF Next

\* Wires holds at the start.
LEMMA InitWires == ASSUME Init PROVE Wires
<1>1. \A s \in Sessions : pc[s] = "read" /\ sendToRedisBytes[s] = 0
  BY DEF Init
<1>2. \A s \in Sessions : WireInv(s)
  BY <1>1 DEF WireInv
<1>3. \A c \in Available : Clean(c)
  BY DEF Init, Clean, Available
<1> QED BY <1>2, <1>3 DEF Wires

\* What the property says of a session that holds a connection.
LEMMA HolderBytes ==
    ASSUME Base, Wires, NEW s \in Sessions, phase[s] = "granted"
    PROVE  /\ IsPrefix(toServer[lease[s]], Request(s))
           /\ ToSet(fromServer[lease[s]]) \subseteq ToSet(Halves(s, current(s), "server"))
<1> DEFINE c == lease[s]
           a == Piece(s, current(s), 1, FALSE, "client")
           b == Piece(s, current(s), 2, TRUE, "client")
           x == Piece(s, current(s), 1, FALSE, "server")
           y == Piece(s, current(s), 2, TRUE, "server")
<1>1. pc[s] \in {"send", "recv"}
  BY DEF Base, StageInv
<1>2. /\ a \in Pieces /\ b \in Pieces /\ x \in Pieces /\ y \in Pieces
      /\ Request(s) = <<a, b>> /\ Halves(s, current(s), "server") = <<x, y>>
  BY <1>1, HalfPieces
<1>3. /\ toServer[c] \in {<<>>, <<a>>, <<a, b>>}
      /\ fromServer[c] \in {<<>>, <<x>>, <<y>>, <<x, y>>}
  BY <1>1, <1>2 DEF Wires, WireInv, Sending, Receiving
<1> HIDE DEF a, b, x, y, c
<1>4. IsPrefix(toServer[c], <<a, b>>)
  <2>1. CASE toServer[c] = <<>>
    <3>1. /\ <<>> \in Seq(Pieces) /\ <<a, b>> \in Seq(Pieces) /\ 0 < 1
          /\ Len(<<>>) = 0 /\ Len(<<a, b>>) = 2
      BY <1>2
    <3>2. SubSeq(<<>>, 1, 0) = <<>> /\ SubSeq(<<a, b>>, 1, 0) = <<>>
      BY <3>1, SubSeqEmpty
    <3>3. 0 <= Len(<<a, b>>)
      BY <3>1
    <3> QED BY <2>1, <3>1, <3>2, <3>3 DEF IsPrefix
  <2>2. CASE toServer[c] = <<a>>
    <3>1. Len(<<a>>) = 1 /\ 1 <= Len(<<a, b>>)
      OBVIOUS
    <3>2. SubSeq(<<a>>, 1, 1) = <<a>> /\ SubSeq(<<a, b>>, 1, 1) = <<a>>
      BY <1>2, Pairs
    <3> QED BY <2>2, <3>1, <3>2 DEF IsPrefix
  <2>3. CASE toServer[c] = <<a, b>>
    <3>1. Len(<<a, b>>) <= Len(<<a, b>>)
      OBVIOUS
    <3> QED BY <2>3, <3>1 DEF IsPrefix
  <2> QED BY <1>3, <2>1, <2>2, <2>3
<1>5. ToSet(fromServer[c]) \subseteq ToSet(<<x, y>>)
  <2>1. \A i \in DOMAIN fromServer[c] : fromServer[c][i] \in {x, y}
    BY <1>3
  <2>2. <<x, y>>[1] = x /\ <<x, y>>[2] = y /\ 1 \in DOMAIN <<x, y>> /\ 2 \in DOMAIN <<x, y>>
    OBVIOUS
  <2>3. x \in ToSet(<<x, y>>) /\ y \in ToSet(<<x, y>>)
    BY <2>2 DEF ToSet
  <2>4. \A p \in ToSet(fromServer[c]) : \E i \in DOMAIN fromServer[c] : p = fromServer[c][i]
    BY DEF ToSet
  <2> QED BY <2>1, <2>3, <2>4
<1> QED BY <1>2, <1>4, <1>5 DEF c

\* Wires says what OwnBytes does.
LEMMA WiresOwnBytes == ASSUME Base, ~exposed => Wires PROVE OwnBytes
BY HolderBytes DEF OwnBytes, Wires, Clean

-----------------------------------------------------------------------------

\* The state of the sessions has its types, positions lie within their buffers,
\* and the stage of a session agrees with its phase at the servant.
THEOREM SessionTypesHold == Spec => []TypeOK
<1>1. Init => Base
  BY InitBase
<1>2. Base /\ [Next]_vars => Base'
  BY NextBase
<1>3. Base => TypeOK
  BY BaseTypeOK
<1> QED BY <1>1, <1>2, <1>3, PTL DEF Spec

\* A connection nobody has been lent is empty in both directions, and one that
\* is lent carries bytes of its holder's current request only.
THEOREM BytesOfTheHolder == Spec => []OwnBytes
<1> DEFINE WInv == Base /\ (~exposed => Wires)
<1>1. Init => WInv
  BY InitBase, InitWires
<1>2. WInv /\ [Next]_vars => WInv'
  <2> SUFFICES ASSUME WInv, [Next]_vars PROVE WInv'
    OBVIOUS
  <2>1. Base'
    BY NextBase
  <2>2. ~exposed' => Wires'
    BY ExposedStays, NextWires
  <2> QED BY <2>1, <2>2
<1>3. WInv => OwnBytes
  BY WiresOwnBytes
<1> QED BY <1>1, <1>2, <1>3, PTL DEF Spec

-----------------------------------------------------------------------------
(* The replies in a buffer.                                                *)

\* q holds the replies to the requests m + 1 to n of s, in order and none left
\* out, and the beginning of one more if half.
Replies(q, s, m, n, half) ==
    /\ \A i \in 1..Len(q) : /\ q[i].src = s /\ m < q[i].n
                            /\ q[i].n <= IF half THEN n + 1 ELSE n
    /\ \A i \in 1..Len(q) :
        q[i].n = IF i = 1 THEN m + 1
                 ELSE IF q[i - 1].last THEN q[i - 1].n + 1 ELSE q[i - 1].n
    /\ \A i, j \in 1..Len(q) : i < j => q[i].n <= q[j].n /\ (q[i].last => q[i].n < q[j].n)
    /\ \A k \in (m + 1)..n : \E i \in 1..Len(q) : q[i].last /\ q[i].n = k
    /\ IF half THEN Len(q) > 0 /\ q[Len(q)].n = n + 1 /\ ~q[Len(q)].last
       ELSE IF Len(q) = 0 THEN m = n ELSE q[Len(q)].n = n /\ q[Len(q)].last

\* One more piece, of the request that is next.
LEMMA OneMore ==
    ASSUME NEW q \in Seq(Pieces), NEW p \in Pieces, NEW s, NEW m \in Nat, NEW n \in Nat,
           NEW half \in BOOLEAN, Replies(q, s, m, n, half),
           p.src = s, p.n = n + 1, ~p.last => ~half
    PROVE  Replies(Append(q, p), s, m, IF p.last THEN n + 1 ELSE n, ~p.last)
<1> DEFINE d == Append(q, p)
           l == Len(q)
           e == IF p.last THEN n + 1 ELSE n
<1>1. l \in Nat /\ \A i \in 1..l : q[i] \in Pieces /\ q[i].n \in Nat /\ q[i].last \in BOOLEAN
  <2>1. l \in Nat /\ \A i \in 1..l : q[i] \in Pieces
    OBVIOUS
  <2>2. \A x \in Pieces : x.n \in Nat /\ x.last \in BOOLEAN
    BY DEF Pieces
  <2> QED BY <2>1, <2>2
<1>2. p.last \in BOOLEAN /\ p.n \in Nat
  BY DEF Pieces
<1>3. /\ d \in Seq(Pieces) /\ Len(d) = l + 1 /\ d[l + 1] = p
      /\ \A i \in 1..l : d[i] = q[i]
  BY AppendProperties
<1>4. /\ \A i \in 1..l : q[i].src = s /\ m < q[i].n /\ q[i].n <= IF half THEN n + 1 ELSE n
      /\ \A i \in 1..l :
            q[i].n = IF i = 1 THEN m + 1
                     ELSE IF q[i - 1].last THEN q[i - 1].n + 1 ELSE q[i - 1].n
      /\ \A i, j \in 1..l : i < j => q[i].n <= q[j].n /\ (q[i].last => q[i].n < q[j].n)
      /\ \A k \in (m + 1)..n : \E i \in 1..l : q[i].last /\ q[i].n = k
      /\ IF half THEN l > 0 /\ q[l].n = n + 1 /\ ~q[l].last
         ELSE IF l = 0 THEN m = n ELSE q[l].n = n /\ q[l].last
  BY DEF Replies
<1> HIDE DEF d, l
<1>5. l = 0 \/ l \in 1..l
  BY <1>1
<1>6. m <= n
  BY <1>1, <1>4, <1>5
<1>7. \A i \in 1..(l + 1) : i \in 1..l \/ i = l + 1
  BY <1>1
<1>8. \A i \in 1..(l + 1) : /\ d[i].src = s /\ m < d[i].n /\ d[i].n <= n + 1
  <2> SUFFICES ASSUME NEW i \in 1..(l + 1)
               PROVE  d[i].src = s /\ m < d[i].n /\ d[i].n <= n + 1
    OBVIOUS
  <2>1. CASE i \in 1..l
    <3>1. d[i] = q[i] /\ q[i].src = s /\ m < q[i].n /\ q[i].n \in Nat
      BY <2>1, <1>1, <1>3, <1>4
    <3>2. CASE half
      BY <2>1, <3>1, <3>2, <1>4
    <3>3. CASE ~half
      BY <2>1, <3>1, <3>3, <1>4
    <3> QED BY <3>1, <3>2, <3>3
  <2>2. CASE i = l + 1
    BY <2>2, <1>3, <1>6
  <2> QED BY <2>1, <2>2, <1>7
<1>9. \A i \in 1..(l + 1) :
        d[i].n = IF i = 1 THEN m + 1 ELSE IF d[i - 1].last THEN d[i - 1].n + 1 ELSE d[i - 1].n
  <2> SUFFICES ASSUME NEW i \in 1..(l + 1)
               PROVE  d[i].n = IF i = 1 THEN m + 1
                               ELSE IF d[i - 1].last THEN d[i - 1].n + 1 ELSE d[i - 1].n
    OBVIOUS
  <2>1. CASE i \in 1..l
    <3>1. d[i] = q[i] /\ (i # 1 => d[i - 1] = q[i - 1])
      BY <2>1, <1>1, <1>3
    <3> QED BY <2>1, <3>1, <1>4
  <2>2. CASE i = l + 1
    <3>1. CASE l = 0
      <4>1. i = 1 /\ ~half /\ m = n
        BY <2>2, <3>1, <1>4
      <4> QED BY <2>2, <4>1, <1>3
    <3>2. CASE l \in 1..l
      <4>1. i # 1 /\ i - 1 = l /\ d[i - 1] = q[l] /\ d[i] = p
        BY <2>2, <3>2, <1>1, <1>3
      <4>2. IF q[l].last THEN q[l].n + 1 = n + 1 ELSE q[l].n = n + 1
        BY <3>2, <1>1, <1>4
      <4> QED BY <4>1, <4>2
    <3> QED BY <3>1, <3>2, <1>5
  <2> QED BY <2>1, <2>2, <1>7
<1>10. \A i, j \in 1..(l + 1) : i < j => d[i].n <= d[j].n /\ (d[i].last => d[i].n < d[j].n)
  <2> SUFFICES ASSUME NEW i \in 1..(l + 1), NEW j \in 1..(l + 1), i < j
               PROVE  d[i].n <= d[j].n /\ (d[i].last => d[i].n < d[j].n)
    OBVIOUS
  <2>1. i \in 1..l /\ d[i] = q[i]
    BY <1>1, <1>3
  <2>2. CASE j \in 1..l
    BY <2>1, <2>2, <1>3, <1>4
  <2>3. CASE j = l + 1
    <3>1. d[j] = p /\ q[i].n <= n + 1
      BY <2>1, <2>3, <1>1, <1>3, <1>4
    <3>2. q[i].last => q[i].n < n + 1
      <4> SUFFICES ASSUME q[i].last PROVE q[i].n < n + 1
        OBVIOUS
      <4>1. CASE half
        <5>1. l \in 1..l /\ q[l].n = n + 1 /\ ~q[l].last
          BY <4>1, <1>1, <1>4
        <5>2. i < l
          BY <2>1, <5>1, <1>1
        <5> QED BY <2>1, <5>1, <5>2, <1>4
      <4>2. CASE ~half
        BY <2>1, <4>2, <1>1, <1>4
      <4> QED BY <4>1, <4>2
    <3> QED BY <2>1, <3>1, <3>2
  <2> QED BY <2>2, <2>3, <1>7
<1>11. \A k \in (m + 1)..e : \E i \in 1..(l + 1) : d[i].last /\ d[i].n = k
  <2> SUFFICES ASSUME NEW k \in (m + 1)..e PROVE \E i \in 1..(l + 1) : d[i].last /\ d[i].n = k
    OBVIOUS
  <2>1. CASE k \in (m + 1)..n
    <3>1. PICK i \in 1..l : q[i].last /\ q[i].n = k
      BY <2>1, <1>4
    <3>2. i \in 1..(l + 1)
      BY <1>1
    <3> QED BY <3>1, <3>2, <1>3
  <2>2. CASE k \notin (m + 1)..n
    <3>1. p.last /\ k = n + 1 /\ l + 1 \in 1..(l + 1)
      BY <2>2, <1>1
    <3> QED BY <3>1, <1>3
  <2> QED BY <2>1, <2>2
<1>12. \A i \in 1..(l + 1) : d[i].n <= IF ~p.last THEN e + 1 ELSE e
  BY <1>8
<1>13. IF ~p.last THEN Len(d) > 0 /\ d[Len(d)].n = e + 1 /\ ~d[Len(d)].last
       ELSE IF Len(d) = 0 THEN m = e ELSE d[Len(d)].n = e /\ d[Len(d)].last
  BY <1>1, <1>3
<1> HIDE DEF e
<1>14. Replies(d, s, m, e, ~p.last)
  BY <1>3, <1>8, <1>9, <1>10, <1>11, <1>12, <1>13 DEF Replies
<1> QED BY <1>14 DEF d, e

-----------------------------------------------------------------------------
(* The invariant, third part: sendBuff has the replies to the requests of  *)
(* the batch, and with what the client was sent before it has all of them. *)

\* The last request that was answered in an earlier batch, and the last one
\* that has its whole reply.
base(s) == IF done[s] = 0 THEN 0 ELSE Stream(s)[done[s]].n
complete(s) == IF pc[s] \in Busy THEN parsed(s) - 1 ELSE parsed(s)

\* The beginning of a reply has been received.
halfway(s) == pc[s] = "recv" /\ rest(s) # <<>>

\* All that the client is sent, the end of it still in sendBuff.
output(s) == toClient[s] \o Unparsed(sendBuff[s], sendBytes[s])

Answered(s) ==
    /\ Replies(sendBuff[s], s, base(s), complete(s), halfway(s))
    /\ Replies(output(s), s, 0, complete(s), halfway(s))

\* The numbers of requests are numbers.
LEMMA NumberTypes ==
    ASSUME Base, NEW s \in Sessions
    PROVE  /\ base(s) \in Nat /\ parsed(s) \in Nat /\ complete(s) \in Nat
           /\ halfway(s) \in BOOLEAN
           /\ pc[s] \in Busy => complete(s) + 1 = parsed(s) /\ current(s) = parsed(s)
<1>1. /\ done[s] \in Nat /\ recvBufferParsedOffset[s] \in Nat /\ parsedEnd(s) \in Nat
      /\ Len(recvBuff[s]) \in Nat /\ Len(Stream(s)) \in Nat /\ script \in Workloads
  BY SessionTypes
<1>2. parsedEnd(s) <= Len(Stream(s)) /\ done[s] <= Len(Stream(s))
  BY <1>1 DEF Base, ReadInv, parsedEnd
<1>3. \A i \in 1..Len(Stream(s)) : Stream(s)[i].n \in Nat
  <2>1. Stream(s) \in Seq(Pieces)
    BY SessionTypes
  <2>2. \A i \in 1..Len(Stream(s)) : Stream(s)[i] \in Pieces
    BY <2>1
  <2>3. \A p \in Pieces : p.n \in Nat
    BY DEF Pieces
  <2> QED BY <2>2, <2>3
<1>4. base(s) \in Nat
  BY <1>1, <1>2, <1>3 DEF base
<1>5. parsed(s) \in Nat
  BY <1>1, <1>2, <1>3 DEF parsed
<1>6. halfway(s) \in BOOLEAN
  BY DEF halfway
<1>7. pc[s] \in Busy => parsed(s) \in 1..Len(script[s]) /\ current(s) = parsed(s)
  BY CurrentFacts
<1> QED BY <1>4, <1>5, <1>6, <1>7 DEF complete

\* More in sendBuff is more in the output.
LEMMA OutputMore ==
    ASSUME Base, NEW s \in Sessions, NEW r \in Seq(Pieces),
           sendBuff'[s] = sendBuff[s] \o r, toClient'[s] = toClient[s], sendBytes'[s] = sendBytes[s]
    PROVE  /\ output(s) \in Seq(Pieces)
           /\ output(s)' = output(s) \o r
<1> DEFINE q == sendBuff[s]
           b == sendBytes[s]
           u == Unparsed(q, b)
<1>1. /\ q \in Seq(Pieces) /\ b \in 0..Len(q) /\ toClient[s] \in Seq(Pieces)
      /\ Len(q) \in Nat /\ b \in Nat
  BY SessionTypes DEF Base, SendInv
<1>2. u \in Seq(Pieces)
  <2>1. Len(q) \in 0..Len(q)
    BY <1>1
  <2> QED BY <2>1, <1>1, Cut DEF Unparsed
<1>3. Unparsed(q \o r, b) = u \o r
  BY <1>1, UnparsedMore
<1>4. output(s) = toClient[s] \o u
  BY DEF output
<1>5. output(s)' = toClient[s] \o (u \o r)
  <2>1. output(s)' = toClient'[s] \o Unparsed(sendBuff'[s], sendBytes'[s])
    BY DEF output, Unparsed
  <2> QED BY <2>1, <1>3
<1> DEFINE c == toClient[s]
<1> HIDE DEF u
<1>6. c \o (u \o r) = (c \o u) \o r
  <2>1. c \in Seq(Pieces) /\ u \in Seq(Pieces) /\ r \in Seq(Pieces)
    BY <1>1, <1>2
  <2> HIDE DEF c
  <2>2. (c \o u) \o r = c \o (u \o r)
    BY <2>1, ConcatAssociative
  <2> QED BY <2>2
<1>7. toClient[s] \o u \in Seq(Pieces)
  BY <1>1, <1>2, Join
<1> QED BY <1>4, <1>5, <1>6, <1>7

\* The session gets one piece more.
LEMMA AnswerMore ==
    ASSUME Base, NEW s \in Sessions, Answered(s), NEW p \in Pieces,
           p.src = s, p.n = complete(s) + 1, ~p.last => ~halfway(s),
           sendBuff'[s] = Append(sendBuff[s], p),
           toClient'[s] = toClient[s], sendBytes'[s] = sendBytes[s],
           base(s)' = base(s),
           complete(s)' = (IF p.last THEN complete(s) + 1 ELSE complete(s)),
           halfway(s)' = ~p.last
    PROVE  Answered(s)'
<1>1. /\ base(s) \in Nat /\ complete(s) \in Nat /\ halfway(s) \in BOOLEAN /\ 0 \in Nat
      /\ sendBuff[s] \in Seq(Pieces) /\ <<p>> \in Seq(Pieces)
  BY NumberTypes, SessionTypes
<1>2. sendBuff'[s] = sendBuff[s] \o <<p>>
  BY <1>1, AppendIsConcat
<1>3. output(s) \in Seq(Pieces) /\ output(s)' = output(s) \o <<p>>
  BY <1>1, <1>2, OutputMore
<1>4. output(s)' = Append(output(s), p)
  BY <1>3, AppendIsConcat
<1>5. Replies(sendBuff'[s], s, base(s)', complete(s)', halfway(s)')
  BY <1>1, OneMore DEF Answered
<1>6. Replies(output(s)', s, 0, complete(s)', halfway(s)')
  BY <1>1, <1>3, <1>4, OneMore DEF Answered
<1>7. Answered(s)' <=> /\ Replies(sendBuff'[s], s, base(s)', complete(s)', halfway(s)')
                       /\ Replies(output(s)', s, 0, complete(s)', halfway(s)')
  BY DEF Answered, Replies
<1> QED BY <1>5, <1>6, <1>7

\* The session gets no more, and what it has begun is as it was.
LEMMA AnsweredSame ==
    ASSUME NEW t \in Sessions, Answered(t), sendBuff'[t] = sendBuff[t],
           output(t)' = output(t), base(t)' = base(t), complete(t)' = complete(t),
           halfway(t)' = halfway(t)
    PROVE  Answered(t)'
BY DEF Answered, Replies

\* The values of a session on which its replies depend.
Settled(t) ==
    /\ script' = script /\ done'[t] = done[t]
    /\ recvBufferParsedOffset'[t] = recvBufferParsedOffset[t]
    /\ sendBuff'[t] = sendBuff[t] /\ sendBytes'[t] = sendBytes[t] /\ toClient'[t] = toClient[t]
    /\ sendBufferParsedOffset'[t] = sendBufferParsedOffset[t]
    /\ pc'[t] \in Busy <=> pc[t] \in Busy
    /\ pc'[t] = "recv" <=> pc[t] = "recv"

\* A session whose replies are settled keeps them.
LEMMA SettledKept == ASSUME NEW t \in Sessions, Answered(t), Settled(t) PROVE Answered(t)'
<1>1. Stream(t)' = Stream(t) /\ parsedEnd(t)' = parsedEnd(t)
  BY DEF Settled, Stream, parsedEnd
<1>2. parsed(t)' = parsed(t) /\ base(t)' = base(t)
  BY <1>1 DEF Settled, parsed, base
<1>3. rest(t)' = rest(t) /\ output(t)' = output(t)
  BY DEF Settled, rest, output, Unparsed
<1>4. complete(t)' = complete(t)
  BY <1>2 DEF Settled, complete
<1>5. halfway(t)' = halfway(t)
  BY <1>3 DEF Settled, halfway
<1> QED BY <1>2, <1>3, <1>4, <1>5, AnsweredSame DEF Settled

\* Steps that add nothing to any reply.
LEMMA MovesAnswered ==
    ASSUME Base, NEW t \in Sessions, Answered(t),
           \/ UNCHANGED vars
           \/ \E c \in Connections : Server(c)
           \/ \E s \in Sessions : \/ ReadFails(s) \/ WriteFails(s) \/ DispatchKey(s)
                                  \/ SelectConnection(s) \/ SelectNothing(s)
    PROVE  Answered(t)'
<1>1. CASE UNCHANGED vars
  <2>1. Settled(t)
    BY <1>1 DEF Settled, vars, sessionVars, bufferVars
  <2> QED BY <2>1, SettledKept
<1>2. ASSUME NEW c \in Connections, Server(c) PROVE Answered(t)'
  <2>1. UNCHANGED <<script, sessionVars>>
    BY <1>2 DEF Server, ServerReplies, ServerRejects, ServerFails
  <2>2. Settled(t)
    BY <2>1 DEF Settled, sessionVars, bufferVars
  <2> QED BY <2>2, SettledKept
<1>3. ASSUME NEW s \in Sessions, ReadFails(s) \/ WriteFails(s) \/ DispatchKey(s)
                                 \/ SelectConnection(s) \/ SelectNothing(s)
      PROVE  Answered(t)'
  <2>1. UNCHANGED <<script, done, bufferVars, toClient>>
    BY <1>3 DEF ReadFails, WriteFails, Close, DispatchKey, SelectConnection, SelectNothing
  <2>2. pc \in [Sessions -> Stages]
    BY DEF Base, TypeInv
  <2>3. (pc'[t] \in Busy <=> pc[t] \in Busy) /\ (pc'[t] = "recv" <=> pc[t] = "recv")
    <3>1. CASE ReadFails(s) \/ WriteFails(s)
      BY <2>2, <3>1 DEF ReadFails, WriteFails, Close, MayWrite, Busy
    <3>2. CASE DispatchKey(s)
      BY <2>2, <3>2 DEF DispatchKey, Busy
    <3>3. CASE SelectConnection(s) \/ SelectNothing(s)
      BY <2>2, <3>3 DEF SelectConnection, SelectNothing, Busy
    <3> QED BY <1>3, <3>1, <3>2, <3>3
  <2>4. Settled(t)
    BY <2>1, <2>3 DEF Settled, bufferVars
  <2> QED BY <2>4, SettledKept
<1> QED BY <1>1, <1>2, <1>3

\* A request is parsed, and waits for its reply.
LEMMA ParseAnswered ==
    ASSUME Base, NEW t \in Sessions, Answered(t), NEW s \in Sessions, NEW buff, Holds(buff, s),
           recvBufferParsedOffset[s] < Len(buff), Parse(s, buff), pc[s] \in {"read", "finish"}
    PROVE  Answered(t)'
<1>1. /\ recvBufferParsedOffset' = [recvBufferParsedOffset EXCEPT ![s] = recvBufferParsedOffset'[s]]
      /\ pc' = [pc EXCEPT ![s] = pc'[s]]
      /\ LET e == done[s] + recvBufferParsedOffset'[s] IN
         \/ /\ pc'[s] = "dispatch"
            /\ e \in 1..Len(Stream(s)) /\ Stream(s)[e].n = parsed(s) + 1
         \/ /\ pc'[s] \in {"read", "closed"}
            /\ recvBufferParsedOffset'[s] = recvBufferParsedOffset[s]
  BY ParseFacts
<1>2. UNCHANGED <<script, done, sendBuff, sendBufferParsedOffset, sendBytes, toClient>>
  BY DEF Parse
<1>3. recvBufferParsedOffset \in [Sessions -> Nat] /\ pc \in [Sessions -> Stages]
  BY DEF Base, TypeInv
<1>4. CASE t # s
  <2>1. Settled(t)
    BY <1>1, <1>2, <1>3, <1>4 DEF Settled
  <2> QED BY <2>1, SettledKept
<1>5. CASE t = s /\ pc'[s] \in {"read", "closed"}
                 /\ recvBufferParsedOffset'[s] = recvBufferParsedOffset[s]
  <2>1. Settled(t)
    BY <1>2, <1>5 DEF Settled, Busy
  <2> QED BY <2>1, SettledKept
<1>6. CASE t = s /\ pc'[s] = "dispatch"
  <2> DEFINE e == done[s] + recvBufferParsedOffset'[s]
  <2>1. e \in 1..Len(Stream(s)) /\ Stream(s)[e].n = parsed(s) + 1
    BY <1>1, <1>6
  <2>2. Stream(s)' = Stream(s) /\ parsedEnd(s)' = e
    BY <1>2 DEF Stream, parsedEnd
  <2> HIDE DEF e
  <2>3. parsed(s)' = parsed(s) + 1
    BY <2>1, <2>2 DEF parsed
  <2>4. complete(s)' = complete(s)
    BY <2>3, <1>6, NumberTypes DEF complete, Busy
  <2>5. halfway(s)' = halfway(s)
    BY <1>6 DEF halfway
  <2>6. base(s)' = base(s) /\ output(s)' = output(s)
    BY <2>2, <1>2 DEF base, output, Unparsed
  <2> QED BY <2>4, <2>5, <2>6, <1>2, <1>6, AnsweredSame
<1> QED BY <1>1, <1>4, <1>5, <1>6

\* A session that gets a reply from the proxy is finished.
LEMMA ProxyAnswered ==
    ASSUME Base, NEW s \in Sessions, Answered(s), pc[s] \in Busy, Reply(s), SameReading,
           pc'[s] = "finish", toClient'[s] = toClient[s], sendBytes'[s] = sendBytes[s]
    PROVE  Answered(s)'
<1> DEFINE p == Piece(s, current(s), 1, TRUE, "proxy")
<1>1. p \in Pieces /\ sendBuff'[s] = Append(sendBuff[s], p)
  BY ReplyFacts
<1>2. p.src = s /\ p.n = current(s) /\ p.last = TRUE
  BY DEF Piece
<1>3. p.n = complete(s) + 1 /\ parsed(s) = complete(s) + 1
  BY <1>2, NumberTypes
<1>4. Stream(s)' = Stream(s) /\ parsed(s)' = parsed(s) /\ done'[s] = done[s]
  BY ReadKept DEF SameReading
<1>5. base(s)' = base(s)
  BY <1>4 DEF base
<1>6. complete(s)' = complete(s) + 1
  BY <1>3, <1>4 DEF complete, Busy
<1>7. halfway(s)' = FALSE
  BY DEF halfway
<1> HIDE DEF p
<1>8. complete(s)' = (IF p.last THEN complete(s) + 1 ELSE complete(s)) /\ halfway(s)' = ~p.last
      /\ (~p.last => ~halfway(s))
  BY <1>2, <1>6, <1>7
<1> QED BY <1>1, <1>2, <1>3, <1>5, <1>8, AnswerMore

\* Who takes a connection over, and who has nothing to do with it.
LEMMA OthersSettled ==
    ASSUME Base, NEW s \in Sessions, Release(s), SameReading, NEW t \in Sessions \ {s}, Answered(t),
           sendBuff'[t] = sendBuff[t], sendBytes'[t] = sendBytes[t], toClient'[t] = toClient[t],
           sendBufferParsedOffset'[t] = sendBufferParsedOffset[t]
    PROVE  Answered(t)'
<1>1. \/ pc'[t] = pc[t]
      \/ pc[t] = "line" /\ pc'[t] = "send"
  BY ReleaseFacts
<1>2. Settled(t)
  BY <1>1 DEF Settled, SameReading, Busy
<1> QED BY <1>2, SettledKept

\* A reply of the proxy's own keeps Answered.
LEMMA LocalReplyAnswered ==
    ASSUME Base, NEW t \in Sessions, Answered(t), NEW s \in Sessions,
           DispatchLocal(s) \/ Refused(s) \/ TurnedAway(s)
    PROVE  Answered(t)'
<1>1. /\ Reply(s) /\ Finished(s) /\ SameReading
      /\ UNCHANGED <<sendBufferParsedOffset, sendBytes, toClient>>
  BY DEF DispatchLocal, Refused, TurnedAway, SameReading
<1>2. pc[s] \in Busy
  BY TurnedAwayStage DEF DispatchLocal, Refused, Busy
<1>3. pc'[s] = "finish" /\ \A r \in Sessions \ {s} : pc'[r] = pc[r]
  BY <1>1 DEF Finished, Base, TypeInv
<1>4. CASE t = s
  BY <1>1, <1>2, <1>3, <1>4, ProxyAnswered
<1>5. CASE t # s
  <2>1. sendBuff'[t] = sendBuff[t]
    BY <1>1, <1>2, <1>5, ReplyFacts
  <2>2. Settled(t)
    BY <2>1, <1>1, <1>3, <1>5 DEF Settled, SameReading
  <2> QED BY <2>2, SettledKept
<1> QED BY <1>4, <1>5

\* SendFails and RecvFails keep Answered: the proxy's error ends the reply, after
\* what the server sent of it.
LEMMA FailsAnswered ==
    ASSUME Base, NEW t \in Sessions, Answered(t), NEW s \in Sessions, SendFails(s) \/ RecvFails(s)
    PROVE  Answered(t)'
<1>1. /\ pc[s] \in {"send", "recv"} /\ Repair(s) /\ Reply(s) /\ SameReading
      /\ UNCHANGED <<sendBufferParsedOffset, sendBytes, toClient>>
  BY DEF SendFails, RecvFails, SameReading
<1>2. phase[s] = "granted" /\ pc[s] \in Busy
  BY <1>1 DEF Base, StageInv, Busy
<1>3. Release(s)
  BY <1>1, <1>2, RepairFacts
<1>4. CASE t = s
  <2>1. pc'[s] = "finish"
    BY <1>3, ReleaseFacts
  <2> QED BY <2>1, <1>1, <1>2, <1>4, ProxyAnswered
<1>5. CASE t # s
  <2>1. sendBuff'[t] = sendBuff[t]
    BY <1>1, <1>2, <1>5, ReplyFacts
  <2> QED BY <2>1, <1>1, <1>3, <1>5, OthersSettled
<1> QED BY <1>4, <1>5

\* The request goes out: nothing of the reply is there yet.
LEMMA SendAnswered ==
    ASSUME Base, Wires, NEW t \in Sessions, Answered(t), NEW s \in Sessions, SendRequest(s)
    PROVE  Answered(t)'
<1>1. /\ SameReading /\ UNCHANGED <<sendBuff, sendBufferParsedOffset, sendBytes, toClient>>
  BY DEF SendRequest, SameReading
<1>2. pc[s] = "send" /\ pc'[s] \in {"send", "recv"} /\ \A r \in Sessions \ {s} : pc'[r] = pc[r]
  <2>1. PICK n \in (sendToRedisBytes[s] + 1)..2 :
            pc' = [pc EXCEPT ![s] = IF n = 2 THEN "recv" ELSE "send"]
    BY SendFacts
  <2> QED BY <2>1, SendFacts DEF Base, TypeInv
<1>3. CASE t # s
  <2>1. Settled(t)
    BY <1>1, <1>2, <1>3 DEF Settled, SameReading
  <2> QED BY <2>1, SettledKept
<1>4. CASE t = s
  <2>1. sendBufferParsedOffset[s] = Len(sendBuff[s])
    BY <1>2 DEF Wires, WireInv, Sending
  <2>2. rest(s)' = <<>>
    <3>1. rest(s)' = SubSeq(sendBuff[s], Len(sendBuff[s]) + 1, Len(sendBuff[s]))
      BY <1>1, <2>1 DEF rest, Unparsed
    <3>2. Len(sendBuff[s]) \in Nat
      BY SessionTypes
    <3>3. Len(sendBuff[s]) < Len(sendBuff[s]) + 1
      BY <3>2
    <3> QED BY <3>1, <3>2, <3>3, SubSeqEmpty
  <2>3. halfway(s)' = halfway(s)
    BY <1>2, <2>2 DEF halfway
  <2>4. Stream(s)' = Stream(s) /\ parsed(s)' = parsed(s) /\ done'[s] = done[s]
    BY <1>1, ReadKept DEF SameReading
  <2>5. base(s)' = base(s) /\ complete(s)' = complete(s)
    BY <1>2, <2>4 DEF base, complete, Busy
  <2>6. output(s)' = output(s)
    BY <1>1 DEF output, Unparsed
  <2> QED BY <1>1, <1>4, <2>3, <2>5, <2>6, AnsweredSame
<1> QED BY <1>3, <1>4

-----------------------------------------------------------------------------
(* Receiving.                                                              *)

\* Both halves of a reply, one after the other.
LEMMA TwoMore ==
    ASSUME Base, NEW s \in Sessions, Answered(s), NEW x \in Pieces, NEW y \in Pieces,
           x.src = s, x.n = complete(s) + 1, ~x.last, y.src = s, y.n = complete(s) + 1, y.last,
           ~halfway(s),
           sendBuff'[s] = sendBuff[s] \o <<x, y>>,
           toClient'[s] = toClient[s], sendBytes'[s] = sendBytes[s],
           base(s)' = base(s), complete(s)' = complete(s) + 1, halfway(s)' = FALSE
    PROVE  Answered(s)'
<1>1. /\ base(s) \in Nat /\ complete(s) \in Nat /\ halfway(s) \in BOOLEAN /\ 0 \in Nat
      /\ sendBuff[s] \in Seq(Pieces) /\ <<x, y>> \in Seq(Pieces)
  BY NumberTypes, SessionTypes
<1>2. output(s) \in Seq(Pieces) /\ output(s)' = output(s) \o <<x, y>>
  BY <1>1, OutputMore
<1>3. ASSUME NEW q \in Seq(Pieces), NEW m \in Nat, Replies(q, s, m, complete(s), halfway(s))
      PROVE  Replies(q \o <<x, y>>, s, m, complete(s) + 1, FALSE)
  <2> DEFINE one == Append(q, x)
             two == Append(one, y)
  <2>1. ~(x.last) /\ x.last \in BOOLEAN /\ y.last \in BOOLEAN
    BY DEF Pieces
  <2>2. one \in Seq(Pieces) /\ two \in Seq(Pieces)
    BY AppendProperties
  <2>3. Replies(one, s, m, complete(s), TRUE)
    <3>1. Replies(Append(q, x), s, m, IF x.last THEN complete(s) + 1 ELSE complete(s), ~x.last)
      BY <1>1, <1>3, OneMore
    <3> QED BY <3>1, <2>1 DEF Replies
  <2> HIDE DEF one
  <2>4. Replies(two, s, m, complete(s) + 1, FALSE)
    <3>1. Replies(Append(one, y), s, m, IF y.last THEN complete(s) + 1 ELSE complete(s), ~y.last)
      BY <1>1, <2>2, <2>3, OneMore
    <3> QED BY <3>1, <2>1 DEF Replies
  <2>5. two = q \o <<x, y>>
    <3>1. one = q \o <<x>>
      BY AppendIsConcat DEF one
    <3>2. two = one \o <<y>>
      BY <2>2, AppendIsConcat
    <3>3. <<x>> \in Seq(Pieces) /\ <<y>> \in Seq(Pieces) /\ <<x>> \o <<y>> = <<x, y>>
      BY Pairs
    <3> DEFINE a == <<x>>
               b == <<y>>
    <3>4. a \in Seq(Pieces) /\ b \in Seq(Pieces) /\ one = q \o a /\ two = one \o b /\ a \o b = <<x, y>>
      BY <3>1, <3>2, <3>3
    <3> HIDE DEF a, b, two
    <3>5. (q \o a) \o b = q \o (a \o b)
      <4>1. q \in Seq(Pieces) /\ a \in Seq(Pieces) /\ b \in Seq(Pieces)
        BY <3>4
      <4> QED BY <4>1, ConcatAssociative
    <3> QED BY <3>4, <3>5
  <2> HIDE DEF two
  <2> QED BY <2>4, <2>5
<1>4. Replies(sendBuff'[s], s, base(s)', complete(s)', halfway(s)')
  <2>1. Replies(sendBuff[s] \o <<x, y>>, s, base(s), complete(s) + 1, FALSE)
    BY <1>1, <1>3 DEF Answered
  <2> QED BY <2>1
<1>5. Replies(output(s)', s, 0, complete(s)', halfway(s)')
  <2>1. Replies(output(s) \o <<x, y>>, s, 0, complete(s) + 1, FALSE)
    BY <1>1, <1>2, <1>3 DEF Answered
  <2> QED BY <2>1, <1>2
<1>6. Answered(s)' <=> /\ Replies(sendBuff'[s], s, base(s)', complete(s)', halfway(s)')
                       /\ Replies(output(s)', s, 0, complete(s)', halfway(s)')
  BY DEF Answered, Replies
<1> QED BY <1>4, <1>5, <1>6

\* RecvReply keeps Answered.
LEMMA RecvAnswered ==
    ASSUME Base, Wires, NEW t \in Sessions, Answered(t), NEW s \in Sessions, RecvReply(s)
    PROVE  Answered(t)'
<1> DEFINE c == lease[s]
           off == sendBufferParsedOffset[s]
           x == Piece(s, current(s), 1, FALSE, "server")
           y == Piece(s, current(s), 2, TRUE, "server")
<1>1. /\ pc[s] = "recv" /\ SameReading /\ UNCHANGED <<sendBytes, toClient>>
  BY DEF RecvReply, SameReading
<1>2. PICK k \in 1..Len(fromServer[c]) :
        LET buff == sendBuff[s] \o SubSeq(fromServer[c], 1, k) IN
        /\ sendBuff' = [sendBuff EXCEPT ![s] = buff]
        /\ \E r \in ParseReply(Unparsed(buff, off)) :
            \/ /\ r.state = "ok"
               /\ sendBufferParsedOffset' = [sendBufferParsedOffset EXCEPT ![s] = @ + r.len]
               /\ UseCompleted(s)
            \/ /\ r.state = "incomplete"
               /\ UNCHANGED <<leaseVars, pc, sendBufferParsedOffset, exposed>>
  BY DEF RecvReply
<1> DEFINE more == SubSeq(fromServer[c], 1, k)
           buff == sendBuff[s] \o more
           now == Unparsed(buff, off)
<1>3. Receiving(s)
  BY <1>1 DEF Wires, WireInv
<1>4. /\ x \in Pieces /\ y \in Pieces /\ current(s) \in Nat
      /\ \/ now = <<x, y>> /\ ((rest(s) = <<>> /\ more = <<x, y>>) \/ (rest(s) = <<x>> /\ more = <<y>>))
         \/ now = <<x>> /\ rest(s) = <<>> /\ more = <<x>>
  <2>1. pc[s] = "recv"
    BY <1>1
  <2> DEFINE left == SubSeq(fromServer[c], k + 1, Len(fromServer[c]))
  <2>2. /\ x \in Pieces /\ y \in Pieces /\ current(s) \in Nat
        /\ \/ now = <<x, y>> /\ left = <<>>
              /\ ((rest(s) = <<>> /\ more = <<x, y>>) \/ (rest(s) = <<x>> /\ more = <<y>>))
           \/ now = <<x>> /\ rest(s) = <<>> /\ more = <<x>>
              /\ (left = <<y>> \/ (broken[c] /\ left = <<>>))
    BY <2>1, <1>3, ReceiveFacts
  <2> HIDE DEF now, more, left, x, y
  <2> QED BY <2>2
<1>5. PICK r \in ParseReply(now) :
            \/ /\ r.state = "ok"
               /\ sendBufferParsedOffset' = [sendBufferParsedOffset EXCEPT ![s] = @ + r.len]
               /\ UseCompleted(s)
            \/ /\ r.state = "incomplete"
               /\ UNCHANGED <<leaseVars, pc, sendBufferParsedOffset, exposed>>
  BY <1>2
<1>6. /\ sendBuff \in [Sessions -> Seq(Pieces)] /\ sendBufferParsedOffset \in [Sessions -> Nat]
      /\ sendBuff[s] \in Seq(Pieces)
  BY DEF Base, TypeInv
<1>7. sendBuff'[s] = buff /\ \A d \in Sessions \ {s} : sendBuff'[d] = sendBuff[d]
  BY <1>2, <1>6
<1>8. /\ x.src = s /\ x.n = current(s) /\ ~x.last /\ x.last = FALSE
      /\ y.src = s /\ y.n = current(s) /\ y.last /\ y.last = TRUE
  BY DEF Piece
<1>9. /\ current(s) = complete(s) + 1 /\ parsed(s) = complete(s) + 1 /\ complete(s) \in Nat
      /\ halfway(s) \in BOOLEAN
  BY <1>1, NumberTypes DEF Busy
<1>10. Stream(s)' = Stream(s) /\ parsed(s)' = parsed(s) /\ done'[s] = done[s]
  BY <1>1, ReadKept DEF SameReading
<1>11. base(s)' = base(s)
  BY <1>10 DEF base
<1>12. rest(s)' = Unparsed(buff, sendBufferParsedOffset'[s])
  BY <1>7 DEF rest, Unparsed
<1>13. toClient'[s] = toClient[s] /\ sendBytes'[s] = sendBytes[s]
  BY <1>1
<1>14. buff = sendBuff[s] \o more /\ (now = <<x>> => Unparsed(buff, off) = <<x>>)
  OBVIOUS
<1> HIDE DEF now, more, x, y
<1>15. more = <<y>> => buff = Append(sendBuff[s], y)
  <2> SUFFICES ASSUME more = <<y>> PROVE buff = Append(sendBuff[s], y)
    OBVIOUS
  <2>1. Append(sendBuff[s], y) = sendBuff[s] \o <<y>>
    BY <1>4, <1>6, AppendIsConcat
  <2> QED BY <2>1
<1>16. more = <<x>> => buff = Append(sendBuff[s], x)
  <2> SUFFICES ASSUME more = <<x>> PROVE buff = Append(sendBuff[s], x)
    OBVIOUS
  <2>1. Append(sendBuff[s], x) = sendBuff[s] \o <<x>>
    BY <1>4, <1>6, AppendIsConcat
  <2> QED BY <2>1
<1> HIDE DEF buff
<1>17. CASE /\ r.state = "ok"
            /\ sendBufferParsedOffset' = [sendBufferParsedOffset EXCEPT ![s] = @ + r.len]
            /\ UseCompleted(s)
  <2>1. now # <<x>>
    <3> SUFFICES ASSUME now = <<x>> PROVE FALSE
      OBVIOUS
    <3> QED BY <1>4, <1>5, <1>17, ParseHalf DEF x
  <2>2. Release(s)
    BY <1>17, UseCompletedReleases
  <2>3. CASE t # s
    <3>1. sendBufferParsedOffset'[t] = sendBufferParsedOffset[t]
      BY <2>3, <1>6, <1>17
    <3> QED BY <2>2, <2>3, <3>1, <1>1, <1>7, OthersSettled
  <2>4. CASE t = s
    <3>1. pc'[s] = "finish"
      BY <2>2, ReleaseFacts
    <3>2. complete(s)' = complete(s) + 1 /\ halfway(s)' = FALSE
      BY <3>1, <1>9, <1>10 DEF complete, halfway, Busy
    <3>3. CASE rest(s) = <<>> /\ more = <<x, y>>
      <4>1. ~halfway(s)
        BY <3>3 DEF halfway
      <4>2. sendBuff'[s] = sendBuff[s] \o <<x, y>>
        BY <3>3, <1>7, <1>14
      <4>3. Answered(s)
        BY <2>4
      <4>4. x.n = complete(s) + 1 /\ y.n = complete(s) + 1
        BY <1>8, <1>9
      <4> QED BY <2>4, <3>2, <4>1, <4>2, <4>3, <4>4, <1>4, <1>8, <1>11, <1>13, TwoMore
    <3>4. CASE rest(s) = <<x>> /\ more = <<y>>
      <4>1. sendBuff'[s] = Append(sendBuff[s], y)
        BY <3>4, <1>7, <1>15
      <4>2. complete(s)' = (IF y.last THEN complete(s) + 1 ELSE complete(s)) /\ halfway(s)' = ~y.last
            /\ (~y.last => ~halfway(s))
        BY <3>2, <1>8
      <4>3. Answered(s) /\ y.n = complete(s) + 1
        BY <2>4, <1>8, <1>9
      <4> QED BY <2>4, <4>1, <4>2, <4>3, <1>4, <1>8, <1>11, <1>13, AnswerMore
    <3> QED BY <2>1, <3>3, <3>4, <1>4
  <2> QED BY <2>3, <2>4
<1>18. CASE /\ r.state = "incomplete"
            /\ UNCHANGED <<leaseVars, pc, sendBufferParsedOffset, exposed>>
  <2>1. now # <<x, y>>
    <3> SUFFICES ASSUME now = <<x, y>> PROVE FALSE
      OBVIOUS
    <3>1. r.state = "error" \/ r.state = "ok"
      BY <1>4, <1>5, ParseWhole DEF x, y
    <3> QED BY <3>1, <1>18
  <2>2. now = <<x>> /\ rest(s) = <<>> /\ more = <<x>>
    BY <1>4, <2>1
  <2>3. CASE t # s
    <3>1. Settled(t)
      BY <2>3, <1>1, <1>7, <1>18 DEF Settled, SameReading
    <3> QED BY <3>1, SettledKept
  <2>4. CASE t = s
    <3>1. sendBuff'[s] = Append(sendBuff[s], x)
      BY <2>2, <1>7, <1>16
    <3>2. complete(s)' = complete(s)
      BY <1>10, <1>18 DEF complete
    <3>3. rest(s)' = <<x>>
      BY <2>2, <1>12, <1>14, <1>18
    <3>4. <<x>> # <<>>
      OBVIOUS
    <3>5. halfway(s)' = TRUE /\ ~halfway(s)
      BY <2>2, <3>3, <3>4, <1>1, <1>18 DEF halfway
    <3>6. complete(s)' = (IF x.last THEN complete(s) + 1 ELSE complete(s)) /\ halfway(s)' = ~x.last
          /\ (~x.last => ~halfway(s))
      BY <3>2, <3>5, <1>8
    <3>7. Answered(s) /\ x.n = complete(s) + 1
      BY <2>4, <1>8, <1>9
    <3> QED BY <2>4, <3>1, <3>6, <3>7, <1>4, <1>8, <1>11, <1>13, AnswerMore
  <2> QED BY <2>3, <2>4
<1> QED BY <1>5, <1>17, <1>18

-----------------------------------------------------------------------------
(* Writing.                                                                *)

\* What is written moves from sendBuff to the client: the output is the same.
LEMMA WriteSomeAnswered ==
    ASSUME Base, NEW t \in Sessions, Answered(t), NEW s \in Sessions, WriteSome(s)
    PROVE  Answered(t)'
<1> DEFINE q == sendBuff[s]
           b == sendBytes[s]
           l == Len(q)
<1>1. /\ SameReading /\ pc' = [pc EXCEPT ![s] = "write"] /\ MayWrite(s)
      /\ UNCHANGED <<sendBuff, sendBufferParsedOffset>>
  BY DEF WriteSome, SameReading
<1>2. PICK n \in (b + 1)..(l - 1) :
        /\ toClient' = [toClient EXCEPT ![s] = @ \o SubSeq(q, b + 1, n)]
        /\ sendBytes' = [sendBytes EXCEPT ![s] = n]
  BY DEF WriteSome
<1>3. /\ q \in Seq(Pieces) /\ b \in 0..l /\ l \in Nat /\ b \in Nat /\ toClient[s] \in Seq(Pieces)
      /\ toClient \in [Sessions -> Seq(Pieces)] /\ sendBytes \in [Sessions -> Nat]
      /\ pc \in [Sessions -> Stages]
  <2>1. /\ q \in Seq(Pieces) /\ b <= l /\ l \in Nat /\ b \in Nat /\ toClient[s] \in Seq(Pieces)
    BY SessionTypes DEF Base, SendInv
  <2>2. TypeInv
    BY DEF Base
  <2>3. /\ toClient \in [Sessions -> Seq(Pieces)] /\ sendBytes \in [Sessions -> Nat]
        /\ pc \in [Sessions -> Stages]
    BY <2>2 DEF TypeInv
  <2> QED BY <2>1, <2>3
<1>4. n \in 0..l /\ n \in Nat /\ b < n /\ n < l /\ l \in 0..l
  BY <1>3
<1>5. /\ pc[s] \notin Busy /\ pc'[s] = "write" /\ pc[s] # "recv"
      /\ \A r \in Sessions \ {s} :
            pc'[r] = pc[r] /\ toClient'[r] = toClient[r] /\ sendBytes'[r] = sendBytes[r]
  BY <1>1, <1>2, <1>3 DEF MayWrite, Busy
<1>6. CASE t # s
  <2>1. Settled(t)
    BY <1>1, <1>5, <1>6 DEF Settled, SameReading
  <2> QED BY <2>1, SettledKept
<1>7. CASE t = s
  <2> DEFINE some == SubSeq(q, b + 1, n)
             left == SubSeq(q, n + 1, l)
             all == SubSeq(q, b + 1, l)
             had == toClient[s]
  <2>1. some \in Seq(Pieces) /\ left \in Seq(Pieces)
    BY <1>3, <1>4, Cut
  <2>2. some \o left = all
    <3>1. b + 1 \in 1..(l + 1) /\ n \in ((b + 1) - 1)..l /\ l \in n..l
      BY <1>3, <1>4
    <3> HIDE DEF q, b, l
    <3> QED BY <3>1, <1>3, ConcatAdjacentSubSeq DEF l
  <2>3. output(s) = had \o all
    BY DEF output, Unparsed
  <2>4. output(s)' = (had \o some) \o left
    <3>1. toClient'[s] = had \o some /\ sendBytes'[s] = n
      BY <1>2, <1>3
    <3> QED BY <3>1, <1>1 DEF output, Unparsed
  <2>5. had \in Seq(Pieces)
    BY <1>3
  <2> HIDE DEF some, left, all, had
  <2>6. (had \o some) \o left = had \o (some \o left)
    BY <2>1, <2>5, ConcatAssociative
  <2>7. output(s)' = output(s)
    BY <2>2, <2>3, <2>4, <2>6
  <2>8. Stream(s)' = Stream(s) /\ parsed(s)' = parsed(s) /\ done'[s] = done[s]
    BY <1>1, ReadKept DEF SameReading
  <2>9. base(s)' = base(s) /\ complete(s)' = complete(s) /\ halfway(s)' = halfway(s)
    BY <2>8, <1>5 DEF base, complete, halfway, Busy
  <2> QED BY <2>7, <2>9, <1>1, <1>7, AnsweredSame
<1> QED BY <1>6, <1>7

\* The batch is answered: sendBuff is empty, and what was parsed is done.
LEMMA WriteRestAnswered ==
    ASSUME Base, NEW t \in Sessions, Answered(t), NEW s \in Sessions, WriteRest(s)
    PROVE  Answered(t)'
<1> DEFINE left == Unparsed(sendBuff[s], sendBytes[s])
<1>1. /\ MayWrite(s)
      /\ toClient' = [toClient EXCEPT ![s] = @ \o left]
      /\ done' = [done EXCEPT ![s] = @ + Len(recvBuff[s])]
      /\ sendBuff' = [sendBuff EXCEPT ![s] = <<>>]
      /\ recvBufferParsedOffset' = [recvBufferParsedOffset EXCEPT ![s] = 0]
      /\ sendBufferParsedOffset' = [sendBufferParsedOffset EXCEPT ![s] = 0]
      /\ sendBytes' = [sendBytes EXCEPT ![s] = 0]
      /\ pc' = [pc EXCEPT ![s] = "read"] /\ script' = script
  BY DEF WriteRest
<1>2. TypeInv
  BY DEF Base
<1>3. CASE t # s
  <2>1. Settled(t)
    BY <1>1, <1>2, <1>3 DEF Settled, TypeInv
  <2> QED BY <2>1, SettledKept
<1>4. CASE t = s
  <2>1. /\ toClient'[s] = output(s) /\ done'[s] = done[s] + Len(recvBuff[s]) /\ sendBuff'[s] = <<>>
        /\ recvBufferParsedOffset'[s] = 0 /\ sendBytes'[s] = 0 /\ pc'[s] = "read"
    BY <1>1, <1>2 DEF TypeInv, output
  <2>2. /\ pc[s] \in {"finish", "write"} /\ recvBufferParsedOffset[s] = Len(recvBuff[s])
        /\ pc[s] \notin Busy /\ pc[s] # "recv"
    BY <1>1 DEF MayWrite, Base, StageInv, Busy
  <2>3. done'[s] = parsedEnd(s) /\ parsedEnd(s)' = parsedEnd(s) /\ Stream(s)' = Stream(s)
    <3>1. done[s] \in Nat /\ Len(recvBuff[s]) \in Nat
      BY SessionTypes
    <3> QED BY <3>1, <2>1, <2>2, <1>1 DEF parsedEnd, Stream
  <2>4. base(s)' = parsed(s) /\ complete(s)' = parsed(s) /\ complete(s) = parsed(s)
    <3>1. parsed(s)' = parsed(s)
      BY <2>3 DEF parsed
    <3>2. base(s)' = parsed(s)
      BY <2>3 DEF base, parsed
    <3> QED BY <3>1, <3>2, <2>1, <2>2 DEF complete, Busy
  <2>5. halfway(s)' = FALSE /\ halfway(s) = FALSE
    BY <2>1, <2>2 DEF halfway
  <2>6. output(s) \in Seq(Pieces)
    <3>1. <<>> \in Seq(Pieces)
      OBVIOUS
    <3>2. /\ toClient[s] \in Seq(Pieces) /\ sendBuff[s] \in Seq(Pieces) /\ sendBytes[s] \in Nat
          /\ Len(sendBuff[s]) \in 0..Len(sendBuff[s])
      BY SessionTypes
    <3>3. left \in Seq(Pieces)
      BY <3>2, Cut DEF Unparsed
    <3>4. output(s) = toClient[s] \o left
      BY DEF output
    <3> HIDE DEF left
    <3> QED BY <3>2, <3>3, <3>4, Join
  <2>7. output(s)' = output(s)
    <3>1. output(s)' = output(s) \o Unparsed(<<>>, 0)
      BY <2>1 DEF output, Unparsed
    <3>2. Unparsed(<<>>, 0) = <<>>
      <4>1. Len(<<>>) = 0 /\ 0 < 0 + 1
        OBVIOUS
      <4>2. SubSeq(<<>>, 0 + 1, 0) = <<>>
        BY <4>1, SubSeqEmpty
      <4> QED BY <4>1, <4>2 DEF Unparsed
    <3>3. output(s) \o <<>> = output(s)
      BY <2>6, ConcatEmptySeq
    <3> QED BY <3>1, <3>2, <3>3
  <2>8. Replies(output(s)', s, 0, complete(s)', halfway(s)')
    <3>1. Replies(output(s), s, 0, complete(s), halfway(s))
      BY <1>4 DEF Answered
    <3> QED BY <3>1, <2>4, <2>5, <2>7
  <2>9. Replies(sendBuff'[s], s, base(s)', complete(s)', halfway(s)')
    <3>1. parsed(s) \in Nat
      BY NumberTypes
    <3>2. Len(<<>>) = 0
      OBVIOUS
    <3>3. Replies(<<>>, s, parsed(s), parsed(s), FALSE)
      BY <3>1, <3>2 DEF Replies
    <3> QED BY <3>3, <2>1, <2>4, <2>5
  <2>10. Answered(s)' <=> /\ Replies(sendBuff'[s], s, base(s)', complete(s)', halfway(s)')
                          /\ Replies(output(s)', s, 0, complete(s)', halfway(s)')
    BY DEF Answered, Replies
  <2> QED BY <2>8, <2>9, <2>10, <1>4
<1> QED BY <1>3, <1>4

\* Every step keeps Answered, while no session is exposed.
LEMMA NextAnswered ==
    ASSUME Base, Wires, [Next]_vars, ~exposed', NEW t \in Sessions, Answered(t)
    PROVE  Answered(t)'
<1>1. CASE UNCHANGED vars \/ \E c \in Connections : Server(c)
  BY <1>1, MovesAnswered
<1>2. ASSUME NEW s \in Sessions, SessionStep(s) PROVE Answered(t)'
  <2>1. CASE ReadFails(s) \/ WriteFails(s) \/ DispatchKey(s) \/ SelectConnection(s)
               \/ SelectNothing(s)
    BY <2>1, MovesAnswered
  <2>2. CASE RefusedReply(s)
    BY <2>2 DEF RefusedReply
  <2>3. CASE ReadRequest(s)
    <3>1. PICK k \in 1..Len(toProxy(s)) :
            LET buff == recvBuff[s] \o SubSeq(toProxy(s), 1, k) IN Parse(s, buff)
      BY <2>3 DEF ReadRequest
    <3> DEFINE buff == recvBuff[s] \o SubSeq(toProxy(s), 1, k)
    <3>2. Holds(buff, s) /\ recvBufferParsedOffset[s] < Len(buff)
      BY ReadMore
    <3>3. Parse(s, buff) /\ pc[s] = "read"
      BY <2>3, <3>1 DEF ReadRequest
    <3> HIDE DEF buff
    <3> QED BY <3>2, <3>3, ParseAnswered
  <2>4. CASE NextRequest(s)
    <3> DEFINE buff == recvBuff[s]
    <3>1. /\ pc[s] = "finish" /\ recvBufferParsedOffset[s] # Len(buff) /\ Parse(s, buff)
      BY <2>4 DEF NextRequest
    <3>2. Holds(buff, s) /\ recvBufferParsedOffset[s] < Len(buff)
      BY <3>1, HoldsRead, SessionTypes DEF Base, ReadInv
    <3> HIDE DEF buff
    <3> QED BY <3>1, <3>2, ParseAnswered
  <2> QED BY <1>2, <2>1, <2>2, <2>3, <2>4, LocalReplyAnswered, SendAnswered, FailsAnswered,
             RecvAnswered, WriteSomeAnswered, WriteRestAnswered DEF SessionStep, Runs
<1> QED BY <1>1, <1>2 DEF Next

\* Answered holds at the start.
LEMMA InitAnswered == ASSUME Init, NEW s \in Sessions PROVE Answered(s)
<1>1. /\ sendBuff[s] = <<>> /\ toClient[s] = <<>> /\ sendBytes[s] = 0 /\ done[s] = 0
      /\ recvBufferParsedOffset[s] = 0 /\ pc[s] = "read"
  BY DEF Init
<1>2. base(s) = 0 /\ parsed(s) = 0
  <2>1. parsedEnd(s) = 0
    BY <1>1 DEF parsedEnd
  <2> QED BY <2>1, <1>1 DEF base, parsed
<1>3. complete(s) = 0 /\ halfway(s) = FALSE
  BY <1>1, <1>2 DEF complete, halfway, Busy
<1>4. output(s) = <<>>
  <2>1. Unparsed(<<>>, 0) = <<>>
    <3>1. Len(<<>>) = 0 /\ 0 < 0 + 1
      OBVIOUS
    <3>2. SubSeq(<<>>, 0 + 1, 0) = <<>>
      BY <3>1, SubSeqEmpty
    <3> QED BY <3>1, <3>2 DEF Unparsed
  <2>2. <<>> \o <<>> = <<>>
    <3>1. <<>> \in Seq(Pieces)
      OBVIOUS
    <3> QED BY <3>1, ConcatEmptySeq
  <2> QED BY <2>1, <2>2, <1>1 DEF output
<1>5. Replies(<<>>, s, 0, 0, FALSE)
  <2>1. Len(<<>>) = 0
    OBVIOUS
  <2> QED BY <2>1 DEF Replies
<1> QED BY <1>1, <1>2, <1>3, <1>4, <1>5 DEF Answered

-----------------------------------------------------------------------------
(* What the property says of a session.                                    *)

\* What a client has been sent begins the output.
LEMMA SentInOrder ==
    ASSUME Base, NEW s \in Sessions, Answered(s), NEW i \in DOMAIN toClient[s]
    PROVE  LET p == toClient[s][i] IN
           /\ p.src = s
           /\ IF i = 1 THEN p.n = 1
              ELSE LET q == toClient[s][i - 1] IN p.n = IF q.last THEN q.n + 1 ELSE q.n
<1> DEFINE c == toClient[s]
           left == Unparsed(sendBuff[s], sendBytes[s])
           d == output(s)
<1>1. /\ c \in Seq(Pieces) /\ Len(c) \in Nat /\ sendBuff[s] \in Seq(Pieces)
      /\ sendBytes[s] \in Nat /\ Len(sendBuff[s]) \in 0..Len(sendBuff[s])
  BY SessionTypes
<1>2. left \in Seq(Pieces)
  BY <1>1, Cut DEF Unparsed
<1>3. i \in 1..Len(c)
  BY <1>1
<1>4. d = c \o left
  BY DEF output
<1>5. Replies(d, s, 0, complete(s), halfway(s))
  BY DEF Answered
<1> HIDE DEF left, d
<1>6. Len(d) = Len(c) + Len(left) /\ \A j \in 1..Len(c) : d[j] = c[j]
  <2> HIDE DEF c
  <2> QED BY <1>1, <1>2, <1>4, Join
<1>7. i \in 1..Len(d) /\ d[i] = c[i] /\ (i # 1 => d[i - 1] = c[i - 1])
  BY <1>1, <1>2, <1>3, <1>6
<1>8. d[i].src = s /\ d[i].n = IF i = 1 THEN 0 + 1
                               ELSE IF d[i - 1].last THEN d[i - 1].n + 1 ELSE d[i - 1].n
  BY <1>5, <1>7 DEF Replies
<1> QED BY <1>7, <1>8

\* The requests of the batch that are parsed: those after the last batch.
LEMMA ParsedEnds ==
    ASSUME Base, NEW s \in Sessions, pc[s] \in {"finish", "write"}
    PROVE  Ends(SubSeq(recvBuff[s], 1, recvBufferParsedOffset[s])) = (base(s) + 1)..parsed(s)
<1> DEFINE st == Stream(s)
           off == recvBufferParsedOffset[s]
           d == done[s]
           buff == recvBuff[s]
           pre == SubSeq(buff, 1, off)
<1>1. /\ off \in 1..Len(buff) /\ d + off \in 1..Len(st) /\ parsedEnd(s) = d + off
      /\ parsed(s) = st[d + off].n /\ st[d + off].last /\ parsed(s) \in 1..Len(script[s])
  BY CurrentFacts DEF parsedEnd
<1>2. /\ d \in Nat /\ buff \in Seq(Pieces) /\ Len(buff) \in Nat /\ script \in Workloads
      /\ Len(st) \in Nat
  BY SessionTypes
<1>3. /\ \A i \in 1..Len(buff) : buff[i] = st[d + i]
      /\ d > 0 => st[d].last
      /\ d + Len(buff) <= Len(st)
  BY DEF Base, ReadInv
<1>4. Len(script[s]) \in Nat
  BY <1>2, StreamType
<1>5. /\ \A i \in 1..Len(st) : st[i].n \in 1..Len(script[s])
      /\ \A i, j \in 1..Len(st) : i < j => st[i].n <= st[j].n /\ (st[i].last => st[i].n < st[j].n)
  BY <1>2, StreamFacts DEF Stream
<1>6. \A m \in 1..Len(script[s]) : \E j \in 1..Len(st) : st[j].last /\ st[j].n = m
  <2> SUFFICES ASSUME NEW m \in 1..Len(script[s])
               PROVE  \E j \in 1..Len(st) : st[j].last /\ st[j].n = m
    OBVIOUS
  <2>1. \E p \in Sent(script, s) : p.last /\ p.n = m
    <3>1. CASE script[s][m] \in Forwarded
      <4>1. Piece(s, m, 2, TRUE, "client") \in Sent(script, s)
        BY <3>1, <1>2, AreSent
      <4> QED BY <4>1 DEF Piece
    <3>2. CASE script[s][m] \notin Forwarded
      <4>1. Piece(s, m, 1, TRUE, "client") \in Sent(script, s)
        BY <3>2, <1>2, AreSent
      <4> QED BY <4>1 DEF Piece
    <3> QED BY <3>1, <3>2
  <2>2. PICK p \in Sent(script, s) : p.last /\ p.n = m
    BY <2>1
  <2>3. PICK j \in 1..Len(st) : st[j] = p
    BY <1>2, StreamInOrder DEF Stream
  <2> QED BY <2>2, <2>3
<1>7. base(s) = IF d = 0 THEN 0 ELSE st[d].n
  BY DEF base
<1> HIDE DEF st, d, buff, off
<1>8. /\ pre \in Seq(Pieces) /\ Len(pre) = off /\ \A i \in 1..off : pre[i] = buff[i]
  <2>1. off \in 0..Len(buff) /\ 0 \in Nat /\ 0 + 1 = 1 /\ 0 < off /\ off - 0 = off
    BY <1>1, <1>2
  <2>2. /\ SubSeq(buff, 0 + 1, off) \in Seq(Pieces)
        /\ Len(SubSeq(buff, 0 + 1, off)) = IF 0 < off THEN off - 0 ELSE 0
        /\ \A i \in 1..(off - 0) : SubSeq(buff, 0 + 1, off)[i] = buff[0 + i]
    BY <2>1, <1>2, Cut
  <2>3. \A i \in 1..off : 0 + i = i
    BY <1>1
  <2> QED BY <2>1, <2>2, <2>3
<1> HIDE DEF pre
<1>9. \A m : m \in Ends(pre) <=> \E i \in 1..off : pre[i].last /\ pre[i].n = m
  <2>1. DOMAIN pre = 1..off
    BY <1>1, <1>8
  <2> QED BY <2>1 DEF Ends, ToSet
<1>10. ASSUME NEW i \in 1..off PROVE pre[i] = st[d + i] /\ d + i \in 1..Len(st)
  <2>1. i \in 1..Len(buff) /\ off \in Nat
    BY <1>1, <1>2
  <2>2. pre[i] = buff[i]
    BY <1>8
  <2>3. buff[i] = st[d + i]
    BY <2>1, <1>3
  <2>4. d + i \in 1..Len(st)
    BY <2>1, <1>1, <1>2
  <2> QED BY <2>2, <2>3, <2>4
<1>11. ASSUME NEW m \in Ends(pre) PROVE m \in (base(s) + 1)..parsed(s)
  <2>1. PICK i \in 1..off : pre[i].last /\ pre[i].n = m
    BY <1>9
  <2>2. st[d + i].n = m /\ d + i \in 1..Len(st) /\ m \in 1..Len(script[s])
    BY <2>1, <1>5, <1>10
  <2>3. m <= parsed(s)
    <3>1. CASE i = off
      BY <3>1, <2>2, <1>1, <1>4
    <3>2. CASE i # off
      <4>1. d + i < d + off
        BY <3>2, <1>1, <1>2
      <4> QED BY <4>1, <2>2, <1>1, <1>5
    <3> QED BY <3>1, <3>2
  <2>4. base(s) \in Nat /\ base(s) < m
    <3>1. CASE d = 0
      BY <3>1, <2>2, <1>4, <1>7
    <3>2. CASE d > 0
      <4>1. d \in 1..Len(st) /\ d < d + i /\ st[d].last
        BY <3>2, <2>2, <1>1, <1>2, <1>3
      <4> QED BY <3>2, <4>1, <2>2, <1>4, <1>5, <1>7
    <3> QED BY <3>1, <3>2, <1>2
  <2> QED BY <2>2, <2>3, <2>4, <1>1, <1>4
<1>12. ASSUME NEW m \in (base(s) + 1)..parsed(s) PROVE m \in Ends(pre)
  <2>1. base(s) \in Nat
    BY NumberTypes
  <2>2. m \in 1..Len(script[s]) /\ base(s) < m /\ m <= parsed(s)
    BY <2>1, <1>1, <1>4
  <2>3. PICK j \in 1..Len(st) : st[j].last /\ st[j].n = m
    BY <2>2, <1>6
  <2>4. d < j
    <3> SUFFICES ASSUME j <= d PROVE FALSE
      BY <1>2, <1>2
    <3>1. d \in 1..Len(st) /\ d # 0
      BY <1>1, <1>2
    <3>2. st[j].n <= st[d].n
      <4>1. CASE j = d
        BY <4>1, <3>1, <1>4, <1>5
      <4>2. CASE j # d
        <5>1. j < d
          BY <4>2, <1>2
        <5> QED BY <5>1, <3>1, <1>5
      <4> QED BY <4>1, <4>2
    <3>3. base(s) = st[d].n
      BY <3>1, <1>7
    <3>4. base(s) < base(s)
      <4>1. m <= base(s) /\ base(s) < m /\ m \in Nat
        BY <3>2, <3>3, <2>2, <2>3, <1>4
      <4> QED BY <4>1, <2>1
    <3> QED BY <3>4, <2>1
  <2>5. j <= d + off
    <3> SUFFICES ASSUME d + off < j PROVE FALSE
      BY <1>1, <1>2
    <3>1. st[d + off].n < st[j].n
      BY <1>1, <1>5
    <3> QED BY <3>1, <2>2, <2>3, <1>1
  <2>6. j - d \in 1..off /\ d + (j - d) = j
    BY <2>4, <2>5, <1>1, <1>2
  <2> QED BY <2>3, <2>6, <1>9, <1>10
<1>13. Ends(pre) = (base(s) + 1)..parsed(s)
  BY <1>11, <1>12
<1> QED BY <1>13 DEF pre, buff, off

\* Every request parsed has its reply, once and in order.
LEMMA BatchReplies ==
    ASSUME Base, NEW s \in Sessions, Answered(s), pc[s] \in {"finish", "write"}
    PROVE  /\ Ends(sendBuff[s]) = Ends(SubSeq(recvBuff[s], 1, recvBufferParsedOffset[s]))
           /\ \A i, j \in DOMAIN sendBuff[s] : i < j =>
                LET p == sendBuff[s][i]  q == sendBuff[s][j]
                IN  p.n <= q.n /\ (p.last => p.n < q.n)
<1> DEFINE d == sendBuff[s]
           b == base(s)
           n == parsed(s)
<1>1. complete(s) = n /\ halfway(s) = FALSE
  BY DEF complete, halfway, Busy
<1>2. Replies(d, s, b, n, FALSE)
  <2>1. Replies(d, s, b, complete(s), halfway(s))
    BY DEF Answered
  <2> QED BY <2>1, <1>1
<1>3. d \in Seq(Pieces) /\ Len(d) \in Nat /\ b \in Nat /\ n \in Nat
  BY SessionTypes, NumberTypes
<1>4. \A i \in 1..Len(d) : d[i].n \in Nat
  <2>1. \A i \in 1..Len(d) : d[i] \in Pieces
    BY <1>3
  <2>2. \A p \in Pieces : p.n \in Nat
    BY DEF Pieces
  <2> QED BY <2>1, <2>2
<1>5. Ends(SubSeq(recvBuff[s], 1, recvBufferParsedOffset[s])) = (b + 1)..n
  BY ParsedEnds
<1> HIDE DEF d, b, n
<1>6. DOMAIN d = 1..Len(d)
  BY <1>3
<1>7. \A m : m \in Ends(d) <=> \E i \in 1..Len(d) : d[i].last /\ d[i].n = m
  BY <1>6 DEF Ends, ToSet
<1>8. /\ \A i \in 1..Len(d) : b < d[i].n /\ d[i].n <= n
      /\ \A i, j \in 1..Len(d) : i < j => d[i].n <= d[j].n /\ (d[i].last => d[i].n < d[j].n)
      /\ \A k \in (b + 1)..n : \E i \in 1..Len(d) : d[i].last /\ d[i].n = k
  BY <1>2 DEF Replies
<1>9. ASSUME NEW m \in Ends(d) PROVE m \in (b + 1)..n
  <2>1. PICK i \in 1..Len(d) : d[i].n = m
    BY <1>7
  <2> QED BY <2>1, <1>3, <1>4, <1>8
<1>10. Ends(d) = (b + 1)..n
  BY <1>7, <1>8, <1>9
<1> QED BY <1>5, <1>6, <1>8, <1>10 DEF d

-----------------------------------------------------------------------------

\* A client reads the replies to its own requests, in the order it sent them
\* and none left out; and a batch is written when every request in it has
\* exactly one reply, also when servers fail half-way.
THEOREM InOrderAndWhole == Spec => []RepliesInOrder
<1> DEFINE RInv == Base /\ (~exposed => Wires /\ \A s \in Sessions : Answered(s))
<1>1. Init => RInv
  BY InitBase, InitWires, InitAnswered
<1>2. RInv /\ [Next]_vars => RInv'
  <2> SUFFICES ASSUME RInv, [Next]_vars PROVE RInv'
    OBVIOUS
  <2>1. Base'
    BY NextBase
  <2>2. ~exposed' => Wires' /\ \A s \in Sessions : Answered(s)'
    <3> SUFFICES ASSUME ~exposed' PROVE Wires' /\ \A s \in Sessions : Answered(s)'
      OBVIOUS
    <3>1. ~exposed
      BY ExposedStays
    <3>2. Wires'
      BY <3>1, NextWires
    <3> QED BY <3>1, <3>2, NextAnswered
  <2> QED BY <2>1, <2>2
<1>3. RInv => RepliesInOrder
  <2> SUFFICES ASSUME RInv PROVE RepliesInOrder
    OBVIOUS
  <2>1. TypeOK
    BY BaseTypeOK
  <2>2. ASSUME ~exposed, NEW s \in Sessions
        PROVE  \A i \in DOMAIN toClient[s] :
                LET p == toClient[s][i] IN
                /\ p.src = s
                /\ IF i = 1 THEN p.n = 1
                   ELSE LET q == toClient[s][i - 1] IN p.n = IF q.last THEN q.n + 1 ELSE q.n
    BY <2>2, SentInOrder
  <2>3. ASSUME ~exposed, NEW s \in Sessions, pc[s] \in {"finish", "write"}
        PROVE  /\ Ends(sendBuff[s]) = Ends(SubSeq(recvBuff[s], 1, recvBufferParsedOffset[s]))
               /\ \A i, j \in DOMAIN sendBuff[s] : i < j =>
                    LET p == sendBuff[s][i]  q == sendBuff[s][j]
                    IN  p.n <= q.n /\ (p.last => p.n < q.n)
    BY <2>3, BatchReplies
  <2> QED BY <2>1, <2>2, <2>3 DEF RepliesInOrder
<1> QED BY <1>1, <1>2, <1>3, PTL DEF Spec

=============================================================================
