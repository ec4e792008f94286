-------------------------- MODULE StatisticsProofs --------------------------
(***************************************************************************)
(* Proofs about Statistics, for any number of workers, keys and servers,   *)
(* and for every limit of the list of keys.                                *)
(***************************************************************************)
EXTENDS Statistics, DataLemmas

-----------------------------------------------------------------------------
(* What is left of a sequence without some elements.                       *)

\* One element is looked at after the other.
LEMMA SparedSteps ==
    ASSUME NEW X, NEW s \in Seq(X), NEW S
    PROVE  \E t : /\ t[0] = <<>>
                  /\ \A k \in 0..(Len(s) - 1) :
                       t[k + 1] = IF s[k + 1] \in S THEN t[k] ELSE Append(t[k], s[k + 1])
                  /\ t[Len(s)] = Spared(s, S)
<1> DEFINE n == Len(s)
           A == Seq(X)
           base == <<>>
           op(a, k) == IF s[k] \in S THEN a ELSE Append(a, s[k])
           step == [p \in A \X (1..n) |-> op(p[1], p[2])]
           F == CHOOSE f : f = [T \in SUBSET (1..n) |->
                                  IF T = {} THEN base ELSE op(f[T \ {Max(T)}], Max(T))]
<1>1. n \in Nat /\ DOMAIN s = 1..n /\ \A k \in 1..n : s[k] \in X
  OBVIOUS
<1>2. base \in A
  OBVIOUS
<1>3. ASSUME NEW a \in A, NEW k \in 1..n PROVE op(a, k) \in A
  <2>1. s[k] \in X
    BY <1>1
  <2> QED BY <2>1
<1>4. Spared(s, S) = F[1..n]
  <2>1. DOMAIN s = 1..n
    BY <1>1
  <2> QED BY <2>1 DEF Spared, FoldLeft, MapThenFoldSet
<1>5. step \in [A \X (1..n) -> A]
  <2> HIDE DEF A, op
  <2>1. \A p \in A \X (1..n) : op(p[1], p[2]) \in A
    BY <1>3
  <2> QED BY <2>1
<1>6. \A a \in A, k \in 1..n : step[<<a, k>>] = op(a, k)
  <2> HIDE DEF A, op
  <2> QED OBVIOUS
<1> HIDE DEF A, base, op, step, n
<1>7. PICK h : IsFold(h, n, A, base, step)
  BY <1>1, <1>2, <1>5, FoldExists
<1>8. h = [T \in SUBSET (1..n) |-> IF T = {} THEN base ELSE op(h[T \ {Max(T)}], Max(T))]
  <2>1. ASSUME NEW T \in SUBSET (1..n), T # {}
        PROVE  step[<<h[T \ {Max(T)}], Max(T)>>] = op(h[T \ {Max(T)}], Max(T))
    <3>1. Max(T) \in T
      <4>1. T \in SUBSET (0..n)
        OBVIOUS
      <4> QED BY <1>1, <2>1, <4>1, Greatest
    <3>2. h[T \ {Max(T)}] \in A
      BY <1>7 DEF IsFold
    <3> QED BY <1>6, <3>1, <3>2
  <2>2. h = [T \in SUBSET (1..n) |-> h[T]]
    BY <1>7 DEF IsFold
  <2> QED BY <1>7, <2>1, <2>2 DEF IsFold
<1>9. \A T \in SUBSET (1..n) : F[T] = IF T = {} THEN base ELSE op(F[T \ {Max(T)}], Max(T))
  <2>1. F = [T \in SUBSET (1..n) |-> IF T = {} THEN base ELSE op(F[T \ {Max(T)}], Max(T))]
    BY <1>8
  <2> HIDE DEF F
  <2> QED BY <2>1
<1> HIDE DEF F
<1> DEFINE t == [k \in 0..n |-> F[1..k]]
<1>10. t[0] = base
  <2>1. 1..0 = {} /\ {} \in SUBSET (1..n) /\ 0 \in 0..n
    BY <1>1
  <2>2. F[{}] = base
    BY <1>9, <2>1
  <2>3. t[0] = F[1..0]
    BY <2>1
  <2> QED BY <2>1, <2>2, <2>3
<1>11. ASSUME NEW k \in 0..(n - 1) PROVE t[k + 1] = op(t[k], k + 1)
  <2>1. t[k + 1] = F[1..(k + 1)] /\ t[k] = F[1..k]
    BY <1>1
  <2>2. F[1..(k + 1)] = op(F[1..k], k + 1)
    <3> DEFINE T == 1..(k + 1)
    <3>1. T \in SUBSET (1..n) /\ T # {} /\ Max(T) = k + 1 /\ T \ {k + 1} = 1..k
      BY <1>1, PrefixMax
    <3> HIDE DEF T
    <3>2. F[T] = op(F[T \ {Max(T)}], Max(T))
      BY <1>9, <3>1
    <3> QED BY <3>1, <3>2 DEF T
  <2> QED BY <2>1, <2>2
<1>12. t[n] = Spared(s, S)
  BY <1>1, <1>4
<1> HIDE DEF t
<1> QED BY <1>10, <1>11, <1>12 DEF base, op, n

\* What a is after k elements of s have been looked at: the elements that are
\* not in S, in their order.  Those of a beginning that has none of S keep their
\* places, and those behind the only one that is in S move up by one.
Left(a, s, S, k) ==
    /\ Len(a) <= k
    /\ \A i \in 1..Len(a) : a[i] \notin S /\ \E j \in 1..k : a[i] = s[j]
    /\ \A j \in 1..k : s[j] \notin S => \E i \in 1..Len(a) : a[i] = s[j]
    /\ IsInjective(s) => IsInjective(a)
    /\ \A m \in 0..k : (\A i \in 1..m : s[i] \notin S) =>
         Len(a) >= m /\ \A i \in 1..m : a[i] = s[i]
    /\ \A p \in 1..k : (\A i \in 1..k : s[i] \in S <=> i = p) =>
         Len(a) = k - 1 /\ \A i \in 1..(k - 1) : a[i] = IF i < p THEN s[i] ELSE s[i + 1]

\* An element of S is left out.
LEMMA LeftOut ==
    ASSUME NEW X, NEW s \in Seq(X), NEW S, NEW k \in 0..(Len(s) - 1),
           NEW a \in Seq(X), Left(a, s, S, k), s[k + 1] \in S
    PROVE  Left(a, s, S, k + 1)
<1>1. Len(s) \in Nat /\ k \in Nat /\ Len(a) \in Nat
  OBVIOUS
<1>2. ASSUME NEW m \in 0..(k + 1), \A i \in 1..m : s[i] \notin S
      PROVE  Len(a) >= m /\ \A i \in 1..m : a[i] = s[i]
  <2>1. m \in 0..k
    BY <1>1, <1>2
  <2> QED BY <1>2, <2>1 DEF Left
<1>3. ASSUME NEW p \in 1..(k + 1), \A i \in 1..(k + 1) : s[i] \in S <=> i = p
      PROVE  Len(a) = k /\ \A i \in 1..k : a[i] = IF i < p THEN s[i] ELSE s[i + 1]
  <2>1. p = k + 1
    BY <1>1, <1>3
  <2>2. k \in 0..k /\ \A i \in 1..k : s[i] \notin S
    BY <1>1, <1>3, <2>1
  <2>3. Len(a) >= k /\ Len(a) <= k /\ \A i \in 1..k : a[i] = s[i]
    BY <2>2 DEF Left
  <2> QED BY <1>1, <2>1, <2>3
<1>4. \A i \in 1..Len(a) : a[i] \notin S /\ \E j \in 1..(k + 1) : a[i] = s[j]
  BY <1>1 DEF Left
<1>5. ASSUME NEW j \in 1..(k + 1), s[j] \notin S PROVE \E i \in 1..Len(a) : a[i] = s[j]
  <2>1. j \in 1..k
    BY <1>1, <1>5
  <2> QED BY <1>5, <2>1 DEF Left
<1>6. Len(a) <= k + 1 /\ (IsInjective(s) => IsInjective(a)) /\ (k + 1) - 1 = k
  BY <1>1 DEF Left
<1> QED BY <1>2, <1>3, <1>4, <1>5, <1>6 DEF Left

\* Any other is kept.
LEMMA LeftIn ==
    ASSUME NEW X, NEW s \in Seq(X), NEW S, NEW k \in 0..(Len(s) - 1),
           NEW a \in Seq(X), Left(a, s, S, k), s[k + 1] \notin S
    PROVE  Append(a, s[k + 1]) \in Seq(X) /\ Left(Append(a, s[k + 1]), s, S, k + 1)
<1> DEFINE x == s[k + 1]
           b == Append(a, x)
           l == Len(a)
<1>1. /\ Len(s) \in Nat /\ k \in Nat /\ l \in Nat /\ k + 1 \in 1..Len(s)
      /\ DOMAIN s = 1..Len(s) /\ DOMAIN a = 1..l /\ x \in X
  OBVIOUS
<1>2. /\ b \in Seq(X) /\ Len(b) = l + 1 /\ DOMAIN b = 1..(l + 1)
      /\ b[l + 1] = x /\ \A i \in 1..l : b[i] = a[i]
  BY <1>1
<1>3. /\ l <= k
      /\ \A i \in 1..l : a[i] \notin S /\ \E j \in 1..k : a[i] = s[j]
      /\ \A j \in 1..k : s[j] \notin S => \E i \in 1..l : a[i] = s[j]
      /\ IsInjective(s) => IsInjective(a)
  BY DEF Left
<1>4. \A m \in 0..k : (\A i \in 1..m : s[i] \notin S) => l >= m /\ \A i \in 1..m : a[i] = s[i]
  BY DEF Left
<1>5. \A p \in 1..k : (\A i \in 1..k : s[i] \in S <=> i = p) =>
         l = k - 1 /\ \A i \in 1..(k - 1) : a[i] = IF i < p THEN s[i] ELSE s[i + 1]
  BY DEF Left
<1>6. x \notin S
  OBVIOUS
<1>7. \A i \in 1..k : s[i] \in X
  BY <1>1
<1>8. k + 1 \in 1..(k + 1) /\ s[k + 1] = x
  BY <1>1
<1> HIDE DEF b, l, x
<1>9. \A i \in 1..(l + 1) : b[i] \notin S /\ \E j \in 1..(k + 1) : b[i] = s[j]
  <2> SUFFICES ASSUME NEW i \in 1..(l + 1)
               PROVE  b[i] \notin S /\ \E j \in 1..(k + 1) : b[i] = s[j]
    OBVIOUS
  <2>1. CASE i = l + 1
    BY <1>2, <1>6, <1>8, <2>1
  <2>2. CASE i # l + 1
    <3>1. i \in 1..l
      BY <1>1, <2>2
    <3>2. a[i] \notin S /\ b[i] = a[i]
      BY <1>2, <1>3, <3>1
    <3>3. PICK j \in 1..k : a[i] = s[j]
      BY <1>3, <3>1
    <3>4. j \in 1..(k + 1)
      BY <1>1
    <3> QED BY <3>2, <3>3, <3>4
  <2> QED BY <2>1, <2>2
<1>10. \A j \in 1..(k + 1) : s[j] \notin S => \E i \in 1..(l + 1) : b[i] = s[j]
  <2> SUFFICES ASSUME NEW j \in 1..(k + 1), s[j] \notin S
               PROVE  \E i \in 1..(l + 1) : b[i] = s[j]
    OBVIOUS
  <2>1. CASE j = k + 1
    <3>1. l + 1 \in 1..(l + 1)
      BY <1>1
    <3> QED BY <1>2, <1>8, <2>1, <3>1
  <2>2. CASE j # k + 1
    <3>1. j \in 1..k
      BY <1>1, <2>2
    <3>2. PICK i \in 1..l : a[i] = s[j]
      BY <1>3, <3>1
    <3>3. i \in 1..(l + 1) /\ b[i] = s[j]
      BY <1>1, <1>2, <3>2
    <3> QED BY <3>3
  <2> QED BY <2>1, <2>2
<1>11. IsInjective(s) => IsInjective(b)
  <2> SUFFICES ASSUME IsInjective(s), NEW i \in 1..(l + 1), NEW j \in 1..(l + 1), b[i] = b[j]
               PROVE  i = j
    BY <1>2 DEF IsInjective
  <2>1. \A p \in 1..k : s[p] # x
    <3>1. \A p, q \in 1..Len(s) : s[p] = s[q] => p = q
      BY <1>1 DEF IsInjective
    <3>2. \A p \in 1..k : p \in 1..Len(s) /\ p # k + 1
      BY <1>1
    <3> QED BY <1>1, <1>8, <3>1, <3>2
  <2>2. \A h \in 1..l : b[h] # x
    BY <1>2, <1>3, <2>1
  <2>3. \A g, h \in 1..l : a[g] = a[h] => g = h
    BY <1>1, <1>3 DEF IsInjective
  <2> QED BY <1>1, <1>2, <2>2, <2>3
<1>12. \A m \in 0..(k + 1) : (\A i \in 1..m : s[i] \notin S) =>
         l + 1 >= m /\ \A i \in 1..m : b[i] = s[i]
  <2> SUFFICES ASSUME NEW m \in 0..(k + 1), \A i \in 1..m : s[i] \notin S
               PROVE  l + 1 >= m /\ \A i \in 1..m : b[i] = s[i]
    OBVIOUS
  <2>1. CASE m \in 0..k
    <3>1. l >= m /\ \A i \in 1..m : a[i] = s[i]
      BY <1>4, <2>1
    <3> QED BY <1>1, <1>2, <2>1, <3>1
  <2>2. CASE m = k + 1
    <3>1. k \in 0..k /\ \A i \in 1..k : s[i] \notin S
      BY <1>1, <2>2
    <3>2. l >= k /\ \A i \in 1..k : a[i] = s[i]
      BY <1>4, <3>1
    <3>3. l = k
      BY <1>1, <1>3, <3>2
    <3> QED BY <1>1, <1>2, <1>8, <2>2, <3>2, <3>3
  <2> QED BY <1>1, <2>1, <2>2
<1>13. \A p \in 1..(k + 1) : (\A i \in 1..(k + 1) : s[i] \in S <=> i = p) =>
         l + 1 = k /\ \A i \in 1..k : b[i] = IF i < p THEN s[i] ELSE s[i + 1]
  <2> SUFFICES ASSUME NEW p \in 1..(k + 1), \A i \in 1..(k + 1) : s[i] \in S <=> i = p
               PROVE  l + 1 = k /\ \A i \in 1..k : b[i] = IF i < p THEN s[i] ELSE s[i + 1]
    OBVIOUS
  <2>1. p # k + 1
    BY <1>6, <1>8
  <2>2. p \in 1..k /\ \A i \in 1..k : s[i] \in S <=> i = p
    BY <1>1, <2>1
  <2>3. l = k - 1 /\ \A i \in 1..(k - 1) : a[i] = IF i < p THEN s[i] ELSE s[i + 1]
    BY <1>5, <2>2
  <2>4. l + 1 = k /\ p <= k
    BY <1>1, <2>2, <2>3
  <2>5. ASSUME NEW i \in 1..k PROVE b[i] = IF i < p THEN s[i] ELSE s[i + 1]
    <3>1. CASE i = k
      BY <1>2, <1>8, <2>4, <3>1
    <3>2. CASE i # k
      <4>1. i \in 1..(k - 1) /\ i \in 1..l
        BY <1>1, <2>4, <3>2
      <4> QED BY <1>2, <2>3, <4>1
    <3> QED BY <3>1, <3>2
  <2> QED BY <2>4, <2>5
<1>14. l + 1 <= k + 1 /\ (k + 1) - 1 = k
  BY <1>1, <1>3
<1>15. Left(b, s, S, k + 1)
  BY <1>2, <1>9, <1>10, <1>11, <1>12, <1>13, <1>14 DEF Left
<1> QED BY <1>2, <1>15 DEF b, x

\* What is left in the end.
LEMMA SparedIs ==
    ASSUME NEW X, NEW s \in Seq(X), NEW S
    PROVE  /\ Spared(s, S) \in Seq(X)
           /\ Left(Spared(s, S), s, S, Len(s))
           /\ ToSet(Spared(s, S)) = ToSet(s) \ S
<1> DEFINE n == Len(s)
<1>1. n \in Nat /\ DOMAIN s = 1..n
  OBVIOUS
<1>2. PICK t : /\ t[0] = <<>>
               /\ \A k \in 0..(n - 1) :
                    t[k + 1] = IF s[k + 1] \in S THEN t[k] ELSE Append(t[k], s[k + 1])
               /\ t[n] = Spared(s, S)
  BY SparedSteps
<1> DEFINE N == {k \in 0..n : t[k] \in Seq(X) /\ Left(t[k], s, S, k)}
<1>3. 0 \in N
  <2>1. <<>> \in Seq(X) /\ Len(<<>>) = 0 /\ IsInjective(<<>>)
    BY DEF IsInjective
  <2>2. Left(<<>>, s, S, 0)
    BY <2>1 DEF Left
  <2>3. 0 \in 0..n /\ t[0] \in Seq(X) /\ Left(t[0], s, S, 0)
    BY <1>1, <1>2, <2>1, <2>2
  <2> QED BY <2>3
<1>4. ASSUME NEW k \in 0..(n - 1), k \in N PROVE k + 1 \in N
  <2>1. k + 1 \in 0..n /\ t[k] \in Seq(X) /\ Left(t[k], s, S, k)
    BY <1>1, <1>4
  <2>2. t[k + 1] = IF s[k + 1] \in S THEN t[k] ELSE Append(t[k], s[k + 1])
    BY <1>2
  <2>3. CASE s[k + 1] \in S
    BY <2>1, <2>2, <2>3, LeftOut
  <2>4. CASE s[k + 1] \notin S
    <3>1. Append(t[k], s[k + 1]) \in Seq(X) /\ Left(Append(t[k], s[k + 1]), s, S, k + 1)
      BY <2>1, <2>4, LeftIn
    <3> QED BY <2>1, <2>2, <2>4, <3>1
  <2> QED BY <2>3, <2>4
<1>5. \A k \in 0..n : k \in N
  <2> HIDE DEF N, n
  <2> QED BY <1>1, <1>3, <1>4, InductTo
<1> DEFINE r == Spared(s, S)
<1>6. r \in Seq(X) /\ Left(r, s, S, n)
  <2>1. n \in N
    BY <1>1, <1>5
  <2> QED BY <1>2, <2>1
<1> HIDE DEF r
<1>7. ToSet(r) = ToSet(s) \ S
  <2>1. DOMAIN r = 1..Len(r)
    BY <1>6
  <2>2. \A y : y \in ToSet(r) <=> \E i \in 1..Len(r) : y = r[i]
    BY <2>1 DEF ToSet
  <2>3. \A y : y \in ToSet(s) <=> \E i \in 1..n : y = s[i]
    BY <1>1 DEF ToSet
  <2>4. \A i \in 1..Len(r) : r[i] \notin S /\ \E j \in 1..n : r[i] = s[j]
    BY <1>6 DEF Left
  <2>5. \A j \in 1..n : s[j] \notin S => \E i \in 1..Len(r) : r[i] = s[j]
    BY <1>6 DEF Left
  <2> HIDE DEF n
  <2> QED BY <2>2, <2>3, <2>4, <2>5
<1> QED BY <1>6, <1>7 DEF r

-----------------------------------------------------------------------------
(* The inductive invariant.                                                *)

Labels == {"idle", "push", "client", "clientWrite", "backend", "copy"}
Requests ==
    [buf : Nat \union {None}, servant : Servants \union {None}, count : Nat, busy : BOOLEAN]
Numbers == 1..(MaxReplies + 1)

\* A worker has a buffer between the copy of its key and the queue.
StatTypes ==
    /\ m_allKeys \in Seq(Nat) /\ m_keyCntList \in Seq(Nat) /\ recent \in Seq(Keys)
    /\ recorder \in {"sleep", "drain", "record"} /\ m_processTopKey = (recorder # "sleep")
    /\ inHand \in Nat \union {None} /\ (inHand # None <=> recorder = "record")
    /\ DOMAIN buffers \subseteq Numbers /\ buffers \in [DOMAIN buffers -> Keys]
    /\ DOMAIN nodes \subseteq Numbers /\ nodes \in [DOMAIN nodes -> Nat \ {0}]
    /\ DOMAIN m_keyCntMap \subseteq Keys
    /\ m_keyCntMap \in [DOMAIN m_keyCntMap -> [buf : Nat, node : Nat]]
    /\ pc \in [Workers -> Labels] /\ request \in [Workers -> Requests]
    /\ \A w \in Workers : request[w].buf # None <=> pc[w] = "push"
    /\ DOMAIN report = Workers
    /\ replies \in 0..MaxReplies

\* What a lock protects does not change while it is held.
LockInv ==
    /\ m_lock \in Workers \union {None} /\ m_clientLock \in Workers \union {None}
    /\ \A w \in Workers :
         /\ pc[w] = "copy" => m_lock = w /\ report[w] = m_keyCntMap
         /\ pc[w] = "clientWrite" => m_clientLock = w /\ request[w].count = request_num

\* The four places a buffer may be in.
AtWorkers == {request[w].buf : w \in Workers} \ {None}
Queued == ToSet(m_allKeys)
AtHand == {inHand} \ {None}
Counted == {m_keyCntMap[k].buf : k \in DOMAIN m_keyCntMap}

\* Every buffer is in one of them, once.
BufferInv ==
    /\ DOMAIN buffers = AtWorkers \union Queued \union AtHand \union Counted
    /\ AtWorkers \cap (Queued \union AtHand \union Counted) = {}
    /\ Queued \cap (AtHand \union Counted) = {}
    /\ AtHand \cap Counted = {}
    /\ \A v, w \in Workers : request[v].buf = request[w].buf /\ request[v].buf # None => v = w
    /\ IsInjective(m_allKeys)
    /\ \A k \in DOMAIN m_keyCntMap : buffers[m_keyCntMap[k].buf] = k
    /\ Cardinality(DOMAIN buffers) <= replies

\* The nodes of the list and the keys of the map are one to one.
NodeInv ==
    /\ DOMAIN nodes = ToSet(m_keyCntList) /\ IsInjective(m_keyCntList)
    /\ DOMAIN nodes = {m_keyCntMap[k].node : k \in DOMAIN m_keyCntMap}
    /\ \A j, k \in DOMAIN m_keyCntMap : m_keyCntMap[j].node = m_keyCntMap[k].node => j = k

\* The list begins with the keys recorded last.
RecentInv ==
    /\ Len(m_keyCntList) <= m_maxKeyCnt
    /\ Len(recent) <= midSize + 1 /\ Len(recent) <= Len(m_keyCntList)
    /\ \A n \in 1..Len(recent) :
         recent[n] \in DOMAIN m_keyCntMap /\ m_keyCntMap[recent[n]].node = m_keyCntList[n]

Sum(f) == SumFunctionOnSet(f, DOMAIN f)
Holders == {w \in Workers : request[w].buf # None}
AtBackend == {w \in Workers : pc[w] = "backend"}

KeysInv == Sum(nodes) + Waiting = owed /\ owed <= replies

ServantsInv ==
    /\ request_num \in Nat /\ request_num = finished
    /\ m_AllRequestTimes \in [Servants -> Nat]
    /\ \A w \in AtBackend : request[w].servant \in Servants
    /\ Sum(m_AllRequestTimes) + Cardinality(AtBackend) <= request_num

StatInv ==
    StatTypes /\ LockInv /\ BufferInv /\ NodeInv /\ RecentInv /\ KeysInv /\ ServantsInv

-----------------------------------------------------------------------------
(* Functions that gain or lose an element.                                 *)

LEMMA WithType ==
    ASSUME NEW D, NEW T, NEW f \in [D -> T], NEW x, NEW v \in T
    PROVE  With(f, x, v) \in [D \union {x} -> T]
BY DEF With

LEMMA WithoutType ==
    ASSUME NEW D, NEW T, NEW f \in [D -> T], NEW S
    PROVE  Without(f, S) \in [D \ S -> T]
BY DEF Without, Restrict

\* There is a number that is not used.
LEMMA UnusedIs ==
    ASSUME NEW f, DOMAIN f \subseteq Numbers, Cardinality(DOMAIN f) <= MaxReplies
    PROVE  Unused(f) \in Numbers /\ Unused(f) \notin DOMAIN f
<1> DEFINE D == DOMAIN f
           T == (1..(MaxReplies + 1)) \ D
<1>1. IsFiniteSet(Numbers) /\ Cardinality(Numbers) = MaxReplies + 1
  BY BoundsAssumption, FS_Interval DEF Numbers
<1>2. IsFiniteSet(D) /\ Cardinality(D) \in Nat
  BY <1>1, FS_Subset, FS_CardinalityType
<1>3. D # Numbers
  BY <1>1, <1>2, BoundsAssumption
<1>4. T # {} /\ T \in SUBSET Nat
  <2>1. Numbers \ D # {}
    BY <1>3
  <2>2. Numbers \ D = T /\ T \in SUBSET Nat
    BY BoundsAssumption DEF Numbers
  <2> QED BY <2>1, <2>2
<1> HIDE DEF D, T
<1>5. Min(T) \in T
  BY <1>4, MinIsLeast
<1>6. Unused(f) = Min(T)
  BY DEF Unused, T, D
<1> HIDE DEF Unused
<1> QED BY <1>5, <1>6 DEF T, D, Numbers

-----------------------------------------------------------------------------
(* Counts.                                                                 *)

LEMMA FiniteDomains ==
    ASSUME StatTypes
    PROVE  /\ IsFiniteSet(DOMAIN buffers) /\ Cardinality(DOMAIN buffers) \in Nat
           /\ IsFiniteSet(DOMAIN nodes) /\ Cardinality(DOMAIN nodes) \in Nat
           /\ IsFiniteSet(Holders) /\ Cardinality(Holders) \in Nat
           /\ IsFiniteSet(AtBackend) /\ Cardinality(AtBackend) \in Nat
<1>1. IsFiniteSet(Numbers)
  BY BoundsAssumption, FS_Interval DEF Numbers
<1>2. DOMAIN buffers \in SUBSET Numbers /\ DOMAIN nodes \in SUBSET Numbers
  BY DEF StatTypes
<1>3. IsFiniteSet(DOMAIN buffers) /\ IsFiniteSet(DOMAIN nodes)
  BY <1>1, <1>2, FS_Subset
<1>4. Holders \in SUBSET Workers /\ AtBackend \in SUBSET Workers
  BY DEF Holders, AtBackend
<1>5. IsFiniteSet(Holders) /\ IsFiniteSet(AtBackend)
  BY <1>4, FiniteAssumption, FS_Subset
<1> QED BY <1>3, <1>5, FS_CardinalityType

\* What is counted, and what waits.
LEMMA CountTypes ==
    ASSUME StatTypes
    PROVE  /\ Sum(nodes) \in Nat /\ Waiting \in Nat
           /\ Waiting = Len(m_allKeys) + (IF inHand = None THEN 0 ELSE 1) + Cardinality(Holders)
<1>1. \A n \in DOMAIN nodes : nodes[n] = nodes[n] /\ nodes[n] \in Nat
  BY DEF StatTypes
<1>2. Sum(nodes) \in Nat
  BY <1>1, FiniteDomains, SumSame DEF Sum
<1>3. Waiting = Len(m_allKeys) + (IF inHand = None THEN 0 ELSE 1) + Cardinality(Holders)
  BY DEF Waiting, Holders
<1>4. Len(m_allKeys) \in Nat /\ Cardinality(Holders) \in Nat
  BY FiniteDomains DEF StatTypes
<1> QED BY <1>2, <1>3, <1>4

\* There are no more nodes than buffers.
LEMMA FewNodes ==
    ASSUME StatTypes, BufferInv, NodeInv
    PROVE  Cardinality(DOMAIN nodes) <= Cardinality(DOMAIN buffers)
<1> DEFINE K == DOMAIN m_keyCntMap
           key(n) == CHOOSE k \in K : m_keyCntMap[k].node = n
           f == [n \in DOMAIN nodes |-> m_keyCntMap[key(n)].buf]
<1>1. \A n \in DOMAIN nodes : key(n) \in K /\ m_keyCntMap[key(n)].node = n
  BY DEF NodeInv
<1>2. \A k \in K : m_keyCntMap[k].buf \in DOMAIN buffers /\ buffers[m_keyCntMap[k].buf] = k
  BY DEF BufferInv, Counted
<1> HIDE DEF key, K
<1>3. f \in Injection(DOMAIN nodes, DOMAIN buffers)
  <2>1. f \in [DOMAIN nodes -> DOMAIN buffers]
    BY <1>1, <1>2
  <2>2. ASSUME NEW a \in DOMAIN nodes, NEW b \in DOMAIN nodes, f[a] = f[b] PROVE a = b
    <3>1. m_keyCntMap[key(a)].buf = m_keyCntMap[key(b)].buf
      BY <2>2
    <3>2. key(a) = key(b)
      BY <1>1, <1>2, <3>1
    <3> QED BY <1>1, <3>2
  <2> QED BY <2>1, <2>2 DEF Injection, IsInjective
<1> HIDE DEF f
<1> QED BY <1>3, FiniteDomains, FS_Injection

-----------------------------------------------------------------------------
(* What a step leaves alone.                                               *)

\* No buffer changes hands.
LEMMA SameBuffers ==
    ASSUME StatInv, \A w \in Workers : request'[w].buf = request[w].buf,
           UNCHANGED <<m_allKeys, buffers, inHand, m_keyCntList, nodes, m_keyCntMap, owed, replies, recent>>
    PROVE  BufferInv' /\ NodeInv' /\ RecentInv' /\ KeysInv'
<1>1. AtWorkers' = AtWorkers /\ Holders' = Holders
  BY DEF AtWorkers, Holders
<1>2. Queued' = Queued /\ AtHand' = AtHand /\ Counted' = Counted
  BY DEF Queued, AtHand, Counted
<1>3. BufferInv'
  BY <1>1, <1>2 DEF StatInv, BufferInv
<1>4. NodeInv' /\ RecentInv'
  <2>1. NodeInv'
    BY DEF StatInv, NodeInv
  <2>2. RecentInv'
    BY DEF StatInv, RecentInv
  <2> QED BY <2>1, <2>2
<1>5. Waiting' = Waiting /\ Sum(nodes)' = Sum(nodes)
  BY <1>1 DEF Waiting, Holders, Sum
<1> QED BY <1>3, <1>4, <1>5 DEF StatInv, KeysInv

\* No request is counted.
LEMMA SameCounters ==
    ASSUME StatInv, UNCHANGED counterVars,
           \A w \in Workers : pc'[w] = "backend" <=> pc[w] = "backend",
           \A w \in AtBackend : request'[w].servant = request[w].servant
    PROVE  ServantsInv'
<1>1. AtBackend' = AtBackend
  BY DEF AtBackend
<1>2. Sum(m_AllRequestTimes)' = Sum(m_AllRequestTimes)
  BY DEF Sum, counterVars
<1> QED BY <1>1, <1>2 DEF StatInv, ServantsInv, counterVars

-----------------------------------------------------------------------------
(* The steps of the workers that count requests and copy the map.          *)

LEMMA CountClientKeeps == ASSUME StatInv, NEW w \in Workers, CountClient(w) PROVE StatInv'
<1>1. /\ pc[w] = "client" /\ m_clientLock = None /\ m_clientLock' = w
      /\ request' = [request EXCEPT ![w].count = request_num]
      /\ pc' = [pc EXCEPT ![w] = "clientWrite"]
      /\ UNCHANGED <<m_processTopKey, recorder, inHand, m_keyCntList, nodes, m_keyCntMap, recent>>
      /\ UNCHANGED <<request_num, m_AllRequestTimes, finished, m_allKeys, buffers, m_lock, report,
                      replies, owed>>
  BY DEF CountClient, Goto, recorderVars, counterVars
<1>2. request_num \in Nat
  BY DEF StatInv, ServantsInv
<1>3. /\ \A v \in Workers : request'[v].buf = request[v].buf /\ request'[v].servant = request[v].servant
      /\ \A v \in Workers \ {w} : request'[v] = request[v] /\ pc'[v] = pc[v]
      /\ request'[w].count = request_num /\ pc'[w] = "clientWrite"
  BY <1>1 DEF StatInv, StatTypes, Requests
<1>4. StatTypes'
  <2>1. request' \in [Workers -> Requests]
    BY <1>1, <1>2 DEF StatInv, StatTypes, Requests
  <2>2. pc' \in [Workers -> Labels]
    BY <1>1 DEF StatInv, StatTypes, Labels
  <2>3. \A v \in Workers : request'[v].buf # None <=> pc'[v] = "push"
    BY <1>1, <1>3 DEF StatInv, StatTypes
  <2> QED BY <1>1, <2>1, <2>2, <2>3 DEF StatInv, StatTypes
<1>5. LockInv'
  BY <1>1, <1>3, NoneAssumption DEF StatInv, LockInv, StatTypes
<1>6. BufferInv' /\ NodeInv' /\ RecentInv' /\ KeysInv'
  BY <1>1, <1>3, SameBuffers
<1>7. ServantsInv'
  <2>1. \A v \in Workers : pc'[v] = "backend" <=> pc[v] = "backend"
    BY <1>1, <1>3
  <2>2. UNCHANGED counterVars /\ AtBackend \subseteq Workers
    BY <1>1 DEF counterVars, AtBackend
  <2> QED BY <1>3, <2>1, <2>2, SameCounters
<1> QED BY <1>4, <1>5, <1>6, <1>7 DEF StatInv

\* What was read under the lock is still what is there.
LEMMA ClientCountedKeeps == ASSUME StatInv, NEW w \in Workers, ClientCounted(w) PROVE StatInv'
<1> DEFINE to == IF request[w].servant = None THEN "idle" ELSE "backend"
<1>1. /\ pc[w] = "clientWrite" /\ m_clientLock' = None
      /\ request' = [request EXCEPT ![w].count = 0]
      /\ pc' = [pc EXCEPT ![w] = to]
      /\ UNCHANGED <<m_processTopKey, recorder, inHand, m_keyCntList, nodes, m_keyCntMap, recent>>
      /\ UNCHANGED <<m_AllRequestTimes, m_allKeys, buffers, m_lock, report, replies, owed>>
  BY DEF ClientCounted, Goto, recorderVars
<1>2. request_num' = request_num + 1 /\ finished' = finished + 1 /\ request_num \in Nat /\ finished = request_num
  BY DEF ClientCounted, StatInv, LockInv, ServantsInv
<1>3. /\ \A v \in Workers : request'[v].buf = request[v].buf /\ request'[v].servant = request[v].servant
      /\ \A v \in Workers \ {w} : request'[v] = request[v] /\ pc'[v] = pc[v]
      /\ pc'[w] = to /\ to \in {"idle", "backend"}
  BY <1>1 DEF StatInv, StatTypes, Requests
<1>4. StatTypes'
  <2>1. request' \in [Workers -> Requests]
    BY <1>1 DEF StatInv, StatTypes, Requests
  <2>2. pc' \in [Workers -> Labels]
    BY <1>1 DEF StatInv, StatTypes, Labels
  <2>3. \A v \in Workers : request'[v].buf # None <=> pc'[v] = "push"
    BY <1>1, <1>3 DEF StatInv, StatTypes
  <2> QED BY <1>1, <2>1, <2>2, <2>3 DEF StatInv, StatTypes
<1>5. LockInv'
  <2>1. \A v \in Workers \ {w} : pc[v] # "clientWrite"
    BY <1>1 DEF StatInv, LockInv
  <2> QED BY <1>1, <1>3, <2>1 DEF StatInv, LockInv
<1>6. BufferInv' /\ NodeInv' /\ RecentInv' /\ KeysInv'
  BY <1>1, <1>3, SameBuffers
<1>7. ServantsInv'
  <2>1. request[w].servant \in Servants \union {None}
    BY DEF StatInv, StatTypes, Requests
  <2>2. AtBackend' = IF to = "backend" THEN AtBackend \union {w} ELSE AtBackend
    BY <1>1, <1>3 DEF AtBackend
  <2>3. w \notin AtBackend /\ IsFiniteSet(AtBackend) /\ Cardinality(AtBackend) \in Nat
    BY <1>1, FiniteDomains DEF AtBackend, StatInv
  <2>4. Cardinality(AtBackend \union {w}) = Cardinality(AtBackend) + 1
    BY <2>3, FS_AddElement
  <2>5. Cardinality(AtBackend') \in Nat /\ Cardinality(AtBackend') <= Cardinality(AtBackend) + 1
    <3> HIDE DEF to
    <3>1. AtBackend' = AtBackend \union {w} \/ AtBackend' = AtBackend
      BY <2>2
    <3> QED BY <3>1, <2>3, <2>4
  <2>6. Sum(m_AllRequestTimes)' = Sum(m_AllRequestTimes) /\ Sum(m_AllRequestTimes) \in Nat
    <3>1. \A s \in Servants : m_AllRequestTimes[s] = m_AllRequestTimes[s] /\ m_AllRequestTimes[s] \in Nat
      BY DEF StatInv, ServantsInv
    <3>2. DOMAIN m_AllRequestTimes = Servants
      BY DEF StatInv, ServantsInv
    <3> QED BY <1>1, <3>1, <3>2, FiniteAssumption, SumSame DEF Sum
  <2>7. \A v \in AtBackend' : request'[v].servant \in Servants
    <3>1. \A v \in AtBackend : request[v].servant \in Servants /\ v \in Workers
      BY DEF StatInv, ServantsInv, AtBackend
    <3>2. to = "backend" => request[w].servant \in Servants
      BY <2>1
    <3> HIDE DEF to
    <3> QED BY <1>3, <2>2, <3>1, <3>2
  <2>8. Sum(m_AllRequestTimes) + Cardinality(AtBackend) <= request_num
    BY DEF StatInv, ServantsInv
  <2>9. (Sum(m_AllRequestTimes) + Cardinality(AtBackend) <= request_num)'
    BY <1>2, <2>3, <2>5, <2>6, <2>8
  <2> QED BY <1>1, <1>2, <2>7, <2>9 DEF StatInv, ServantsInv
<1> QED BY <1>4, <1>5, <1>6, <1>7 DEF StatInv

\* The server's record counts one more.
LEMMA SumUp ==
    ASSUME NEW S, IsFiniteSet(S), NEW f \in [S -> Nat], NEW x \in S,
           NEW g, g = [f EXCEPT ![x] = f[x] + 1]
    PROVE  Sum(f) \in Nat /\ Sum(g) = Sum(f) + 1
<1> DEFINE T == S \ {x}
<1>1. IsFiniteSet(T) /\ x \notin T /\ T \union {x} = S
  BY FS_RemoveElement
<1>2. DOMAIN f = S /\ DOMAIN g = S /\ g[x] = f[x] + 1
  OBVIOUS
<1>3. \A y \in S : f[y] \in Nat /\ g[y] \in Nat
  OBVIOUS
<1>4. \A y \in T : f[y] = g[y] /\ f[y] \in Nat
  OBVIOUS
<1> HIDE DEF T
<1>5. SumFunctionOnSet(f, T) = SumFunctionOnSet(g, T) /\ SumFunctionOnSet(f, T) \in Nat
  BY <1>1, <1>4, SumSame
<1>6. SumFunctionOnSet(f, T \union {x}) = SumFunctionOnSet(f, T) + f[x]
  BY <1>1, <1>3, SumMore
<1>7. SumFunctionOnSet(g, T \union {x}) = SumFunctionOnSet(g, T) + g[x]
  BY <1>1, <1>3, SumMore
<1>8. Sum(f) = SumFunctionOnSet(f, T) + f[x] /\ Sum(g) = SumFunctionOnSet(f, T) + f[x] + 1
  BY <1>1, <1>2, <1>3, <1>5, <1>6, <1>7 DEF Sum
<1> QED BY <1>3, <1>5, <1>8

LEMMA CountServantKeeps == ASSUME StatInv, NEW w \in Workers, CountServant(w) PROVE StatInv'
<1> DEFINE s == request[w].servant
           f == m_AllRequestTimes
<1>1. /\ pc[w] = "backend" /\ f' = [f EXCEPT ![s] = f[s] + 1]
      /\ request' = [request EXCEPT ![w] = NoRequest] /\ pc' = [pc EXCEPT ![w] = "idle"]
      /\ UNCHANGED <<m_processTopKey, recorder, inHand, m_keyCntList, nodes, m_keyCntMap, recent>>
      /\ UNCHANGED <<request_num, finished, m_clientLock, m_allKeys, buffers, m_lock, report,
                      replies, owed>>
  BY DEF CountServant, Goto, recorderVars, lockVars
<1>2. /\ \A v \in Workers \ {w} : request'[v] = request[v] /\ pc'[v] = pc[v]
      /\ request'[w] = NoRequest /\ pc'[w] = "idle"
  BY <1>1 DEF StatInv, StatTypes
<1>3. request[w].buf = None /\ request'[w].buf = None
  BY <1>1, <1>2 DEF StatInv, StatTypes, NoRequest
<1>4. StatTypes'
  <2>1. NoRequest \in Requests
    BY DEF NoRequest, Requests
  <2>2. request' \in [Workers -> Requests]
    BY <1>1, <2>1 DEF StatInv, StatTypes
  <2>3. pc' \in [Workers -> Labels]
    BY <1>1 DEF StatInv, StatTypes, Labels
  <2>4. \A v \in Workers : request'[v].buf # None <=> pc'[v] = "push"
    BY <1>2, <1>3 DEF StatInv, StatTypes
  <2> QED BY <1>1, <2>2, <2>3, <2>4 DEF StatInv, StatTypes
<1>5. LockInv'
  BY <1>1, <1>2 DEF StatInv, LockInv
<1>6. BufferInv' /\ NodeInv' /\ RecentInv' /\ KeysInv'
  <2>1. \A v \in Workers : request'[v].buf = request[v].buf
    BY <1>2, <1>3
  <2> QED BY <1>1, <2>1, SameBuffers
<1>7. ServantsInv'
  <2>1. f \in [Servants -> Nat] /\ w \in AtBackend
    BY <1>1 DEF StatInv, ServantsInv, AtBackend
  <2>2. s \in Servants
    BY <2>1 DEF StatInv, ServantsInv
  <2>3. f' \in [Servants -> Nat]
    BY <1>1, <2>1, <2>2
  <2>4. Sum(f) \in Nat /\ Sum(f') = Sum(f) + 1
    <3> HIDE DEF s
    <3> QED BY <1>1, <2>1, <2>2, FiniteAssumption, SumUp
  <2>5. AtBackend' = AtBackend \ {w}
    BY <1>2 DEF AtBackend
  <2>6. IsFiniteSet(AtBackend) /\ Cardinality(AtBackend) \in Nat
    BY FiniteDomains DEF StatInv
  <2>7. Cardinality(AtBackend \ {w}) = Cardinality(AtBackend) - 1
    BY <2>1, <2>6, FS_RemoveElement
  <2>8. \A v \in AtBackend' : request'[v].servant \in Servants
    <3>1. \A v \in AtBackend \ {w} : request'[v] = request[v]
      BY <1>2 DEF AtBackend
    <3> QED BY <2>5, <3>1 DEF StatInv, ServantsInv
  <2>9. Sum(f) + Cardinality(AtBackend) <= request_num
    BY DEF StatInv, ServantsInv
  <2>10. Sum(f)' = Sum(f')
    BY DEF Sum
  <2>11. (Sum(m_AllRequestTimes) + Cardinality(AtBackend) <= request_num)'
    BY <1>1, <2>4, <2>5, <2>6, <2>7, <2>9, <2>10
  <2> QED BY <1>1, <2>3, <2>8, <2>11 DEF StatInv, ServantsInv
<1> QED BY <1>4, <1>5, <1>6, <1>7 DEF StatInv

\* The map is copied under its lock.
LEMMA sortTopKeyKeeps == ASSUME StatInv, NEW w \in Workers, sortTopKey(w) PROVE StatInv'
<1>1. /\ pc[w] = "idle" /\ m_lock = None /\ m_lock' = w
      /\ report' = [report EXCEPT ![w] = m_keyCntMap] /\ pc' = [pc EXCEPT ![w] = "copy"]
      /\ UNCHANGED <<m_processTopKey, recorder, inHand, m_keyCntList, nodes, m_keyCntMap, recent>>
      /\ UNCHANGED <<request_num, m_AllRequestTimes, finished, m_clientLock, m_allKeys, buffers,
                      request, replies, owed>>
      /\ UNCHANGED counterVars
  BY DEF sortTopKey, Goto, recorderVars, counterVars, lockVars
<1>2. /\ \A v \in Workers \ {w} : report'[v] = report[v] /\ pc'[v] = pc[v]
      /\ report'[w] = m_keyCntMap /\ pc'[w] = "copy" /\ DOMAIN report' = Workers
  BY <1>1 DEF StatInv, StatTypes
<1>3. StatTypes'
  <2>1. pc' \in [Workers -> Labels]
    BY <1>1 DEF StatInv, StatTypes, Labels
  <2>2. \A v \in Workers : request'[v].buf # None <=> pc'[v] = "push"
    BY <1>1, <1>2 DEF StatInv, StatTypes
  <2> QED BY <1>1, <1>2, <2>1, <2>2 DEF StatInv, StatTypes
<1>4. LockInv'
  <2>1. \A v \in Workers : pc[v] # "copy"
    BY <1>1, NoneAssumption DEF StatInv, LockInv
  <2> QED BY <1>1, <1>2, <2>1 DEF StatInv, LockInv
<1>5. BufferInv' /\ NodeInv' /\ RecentInv' /\ KeysInv'
  BY <1>1, SameBuffers
<1>6. ServantsInv'
  <2>1. \A v \in Workers : pc'[v] = "backend" <=> pc[v] = "backend"
    BY <1>1, <1>2
  <2> QED BY <1>1, <2>1, SameCounters
<1> QED BY <1>3, <1>4, <1>5, <1>6 DEF StatInv

LEMMA CopiedKeeps == ASSUME StatInv, NEW w \in Workers, Copied(w) PROVE StatInv'
<1>1. /\ pc[w] = "copy" /\ m_lock' = None
      /\ report' = [report EXCEPT ![w] = EmptyMap] /\ pc' = [pc EXCEPT ![w] = "idle"]
      /\ UNCHANGED <<m_processTopKey, recorder, inHand, m_keyCntList, nodes, m_keyCntMap, recent>>
      /\ UNCHANGED <<request_num, m_AllRequestTimes, finished, m_clientLock, m_allKeys, buffers,
                      request, replies, owed>>
      /\ UNCHANGED counterVars
  BY DEF Copied, Goto, recorderVars, counterVars, lockVars
<1>2. /\ \A v \in Workers \ {w} : report'[v] = report[v] /\ pc'[v] = pc[v]
      /\ pc'[w] = "idle" /\ DOMAIN report' = Workers
  BY <1>1 DEF StatInv, StatTypes
<1>3. StatTypes'
  <2>1. pc' \in [Workers -> Labels]
    BY <1>1 DEF StatInv, StatTypes, Labels
  <2>2. \A v \in Workers : request'[v].buf # None <=> pc'[v] = "push"
    BY <1>1, <1>2 DEF StatInv, StatTypes
  <2> QED BY <1>1, <1>2, <2>1, <2>2 DEF StatInv, StatTypes
<1>4. LockInv'
  <2>1. \A v \in Workers \ {w} : pc[v] # "copy"
    BY <1>1 DEF StatInv, LockInv
  <2> QED BY <1>1, <1>2, <2>1 DEF StatInv, LockInv
<1>5. BufferInv' /\ NodeInv' /\ RecentInv' /\ KeysInv'
  BY <1>1, SameBuffers
<1>6. ServantsInv'
  <2>1. \A v \in Workers : pc'[v] = "backend" <=> pc[v] = "backend"
    BY <1>1, <1>2
  <2> QED BY <1>1, <2>1, SameCounters
<1> QED BY <1>3, <1>4, <1>5, <1>6 DEF StatInv

-----------------------------------------------------------------------------
(* The steps that move a key to the queue and to the recorder.             *)

LEMMA WakeKeeps == ASSUME StatInv, Wake PROVE StatInv'
<1>1. /\ recorder = "sleep" /\ recorder' = "drain" /\ m_processTopKey' = TRUE
      /\ UNCHANGED <<m_allKeys, inHand, buffers, m_keyCntList, nodes, m_keyCntMap, m_lock, pc,
                      request, lockVars, counterVars, report, replies, recent, owed>>
  BY DEF Wake
<1>2. StatTypes'
  BY <1>1 DEF StatInv, StatTypes
<1>3. LockInv'
  BY <1>1 DEF StatInv, LockInv, lockVars, counterVars
<1>4. BufferInv' /\ NodeInv' /\ RecentInv' /\ KeysInv'
  BY <1>1, SameBuffers
<1>5. ServantsInv'
  BY <1>1, SameCounters
<1> QED BY <1>2, <1>3, <1>4, <1>5 DEF StatInv

\* The recorder takes the buffer that is next in the queue.
LEMMA PopKeeps == ASSUME StatInv, Pop PROVE StatInv'
<1>1. /\ recorder = "drain"
      /\ UNCHANGED <<buffers, m_keyCntList, nodes, m_keyCntMap, m_lock, pc, request, lockVars,
                      counterVars, report, replies, recent, owed>>
  BY DEF Pop
<1>2. inHand = None
  BY <1>1 DEF StatInv, StatTypes
<1>3. LockInv' /\ ServantsInv'
  <2>1. LockInv'
    BY <1>1 DEF StatInv, LockInv, lockVars, counterVars
  <2> QED BY <1>1, <2>1, SameCounters
<1>4. CASE m_allKeys = <<>>
  <2>1. recorder' = "sleep" /\ m_processTopKey' = FALSE /\ UNCHANGED <<m_allKeys, inHand>>
    BY <1>4 DEF Pop
  <2>2. StatTypes'
    BY <1>1, <1>2, <2>1 DEF StatInv, StatTypes
  <2>3. BufferInv' /\ NodeInv' /\ RecentInv' /\ KeysInv'
    BY <1>1, <2>1, SameBuffers
  <2> QED BY <1>3, <2>2, <2>3 DEF StatInv
<1>5. CASE m_allKeys # <<>>
  <2>1. /\ inHand' = Head(m_allKeys) /\ m_allKeys' = Tail(m_allKeys) /\ recorder' = "record"
        /\ m_processTopKey' = m_processTopKey
    BY <1>5 DEF Pop
  <2>2. m_allKeys \in Seq(Nat) /\ IsInjective(m_allKeys)
    BY DEF StatInv, StatTypes, BufferInv
  <2>3. /\ inHand' \in Nat /\ inHand' \in Queued /\ m_allKeys' \in Seq(Nat)
        /\ IsInjective(m_allKeys') /\ Queued' = Queued \ {inHand'}
    BY <1>5, <2>1, <2>2, TakeHead DEF Queued
  <2>4. inHand' # None
    BY <2>3, NoneAssumption
  <2>5. Len(m_allKeys) = Len(m_allKeys') + 1 /\ Len(m_allKeys') \in Nat
    BY <1>5, <2>1, <2>2
  <2>6. StatTypes'
    BY <1>1, <2>1, <2>3, <2>4 DEF StatInv, StatTypes
  <2>7. AtWorkers' = AtWorkers /\ Counted' = Counted /\ AtHand = {} /\ AtHand' = {inHand'}
    BY <1>1, <1>2, <2>4 DEF AtWorkers, Counted, AtHand
  <2>8. BufferInv'
    <3>1. DOMAIN buffers' = AtWorkers' \union Queued' \union AtHand' \union Counted'
      BY <1>1, <2>3, <2>7 DEF StatInv, BufferInv
    <3>2. /\ AtWorkers' \cap (Queued' \union AtHand' \union Counted') = {}
          /\ Queued' \cap (AtHand' \union Counted') = {} /\ AtHand' \cap Counted' = {}
      BY <2>3, <2>7 DEF StatInv, BufferInv
    <3> QED BY <1>1, <2>3, <3>1, <3>2 DEF StatInv, BufferInv
  <2>9. NodeInv' /\ RecentInv'
    <3>1. NodeInv'
      BY <1>1 DEF StatInv, NodeInv
    <3>2. RecentInv'
      BY <1>1 DEF StatInv, RecentInv
    <3> QED BY <3>1, <3>2
  <2>10. KeysInv'
    <3>1. Holders' = Holders /\ Sum(nodes)' = Sum(nodes)
      BY <1>1 DEF Holders, Sum
    <3>2. Waiting = Len(m_allKeys) + Cardinality(Holders)
      BY <1>2, <2>5, CountTypes, FiniteDomains DEF StatInv
    <3>3. Waiting' = Len(m_allKeys') + 1 + Cardinality(Holders)
      BY <2>4, <3>1 DEF Waiting, Holders
    <3>4. Waiting' = Waiting
      BY <2>5, <3>2, <3>3, FiniteDomains DEF StatInv
    <3> QED BY <1>1, <3>1, <3>4 DEF StatInv, KeysInv
  <2> QED BY <1>3, <2>6, <2>8, <2>9, <2>10 DEF StatInv
<1> QED BY <1>4, <1>5

\* A buffer of its own is allocated for a key.
LEMMA KeyTakenKeeps ==
    ASSUME StatInv, NEW w \in Workers, NEW key \in Keys, NEW servant \in Servants \union {None},
           replyClientFinished(w, key, servant), key # None
    PROVE  StatInv'
<1> DEFINE b == Unused(buffers)
<1>1. /\ pc[w] = "idle" /\ replies < MaxReplies /\ replies' = replies + 1
      /\ buffers' = With(buffers, b, key)
      /\ request' = [request EXCEPT ![w] =
                      [buf |-> b, servant |-> servant, count |-> 0, busy |-> m_processTopKey]]
      /\ owed' = owed + 1 /\ pc' = [pc EXCEPT ![w] = "push"]
      /\ UNCHANGED <<m_processTopKey, recorder, inHand, m_keyCntList, nodes, m_keyCntMap, recent>>
      /\ UNCHANGED counterVars
      /\ UNCHANGED <<m_clientLock, m_allKeys, m_lock, report>>
  BY DEF replyClientFinished, Goto, recorderVars
<1>2. replies \in Nat /\ replies' \in 0..MaxReplies
  BY <1>1, BoundsAssumption DEF StatInv, StatTypes
<1>3. IsFiniteSet(DOMAIN buffers) /\ Cardinality(DOMAIN buffers) \in Nat
  BY FiniteDomains DEF StatInv
<1>4. b \in Numbers /\ b \notin DOMAIN buffers /\ b \in Nat /\ b # None
  <2>1. DOMAIN buffers \subseteq Numbers /\ Cardinality(DOMAIN buffers) <= MaxReplies
    BY <1>1, <1>2, <1>3, BoundsAssumption DEF StatInv, StatTypes, BufferInv
  <2>2. b \in Numbers /\ b \notin DOMAIN buffers
    BY <2>1, UnusedIs
  <2> QED BY <2>2, BoundsAssumption, NoneAssumption DEF Numbers
<1> HIDE DEF b
<1>5. /\ DOMAIN buffers' = DOMAIN buffers \union {b} /\ buffers'[b] = key
      /\ \A c \in DOMAIN buffers : buffers'[c] = buffers[c]
      /\ buffers' \in [DOMAIN buffers' -> Keys]
  <2>1. buffers \in [DOMAIN buffers -> Keys]
    BY DEF StatInv, StatTypes
  <2>2. With(buffers, b, key) \in [DOMAIN buffers \union {b} -> Keys]
    BY <2>1, WithType
  <2>3. buffers' = [c \in DOMAIN buffers \union {b} |-> IF c = b THEN key ELSE buffers[c]]
    BY <1>1 DEF With
  <2>4. DOMAIN buffers' = DOMAIN buffers \union {b} /\ buffers'[b] = key
    BY <2>3
  <2>5. \A c \in DOMAIN buffers : buffers'[c] = buffers[c]
    BY <1>4, <2>3
  <2> QED BY <1>1, <2>2, <2>4, <2>5
<1>6. /\ \A v \in Workers \ {w} : request'[v] = request[v] /\ pc'[v] = pc[v]
      /\ request'[w].buf = b /\ request'[w].count = 0 /\ request'[w].servant = servant
      /\ pc'[w] = "push" /\ request[w].buf = None
  BY <1>1 DEF StatInv, StatTypes
<1>7. StatTypes'
  <2>1. request' \in [Workers -> Requests]
    <3>1. m_processTopKey \in BOOLEAN
      BY DEF StatInv, StatTypes
    <3>2. [buf |-> b, servant |-> servant, count |-> 0, busy |-> m_processTopKey] \in Requests
      BY <1>4, <3>1 DEF Requests
    <3> QED BY <1>1, <3>2 DEF StatInv, StatTypes
  <2>2. pc' \in [Workers -> Labels]
    BY <1>1 DEF StatInv, StatTypes, Labels
  <2>3. \A v \in Workers : request'[v].buf # None <=> pc'[v] = "push"
    BY <1>4, <1>6 DEF StatInv, StatTypes
  <2>4. buffers' \in [DOMAIN buffers' -> Keys] /\ DOMAIN buffers' \subseteq Numbers
    BY <1>4, <1>5 DEF StatInv, StatTypes
  <2> QED BY <1>1, <1>2, <2>1, <2>2, <2>3, <2>4 DEF StatInv, StatTypes
<1>8. LockInv'
  BY <1>1, <1>6 DEF StatInv, LockInv, counterVars
<1>9. BufferInv'
  <2>1. AtWorkers' = AtWorkers \union {b}
    <3>1. \A v \in Workers : request'[v].buf = IF v = w THEN b ELSE request[v].buf
      BY <1>6
    <3> QED BY <1>4, <1>6, <3>1 DEF AtWorkers
  <2>2. Queued' = Queued /\ AtHand' = AtHand /\ Counted' = Counted
    BY <1>1 DEF Queued, AtHand, Counted
  <2>3. b \notin AtWorkers /\ b \notin Queued /\ b \notin AtHand /\ b \notin Counted
    BY <1>4 DEF StatInv, BufferInv
  <2>4. DOMAIN buffers' = AtWorkers' \union Queued' \union AtHand' \union Counted'
    BY <1>5, <2>1, <2>2 DEF StatInv, BufferInv
  <2>5. /\ AtWorkers' \cap (Queued' \union AtHand' \union Counted') = {}
        /\ Queued' \cap (AtHand' \union Counted') = {} /\ AtHand' \cap Counted' = {}
    BY <2>1, <2>2, <2>3 DEF StatInv, BufferInv
  <2>6. ASSUME NEW u \in Workers, NEW v \in Workers, request'[u].buf = request'[v].buf,
               request'[u].buf # None
        PROVE  u = v
    <3>1. \A x \in Workers \ {w} : request'[x].buf # b
      BY <1>4, <1>6, <2>3 DEF AtWorkers
    <3> QED BY <1>6, <2>6, <3>1 DEF StatInv, BufferInv
  <2>7. \A k \in DOMAIN m_keyCntMap' : buffers'[m_keyCntMap'[k].buf] = k
    <3>1. \A k \in DOMAIN m_keyCntMap : m_keyCntMap[k].buf \in DOMAIN buffers
      BY DEF StatInv, BufferInv, Counted
    <3> QED BY <1>1, <1>5, <3>1 DEF StatInv, BufferInv
  <2>8. Cardinality(DOMAIN buffers') <= replies'
    <3>1. Cardinality(DOMAIN buffers \union {b}) = Cardinality(DOMAIN buffers) + 1
      BY <1>3, <1>4, FS_AddElement
    <3> QED BY <1>1, <1>2, <1>3, <1>5, <3>1 DEF StatInv, BufferInv
  <2> QED BY <1>1, <2>4, <2>5, <2>6, <2>7, <2>8 DEF StatInv, BufferInv
<1>10. NodeInv' /\ RecentInv'
  <2>1. NodeInv'
    BY <1>1 DEF StatInv, NodeInv
  <2>2. RecentInv'
    BY <1>1 DEF StatInv, RecentInv
  <2> QED BY <2>1, <2>2
<1>11. KeysInv'
  <2>1. Holders' = Holders \union {w} /\ w \notin Holders
    BY <1>4, <1>6 DEF Holders
  <2>2. Cardinality(Holders') = Cardinality(Holders) + 1 /\ Cardinality(Holders) \in Nat
    BY <2>1, FiniteDomains, FS_AddElement DEF StatInv
  <2>3. Waiting' = Len(m_allKeys) + (IF inHand = None THEN 0 ELSE 1) + Cardinality(Holders')
    BY <1>1 DEF Waiting, Holders
  <2>4. /\ Waiting = Len(m_allKeys) + (IF inHand = None THEN 0 ELSE 1) + Cardinality(Holders)
        /\ Waiting \in Nat /\ Sum(nodes) \in Nat
    BY CountTypes DEF StatInv
  <2>5. Len(m_allKeys) \in Nat
    BY DEF StatInv, StatTypes
  <2>6. Waiting' = Waiting + 1
    BY <2>2, <2>3, <2>4, <2>5
  <2>7. Sum(nodes)' = Sum(nodes)
    BY <1>1 DEF Sum
  <2> QED BY <1>1, <1>2, <2>4, <2>6, <2>7 DEF StatInv, KeysInv
<1>12. ServantsInv'
  <2>1. \A v \in Workers : pc'[v] = "backend" <=> pc[v] = "backend"
    BY <1>1, <1>6
  <2>2. \A v \in AtBackend : request'[v].servant = request[v].servant
    BY <1>1, <1>6 DEF AtBackend
  <2> QED BY <1>1, <2>1, <2>2, SameCounters
<1> QED BY <1>7, <1>8, <1>9, <1>10, <1>11, <1>12 DEF StatInv

\* A request without a key has no buffer.
LEMMA KeylessKeeps ==
    ASSUME StatInv, NEW w \in Workers, NEW servant, replyClientFinished(w, None, servant)
    PROVE  StatInv'
<1>1. /\ pc[w] = "idle" /\ replies < MaxReplies /\ replies' = replies + 1
      /\ request' = [request EXCEPT ![w] = NoRequest] /\ pc' = [pc EXCEPT ![w] = "client"]
      /\ UNCHANGED <<m_processTopKey, recorder, inHand, m_keyCntList, nodes, m_keyCntMap, recent>>
      /\ UNCHANGED counterVars
      /\ UNCHANGED <<m_clientLock, m_allKeys, m_lock, report, buffers, owed>>
  BY DEF replyClientFinished, Goto, recorderVars
<1>2. replies \in Nat /\ replies' \in 0..MaxReplies
  BY <1>1, BoundsAssumption DEF StatInv, StatTypes
<1>3. /\ \A v \in Workers \ {w} : request'[v] = request[v] /\ pc'[v] = pc[v]
      /\ request'[w].buf = None /\ pc'[w] = "client" /\ request[w].buf = None
  BY <1>1 DEF StatInv, StatTypes, NoRequest
<1>4. StatTypes'
  <2>1. NoRequest \in Requests
    BY DEF NoRequest, Requests
  <2>2. request' \in [Workers -> Requests]
    BY <1>1, <2>1 DEF StatInv, StatTypes
  <2>3. pc' \in [Workers -> Labels]
    BY <1>1 DEF StatInv, StatTypes, Labels
  <2>4. \A v \in Workers : request'[v].buf # None <=> pc'[v] = "push"
    BY <1>3 DEF StatInv, StatTypes
  <2> QED BY <1>1, <1>2, <2>2, <2>3, <2>4 DEF StatInv, StatTypes
<1>5. LockInv'
  BY <1>1, <1>3 DEF StatInv, LockInv, counterVars
<1>6. AtWorkers' = AtWorkers /\ Holders' = Holders /\ \A v \in Workers : request'[v].buf = request[v].buf
  <2>1. \A v \in Workers : request'[v].buf = request[v].buf
    BY <1>3
  <2> QED BY <2>1 DEF AtWorkers, Holders
<1>7. BufferInv'
  <2>1. Queued' = Queued /\ AtHand' = AtHand /\ Counted' = Counted
    BY <1>1 DEF Queued, AtHand, Counted
  <2>2. Cardinality(DOMAIN buffers') <= replies'
    BY <1>1, <1>2, FiniteDomains DEF StatInv, BufferInv
  <2> QED BY <1>1, <1>6, <2>1, <2>2 DEF StatInv, BufferInv
<1>8. NodeInv' /\ RecentInv'
  <2>1. NodeInv'
    BY <1>1 DEF StatInv, NodeInv
  <2>2. RecentInv'
    BY <1>1 DEF StatInv, RecentInv
  <2> QED BY <2>1, <2>2
<1>9. KeysInv'
  <2>1. Waiting' = Waiting /\ Sum(nodes)' = Sum(nodes)
    BY <1>1, <1>6 DEF Waiting, Holders, Sum
  <2>2. Sum(nodes) \in Nat /\ Waiting \in Nat
    BY CountTypes DEF StatInv
  <2> QED BY <1>1, <1>2, <2>1, <2>2 DEF StatInv, KeysInv
<1>10. ServantsInv'
  <2>1. \A v \in Workers : pc'[v] = "backend" <=> pc[v] = "backend"
    BY <1>1, <1>3
  <2>2. \A v \in AtBackend : request'[v].servant = request[v].servant
    BY <1>1, <1>3 DEF AtBackend
  <2> QED BY <1>1, <2>1, <2>2, SameCounters
<1> QED BY <1>4, <1>5, <1>7, <1>8, <1>9, <1>10 DEF StatInv

\* The buffer goes to the queue, or is freed.
LEMMA PushKeeps == ASSUME StatInv, NEW w \in Workers, Push(w) PROVE StatInv'
<1> DEFINE b == request[w].buf
<1>1. /\ pc[w] = "push" /\ pc' = [pc EXCEPT ![w] = "client"]
      /\ request' = [request EXCEPT ![w].buf = None, ![w].busy = FALSE]
      /\ UNCHANGED <<m_processTopKey, recorder, inHand, m_keyCntList, nodes, m_keyCntMap, recent>>
      /\ UNCHANGED counterVars
      /\ UNCHANGED <<m_clientLock, m_lock, report, replies>>
  BY DEF Push, Goto, recorderVars
<1>2. b # None /\ b \in Nat /\ b \in AtWorkers /\ w \in Holders
  <2>1. b # None /\ b \in Nat
    BY <1>1 DEF StatInv, StatTypes, Requests
  <2> QED BY <2>1 DEF AtWorkers, Holders
<1>3. b \in DOMAIN buffers /\ b \notin Queued /\ b \notin AtHand /\ b \notin Counted
  BY <1>2 DEF StatInv, BufferInv
<1>4. /\ \A v \in Workers \ {w} : request'[v] = request[v] /\ pc'[v] = pc[v]
      /\ request'[w].buf = None /\ request'[w].count = request[w].count
      /\ request'[w].servant = request[w].servant /\ pc'[w] = "client"
  BY <1>1 DEF StatInv, StatTypes, Requests
<1>5. \A v \in Workers \ {w} : request[v].buf # b
  BY <1>2 DEF StatInv, BufferInv
<1>6. request' \in [Workers -> Requests] /\ pc' \in [Workers -> Labels]
  <2>1. request' \in [Workers -> Requests]
    BY <1>1 DEF StatInv, StatTypes, Requests
  <2>2. pc' \in [Workers -> Labels]
    BY <1>1 DEF StatInv, StatTypes, Labels
  <2> QED BY <2>1, <2>2
<1>7. \A v \in Workers : request'[v].buf # None <=> pc'[v] = "push"
  BY <1>4 DEF StatInv, StatTypes
<1>8. LockInv'
  BY <1>1, <1>4 DEF StatInv, LockInv, counterVars
<1>9. ServantsInv'
  <2>1. \A v \in Workers : pc'[v] = "backend" <=> pc[v] = "backend"
    BY <1>1, <1>4
  <2>2. \A v \in AtBackend : request'[v].servant = request[v].servant
    BY <1>4 DEF AtBackend
  <2> QED BY <1>1, <2>1, <2>2, SameCounters
<1>10. RecentInv'
  BY <1>1 DEF StatInv, RecentInv
<1>11. NodeInv'
  BY <1>1 DEF StatInv, NodeInv
<1>12. AtWorkers' = AtWorkers \ {b} /\ AtHand' = AtHand /\ Counted' = Counted
  <2>1. AtWorkers' = AtWorkers \ {b}
    BY <1>2, <1>4, <1>5 DEF AtWorkers
  <2> QED BY <1>1, <2>1 DEF AtHand, Counted
<1>13. \A u, v \in Workers : request'[u].buf = request'[v].buf /\ request'[u].buf # None => u = v
  BY <1>4 DEF StatInv, BufferInv
<1>14. /\ Holders' = Holders \ {w} /\ Cardinality(Holders') = Cardinality(Holders) - 1
       /\ Cardinality(Holders) \in Nat
  <2>1. Holders' = Holders \ {w}
    BY <1>4 DEF Holders
  <2> QED BY <1>2, <2>1, FiniteDomains, FS_RemoveElement DEF StatInv
<1>15. /\ Waiting = Len(m_allKeys) + (IF inHand = None THEN 0 ELSE 1) + Cardinality(Holders)
       /\ Waiting' = Len(m_allKeys') + (IF inHand = None THEN 0 ELSE 1) + Cardinality(Holders')
       /\ Sum(nodes) \in Nat /\ Sum(nodes)' = Sum(nodes) /\ Len(m_allKeys) \in Nat
  <2>1. Waiting' = Len(m_allKeys') + (IF inHand = None THEN 0 ELSE 1) + Cardinality(Holders')
    BY <1>1 DEF Waiting, Holders
  <2>2. Sum(nodes)' = Sum(nodes)
    BY <1>1 DEF Sum
  <2>3. Len(m_allKeys) \in Nat
    BY DEF StatInv, StatTypes
  <2> QED BY <2>1, <2>2, <2>3, CountTypes DEF StatInv
<1> HIDE DEF b
<1>16. CASE ~request[w].busy
  <2>1. m_allKeys' = Append(m_allKeys, b) /\ UNCHANGED <<buffers, owed>>
    BY <1>16 DEF Push, b
  <2>2. m_allKeys \in Seq(Nat) /\ IsInjective(m_allKeys)
    BY DEF StatInv, StatTypes, BufferInv
  <2>3. m_allKeys' \in Seq(Nat) /\ Queued' = Queued \union {b} /\ IsInjective(m_allKeys')
    BY <1>2, <1>3, <2>1, <2>2, AppendTail DEF Queued
  <2>4. StatTypes'
    BY <1>1, <1>6, <1>7, <2>1, <2>3 DEF StatInv, StatTypes
  <2>5. BufferInv'
    <3>1. DOMAIN buffers' = AtWorkers' \union Queued' \union AtHand' \union Counted'
      BY <1>2, <1>12, <2>1, <2>3 DEF StatInv, BufferInv
    <3>2. /\ AtWorkers' \cap (Queued' \union AtHand' \union Counted') = {}
          /\ Queued' \cap (AtHand' \union Counted') = {} /\ AtHand' \cap Counted' = {}
      BY <1>3, <1>12, <2>3 DEF StatInv, BufferInv
    <3> QED BY <1>1, <1>13, <2>1, <2>3, <3>1, <3>2 DEF StatInv, BufferInv
  <2>6. KeysInv'
    <3>1. Len(m_allKeys') = Len(m_allKeys) + 1
      BY <2>1, <2>2
    <3>2. Waiting' = Waiting
      BY <1>14, <1>15, <3>1
    <3> QED BY <1>1, <1>15, <2>1, <3>2 DEF StatInv, KeysInv
  <2> QED BY <1>8, <1>9, <1>10, <1>11, <2>4, <2>5, <2>6 DEF StatInv
<1>17. CASE request[w].busy
  <2>1. buffers' = Without(buffers, {b}) /\ owed' = owed - 1 /\ UNCHANGED m_allKeys
    BY <1>17 DEF Push, b
  <2>2. buffers \in [DOMAIN buffers -> Keys]
    BY DEF StatInv, StatTypes
  <2>3. buffers' \in [DOMAIN buffers \ {b} -> Keys] /\ DOMAIN buffers' = DOMAIN buffers \ {b}
    <3>1. Without(buffers, {b}) \in [DOMAIN buffers \ {b} -> Keys]
      BY <2>2, WithoutType
    <3> QED BY <2>1, <3>1
  <2>4. \A c \in DOMAIN buffers \ {b} : buffers'[c] = buffers[c]
    BY <2>1 DEF Without, Restrict
  <2>5. StatTypes'
    BY <1>1, <1>6, <1>7, <2>1, <2>3 DEF StatInv, StatTypes
  <2>6. BufferInv'
    <3>1. Queued' = Queued
      BY <2>1 DEF Queued
    <3>2. DOMAIN buffers' = AtWorkers' \union Queued' \union AtHand' \union Counted'
      BY <1>3, <1>12, <2>3, <3>1 DEF StatInv, BufferInv
    <3>3. /\ AtWorkers' \cap (Queued' \union AtHand' \union Counted') = {}
          /\ Queued' \cap (AtHand' \union Counted') = {} /\ AtHand' \cap Counted' = {}
      BY <1>3, <1>12, <3>1 DEF StatInv, BufferInv
    <3>4. \A k \in DOMAIN m_keyCntMap' : buffers'[m_keyCntMap'[k].buf] = k
      <4>1. \A k \in DOMAIN m_keyCntMap : m_keyCntMap[k].buf \in Counted
        BY DEF Counted
      <4>2. \A k \in DOMAIN m_keyCntMap : m_keyCntMap[k].buf \in DOMAIN buffers \ {b}
        BY <1>3, <4>1 DEF StatInv, BufferInv
      <4> QED BY <1>1, <2>4, <4>2 DEF StatInv, BufferInv
    <3>5. Cardinality(DOMAIN buffers') <= replies'
      <4>1. Cardinality(DOMAIN buffers \ {b}) = Cardinality(DOMAIN buffers) - 1
        BY <1>3, FiniteDomains, FS_RemoveElement DEF StatInv
      <4> QED BY <1>1, <2>3, <4>1, FiniteDomains DEF StatInv, BufferInv, StatTypes
    <3> QED BY <1>1, <1>13, <2>1, <3>2, <3>3, <3>4, <3>5 DEF StatInv, BufferInv
  <2>7. KeysInv'
    <3>1. Waiting \in Nat /\ Waiting' = Waiting - 1
      BY <1>14, <1>15, <2>1
    <3>2. replies \in Nat
      BY DEF StatInv, StatTypes
    <3> QED BY <1>1, <1>15, <2>1, <3>1, <3>2 DEF StatInv, KeysInv
  <2> QED BY <1>8, <1>9, <1>10, <1>11, <2>5, <2>6, <2>7 DEF StatInv
<1> QED BY <1>16, <1>17

-----------------------------------------------------------------------------
(* What the recorder does to the list.                                     *)

\* A sequence of distinct elements is as long as the set of them is large.
LEMMA DistinctLength ==
    ASSUME NEW X, NEW s \in Seq(X), IsInjective(s)
    PROVE  IsFiniteSet(ToSet(s)) /\ Cardinality(ToSet(s)) = Len(s)
<1>1. Len(s) \in Nat /\ DOMAIN s = 1..Len(s)
  OBVIOUS
<1>2. IsFiniteSet(1..Len(s)) /\ Cardinality(1..Len(s)) = Len(s)
  BY <1>1, FS_Interval
<1>3. s \in [1..Len(s) -> ToSet(s)]
  BY <1>1 DEF ToSet
<1>4. \A y \in ToSet(s) : \E i \in 1..Len(s) : s[i] = y
  BY <1>1 DEF ToSet
<1>5. \A i, j \in 1..Len(s) : s[i] = s[j] => i = j
  BY <1>1 DEF IsInjective
<1>6. s \in Injection(1..Len(s), ToSet(s))
  BY <1>1, <1>3, <1>5 DEF Injection, IsInjective
<1>7. s \in Surjection(1..Len(s), ToSet(s))
  BY <1>3, <1>4 DEF Surjection
<1> QED BY <1>2, <1>6, <1>7, FS_Surjection

\* An element put in front of a sequence.
LEMMA InFront ==
    ASSUME NEW X, NEW s \in Seq(X), NEW x \in X
    PROVE  /\ <<x>> \o s \in Seq(X) /\ Len(<<x>> \o s) = Len(s) + 1 /\ (<<x>> \o s)[1] = x
           /\ \A i \in 1..Len(s) : (<<x>> \o s)[i + 1] = s[i]
           /\ ToSet(<<x>> \o s) = {x} \union ToSet(s)
           /\ IsInjective(s) /\ x \notin ToSet(s) => IsInjective(<<x>> \o s)
<1> DEFINE t == <<x>> \o s
<1>1. /\ t \in Seq(X) /\ Len(t) = Len(s) + 1 /\ t[1] = x /\ Len(s) \in Nat
      /\ DOMAIN s = 1..Len(s) /\ DOMAIN t = 1..(Len(s) + 1)
  OBVIOUS
<1>2. \A i \in 1..Len(s) : t[i + 1] = s[i]
  OBVIOUS
<1> HIDE DEF t
<1>3. \A j \in 1..(Len(s) + 1) : j = 1 \/ (j - 1 \in 1..Len(s) /\ t[j] = s[j - 1])
  <2> SUFFICES ASSUME NEW j \in 1..(Len(s) + 1), j # 1
               PROVE  j - 1 \in 1..Len(s) /\ t[j] = s[j - 1]
    OBVIOUS
  <2>1. j - 1 \in 1..Len(s) /\ (j - 1) + 1 = j
    BY <1>1
  <2> QED BY <1>2, <2>1
<1>4. ToSet(t) = {x} \union ToSet(s)
  <2>1. \A y \in ToSet(t) : y \in {x} \union ToSet(s)
    BY <1>1, <1>3 DEF ToSet
  <2>2. x \in ToSet(t)
    <3>1. 1 \in DOMAIN t
      BY <1>1
    <3> QED BY <1>1, <3>1 DEF ToSet
  <2>3. \A y \in ToSet(s) : y \in ToSet(t)
    <3> SUFFICES ASSUME NEW i \in 1..Len(s) PROVE s[i] \in ToSet(t)
      BY <1>1 DEF ToSet
    <3>1. i + 1 \in DOMAIN t
      BY <1>1
    <3> QED BY <1>2, <3>1 DEF ToSet
  <2> QED BY <2>1, <2>2, <2>3
<1>5. ASSUME IsInjective(s), x \notin ToSet(s) PROVE IsInjective(t)
  <2>1. \A i \in 1..Len(s) : s[i] # x
    BY <1>1, <1>5 DEF ToSet
  <2>2. \A i, j \in 1..Len(s) : s[i] = s[j] => i = j
    BY <1>1, <1>5 DEF IsInjective
  <2>3. ASSUME NEW i \in DOMAIN t, NEW j \in DOMAIN t, t[i] = t[j] PROVE i = j
    <3>1. CASE i = 1
      BY <1>1, <1>3, <2>1, <2>3, <3>1
    <3>2. CASE j = 1
      BY <1>1, <1>3, <2>1, <2>3, <3>2
    <3>3. CASE i # 1 /\ j # 1
      <4>1. i - 1 \in 1..Len(s) /\ j - 1 \in 1..Len(s) /\ s[i - 1] = s[j - 1]
        BY <1>1, <1>3, <2>3, <3>3
      <4>2. i - 1 = j - 1
        BY <2>2, <4>1
      <4> QED BY <1>1, <4>2
    <3> QED BY <3>1, <3>2, <3>3
  <2> QED BY <2>3 DEF IsInjective
<1> QED BY <1>1, <1>2, <1>4, <1>5 DEF t

\* The sum of a function some of whose values are replaced by one.
LEMMA SumReplaced ==
    ASSUME NEW S, IsFiniteSet(S), NEW f \in [S -> Nat], NEW V \in SUBSET S,
           NEW x, x \notin S \ V, NEW c \in Nat
    PROVE  /\ SumFunctionOnSet(f, V) \in Nat /\ Sum(f) \in Nat
           /\ Sum(With(Without(f, V), x, c)) = Sum(f) - SumFunctionOnSet(f, V) + c
<1> DEFINE T == S \ V
           g == [y \in T \union {x} |-> IF y = x THEN c ELSE f[y]]
<1>1. With(Without(f, V), x, c) = g
  BY DEF With, Without, Restrict
<1>2. IsFiniteSet(T) /\ IsFiniteSet(V)
  BY FS_Subset
<1>3. DOMAIN f = S /\ \A y \in S : f[y] = f[y] /\ f[y] \in Nat
  OBVIOUS
<1>4. /\ DOMAIN g = T \union {x} /\ g[x] = c /\ x \notin T /\ T \subseteq S
      /\ \A y \in T \union {x} : g[y] \in Nat
  OBVIOUS
<1>5. \A y \in T : f[y] = g[y] /\ f[y] \in Nat
  BY <1>3, <1>4
<1> HIDE DEF T, g
<1>6. SumFunctionOnSet(f, T) = SumFunctionOnSet(g, T) /\ SumFunctionOnSet(f, T) \in Nat
  BY <1>2, <1>5, SumSame
<1>7. SumFunctionOnSet(g, T \union {x}) = SumFunctionOnSet(g, T) + g[x]
  BY <1>2, <1>4, SumMore
<1>8. SumFunctionOnSet(f, S) = SumFunctionOnSet(f, V) + SumFunctionOnSet(f, T)
  BY <1>3, SumParts DEF T
<1>9. SumFunctionOnSet(f, V) \in Nat /\ SumFunctionOnSet(f, S) \in Nat
  <2>1. \A y \in V : f[y] = f[y] /\ f[y] \in Nat
    BY <1>3
  <2>2. SumFunctionOnSet(f, V) \in Nat
    BY <1>2, <2>1, SumSame
  <2> QED BY <1>3, <2>2, SumSame
<1>10. Sum(g) = SumFunctionOnSet(g, T \union {x}) /\ Sum(f) = SumFunctionOnSet(f, S)
  BY <1>3, <1>4 DEF Sum
<1> QED BY <1>1, <1>4, <1>6, <1>7, <1>8, <1>9, <1>10

\* The nodes V are taken off the list and their keys, or the key recorded, off
\* the map; the key recorded has a new node in front of the list, with count c.
Moved(V, key, node, c) ==
    /\ nodes' = With(Without(nodes, V), node, c)
    /\ m_keyCntList' = <<node>> \o Spared(m_keyCntList, V)
    /\ DOMAIN m_keyCntMap' = {k \in DOMAIN m_keyCntMap : m_keyCntMap[k].node \notin V} \union {key}
    /\ m_keyCntMap'[key].node = node
    /\ \A k \in DOMAIN m_keyCntMap \ {key} :
         m_keyCntMap[k].node \notin V => m_keyCntMap'[k] = m_keyCntMap[k]

\* The list keeps its elements apart, and the map its nodes.
LEMMA NodesMoved ==
    ASSUME StatInv, NEW V \in SUBSET DOMAIN nodes, NEW key, NEW c \in Nat \ {0}, NEW node,
           node = Unused(Without(nodes, V)), Moved(V, key, node, c),
           key \in DOMAIN m_keyCntMap => m_keyCntMap[key].node \in V,
           Cardinality(DOMAIN nodes) <= MaxReplies
    PROVE  /\ NodeInv' /\ node \in Nat /\ m_keyCntList' \in Seq(Nat)
           /\ DOMAIN nodes' \subseteq Numbers /\ nodes' \in [DOMAIN nodes' -> Nat \ {0}]
           /\ SumFunctionOnSet(nodes, V) \in Nat /\ Sum(nodes) \in Nat
           /\ Sum(nodes)' = Sum(nodes) - SumFunctionOnSet(nodes, V) + c
<1> DEFINE D == DOMAIN nodes
           K == DOMAIN m_keyCntMap
           f == Without(nodes, V)
           l == Spared(m_keyCntList, V)
<1>1. IsFiniteSet(D) /\ D \subseteq Numbers /\ nodes \in [D -> Nat \ {0}]
  BY FiniteDomains DEF StatInv, StatTypes
<1>2. f \in [D \ V -> Nat \ {0}] /\ DOMAIN f = D \ V
  <2>1. f \in [D \ V -> Nat \ {0}]
    BY <1>1, WithoutType
  <2> QED BY <2>1
<1>3. node \in Numbers /\ node \notin D \ V
  <2>1. Cardinality(D \ V) <= Cardinality(D) /\ Cardinality(D \ V) \in Nat /\ Cardinality(D) \in Nat
    <3>1. D \ V \in SUBSET D
      OBVIOUS
    <3>2. IsFiniteSet(D \ V) /\ Cardinality(D \ V) <= Cardinality(D)
      BY <1>1, <3>1, FS_Subset
    <3> QED BY <1>1, <3>2, FS_CardinalityType
  <2>2. DOMAIN f \subseteq Numbers /\ Cardinality(DOMAIN f) <= MaxReplies
    BY <1>1, <1>2, <2>1, BoundsAssumption
  <2> HIDE DEF f
  <2>3. Unused(f) \in Numbers /\ Unused(f) \notin DOMAIN f
    BY <2>2, UnusedIs
  <2> QED BY <1>2, <2>3 DEF f
<1>4. node \in Nat
  BY <1>3, BoundsAssumption DEF Numbers
<1>5. nodes' \in [(D \ V) \union {node} -> Nat \ {0}] /\ DOMAIN nodes' = (D \ V) \union {node}
  <2>1. With(f, node, c) \in [(D \ V) \union {node} -> Nat \ {0}]
    BY <1>2, WithType
  <2>2. nodes' = With(f, node, c)
    BY DEF Moved
  <2> QED BY <2>1, <2>2
<1>6. /\ m_keyCntList \in Seq(Nat) /\ ToSet(m_keyCntList) = D /\ IsInjective(m_keyCntList)
      /\ D = {m_keyCntMap[k].node : k \in K}
      /\ \A j, k \in K : m_keyCntMap[j].node = m_keyCntMap[k].node => j = k
  BY DEF StatInv, StatTypes, NodeInv
<1>7. l \in Seq(Nat) /\ ToSet(l) = D \ V /\ IsInjective(l)
  <2>1. l \in Seq(Nat) /\ ToSet(l) = D \ V /\ Left(l, m_keyCntList, V, Len(m_keyCntList))
    BY <1>6, SparedIs
  <2> QED BY <1>6, <2>1 DEF Left
<1>8. m_keyCntList' = <<node>> \o l
  BY DEF Moved
<1> HIDE DEF l, f
<1>9. m_keyCntList' \in Seq(Nat) /\ ToSet(m_keyCntList') = {node} \union (D \ V) /\ IsInjective(m_keyCntList')
  BY <1>3, <1>4, <1>7, <1>8, InFront
<1>10. NodeInv'
  <2>1. DOMAIN m_keyCntMap' = {k \in K : m_keyCntMap[k].node \notin V} \union {key}
    BY DEF Moved
  <2>2. m_keyCntMap'[key].node = node
    BY DEF Moved
  <2>3. ASSUME NEW k \in DOMAIN m_keyCntMap', k # key
        PROVE  k \in K /\ m_keyCntMap'[k].node = m_keyCntMap[k].node /\ m_keyCntMap[k].node \in D \ V
    <3>1. k \in K /\ m_keyCntMap[k].node \notin V
      BY <2>1, <2>3
    <3>2. m_keyCntMap'[k] = m_keyCntMap[k]
      BY <2>3, <3>1 DEF Moved
    <3> QED BY <1>6, <3>1, <3>2
  <2>4. ASSUME NEW n \in D \ V PROVE \E k \in DOMAIN m_keyCntMap' : m_keyCntMap'[k].node = n
    <3>1. PICK k \in K : m_keyCntMap[k].node = n
      BY <1>6
    <3>2. k # key /\ k \in DOMAIN m_keyCntMap'
      BY <2>1, <3>1
    <3> QED BY <2>3, <3>1, <3>2
  <2>5. DOMAIN nodes' = {m_keyCntMap'[k].node : k \in DOMAIN m_keyCntMap'}
    <3>1. \A n \in DOMAIN nodes' : \E k \in DOMAIN m_keyCntMap' : m_keyCntMap'[k].node = n
      BY <1>5, <2>1, <2>2, <2>4
    <3>2. \A k \in DOMAIN m_keyCntMap' : m_keyCntMap'[k].node \in DOMAIN nodes'
      BY <1>5, <2>2, <2>3
    <3> QED BY <3>1, <3>2
  <2>6. ASSUME NEW j \in DOMAIN m_keyCntMap', NEW k \in DOMAIN m_keyCntMap',
               m_keyCntMap'[j].node = m_keyCntMap'[k].node
        PROVE  j = k
    <3>1. CASE j = key
      BY <1>3, <2>2, <2>3, <2>6, <3>1
    <3>2. CASE k = key
      BY <1>3, <2>2, <2>3, <2>6, <3>2
    <3>3. CASE j # key /\ k # key
      BY <1>6, <2>3, <2>6, <3>3
    <3> QED BY <3>1, <3>2, <3>3
  <2> QED BY <1>5, <1>9, <2>5, <2>6 DEF NodeInv
<1>11. /\ SumFunctionOnSet(nodes, V) \in Nat /\ Sum(nodes) \in Nat
       /\ Sum(nodes)' = Sum(nodes) - SumFunctionOnSet(nodes, V) + c
  <2>1. nodes \in [D -> Nat]
    BY <1>1
  <2>2. /\ SumFunctionOnSet(nodes, V) \in Nat /\ Sum(nodes) \in Nat
        /\ Sum(With(Without(nodes, V), node, c)) = Sum(nodes) - SumFunctionOnSet(nodes, V) + c
    BY <1>1, <1>3, <2>1, SumReplaced
  <2>3. Sum(nodes)' = Sum(With(Without(nodes, V), node, c))
    BY DEF Sum, Moved
  <2> QED BY <2>2, <2>3
<1>12. DOMAIN nodes' \subseteq Numbers /\ nodes' \in [DOMAIN nodes' -> Nat \ {0}]
  <2>1. (D \ V) \union {node} \subseteq Numbers
    BY <1>1, <1>3
  <2> HIDE DEF D
  <2> QED BY <1>5, <2>1
<1> QED BY <1>4, <1>9, <1>10, <1>11, <1>12

\* Without V the list begins with the keys recorded last before but for key.
Aligned(V, key) ==
    \A i \in 1..Len(Spared(recent, {key})) : i <= midSize =>
       LET k == Spared(recent, {key})[i]
       IN  /\ i <= Len(Spared(m_keyCntList, V)) /\ k \in DOMAIN m_keyCntMap
           /\ m_keyCntMap[k].node = Spared(m_keyCntList, V)[i]

\* The list begins with the keys recorded last if, without those taken off it, it
\* begins with those recorded last before.
LEMMA RecentMoved ==
    ASSUME StatInv, NEW V, NEW key \in Keys, NEW node \in Nat, NEW c,
           Moved(V, key, node, c), Remember(key),
           Len(Spared(m_keyCntList, V)) + 1 <= m_maxKeyCnt, Aligned(V, key)
    PROVE  RecentInv' /\ recent' \in Seq(Keys)
<1> DEFINE l == Spared(m_keyCntList, V)
           r == Spared(recent, {key})
           all == <<key>> \o r
           m == Min({Len(all), midSize + 1})
<1>1. m_keyCntList \in Seq(Nat) /\ recent \in Seq(Keys)
  BY DEF StatInv, StatTypes
<1>2. l \in Seq(Nat) /\ \A i \in 1..Len(l) : l[i] \notin V
  <2>1. l \in Seq(Nat) /\ Left(l, m_keyCntList, V, Len(m_keyCntList))
    BY <1>1, SparedIs
  <2> QED BY <2>1 DEF Left
<1>3. r \in Seq(Keys) /\ \A i \in 1..Len(r) : r[i] # key
  <2>1. r \in Seq(Keys) /\ Left(r, recent, {key}, Len(recent))
    BY <1>1, SparedIs
  <2> QED BY <2>1 DEF Left
<1>4. midSize \in Nat
  BY LimitAssumption DEF midSize
<1>5. recent' = SubSeq(all, 1, m)
  BY DEF Remember
<1>6. m_keyCntList' = <<node>> \o l
  BY DEF Moved
<1>7. \A i \in 1..Len(r) : i <= midSize =>
         i <= Len(l) /\ r[i] \in DOMAIN m_keyCntMap /\ m_keyCntMap[r[i]].node = l[i]
  BY DEF Aligned
<1>8. Len(l) + 1 <= m_maxKeyCnt
  OBVIOUS
<1> HIDE DEF l, r
<1>9. /\ all \in Seq(Keys) /\ Len(all) = Len(r) + 1 /\ all[1] = key /\ Len(r) \in Nat
      /\ \A i \in 1..Len(r) : all[i + 1] = r[i]
  BY <1>3, InFront
<1> HIDE DEF all
<1>10. m \in {Len(r) + 1, midSize + 1} /\ m <= Len(r) + 1 /\ m <= midSize + 1 /\ m \in Nat \ {0}
  <2>1. {Len(all), midSize + 1} \in SUBSET Nat /\ {Len(all), midSize + 1} # {}
    BY <1>4, <1>9
  <2>2. m \in {Len(all), midSize + 1} /\ \A y \in {Len(all), midSize + 1} : m <= y
    BY <2>1, MinIsLeast
  <2> QED BY <1>4, <1>9, <2>2
<1> HIDE DEF m
<1>11. recent' \in Seq(Keys) /\ Len(recent') = m /\ \A i \in 1..m : recent'[i] = all[i]
  BY <1>5, <1>9, <1>10
<1>12. /\ Len(m_keyCntList') = Len(l) + 1 /\ m_keyCntList'[1] = node /\ Len(l) \in Nat
       /\ \A i \in 1..Len(l) : m_keyCntList'[i + 1] = l[i]
  BY <1>2, <1>6, InFront
<1>13. m <= Len(l) + 1
  <2>1. CASE m = 1
    BY <1>12, <2>1
  <2>2. CASE m # 1
    <3>1. m - 1 \in 1..Len(r) /\ m - 1 <= midSize
      BY <1>4, <1>9, <1>10, <2>2
    <3>2. m - 1 <= Len(l)
      BY <1>7, <3>1
    <3> QED BY <1>10, <1>12, <3>2
  <2> QED BY <2>1, <2>2
<1>14. ASSUME NEW n \in 1..m
       PROVE  recent'[n] \in DOMAIN m_keyCntMap' /\ m_keyCntMap'[recent'[n]].node = m_keyCntList'[n]
  <2>1. CASE n = 1
    <3>1. recent'[n] = key
      BY <1>9, <1>11, <2>1
    <3> QED BY <1>12, <2>1, <3>1 DEF Moved
  <2>2. CASE n # 1
    <3> DEFINE i == n - 1
               k == r[i]
    <3>1. i \in 1..Len(r) /\ i <= midSize /\ n = i + 1
      BY <1>4, <1>9, <1>10, <2>2
    <3>2. recent'[n] = k
      BY <1>9, <1>11, <3>1
    <3>3. i \in 1..Len(l) /\ k \in DOMAIN m_keyCntMap /\ m_keyCntMap[k].node = l[i] /\ k # key
      BY <1>3, <1>7, <1>12, <3>1
    <3>4. m_keyCntMap[k].node \notin V
      BY <1>2, <3>3
    <3> HIDE DEF k, i
    <3>5. k \in DOMAIN m_keyCntMap' /\ m_keyCntMap'[k] = m_keyCntMap[k]
      BY <3>3, <3>4 DEF Moved
    <3>6. m_keyCntList'[n] = l[i]
      BY <1>12, <3>1, <3>3
    <3> QED BY <3>2, <3>3, <3>5, <3>6
  <2> QED BY <2>1, <2>2
<1>15. Len(m_keyCntList') <= m_maxKeyCnt
  BY <1>8, <1>12
<1>16. midSize' = midSize
  BY DEF midSize
<1> QED BY <1>10, <1>11, <1>12, <1>13, <1>14, <1>15, <1>16 DEF RecentInv

\* What every step of the recorder does: the buffer in its hand is no longer
\* waiting, nobody copies the map, and nothing else is disturbed.
LEMMA RecorderSteps ==
    ASSUME StatInv, keyRecorder
    PROVE  /\ inHand \in Nat /\ inHand \in DOMAIN buffers /\ buffers[inHand] \in Keys
           /\ inHand \notin AtWorkers \union Queued \union Counted /\ AtHand = {inHand}
           /\ AtWorkers' = AtWorkers /\ Queued' = Queued /\ AtHand' = {}
           /\ inHand' = None /\ m_processTopKey' = (recorder' # "sleep")
           /\ recorder' \in {"sleep", "drain", "record"} /\ recorder' # "record"
           /\ UNCHANGED <<m_allKeys, pc, request, report, replies>>
           /\ LockInv' /\ ServantsInv' /\ Waiting' = Waiting - 1 /\ Waiting \in Nat
           /\ Cardinality(DOMAIN nodes) <= MaxReplies
<1>1. /\ recorder = "record" /\ m_lock = None /\ inHand' = None /\ recorder' = "drain"
      /\ UNCHANGED <<m_processTopKey, m_allKeys, m_lock, pc, request, lockVars, counterVars,
                      report, replies>>
  BY DEF keyRecorder
<1>2. inHand \in Nat /\ inHand # None
  BY <1>1 DEF StatInv, StatTypes
<1>3. AtHand = {inHand} /\ AtHand' = {}
  BY <1>1, <1>2 DEF AtHand
<1>4. inHand \in DOMAIN buffers /\ inHand \notin AtWorkers \union Queued \union Counted
  BY <1>3 DEF StatInv, BufferInv
<1>5. buffers[inHand] \in Keys
  BY <1>4 DEF StatInv, StatTypes
<1>6. AtWorkers' = AtWorkers /\ Queued' = Queued /\ Holders' = Holders
  BY <1>1 DEF AtWorkers, Queued, Holders
<1>7. LockInv'
  <2>1. \A w \in Workers : pc[w] # "copy"
    BY <1>1, NoneAssumption DEF StatInv, LockInv
  <2> QED BY <1>1, <2>1 DEF StatInv, LockInv, lockVars, counterVars
<1>8. ServantsInv'
  BY <1>1, SameCounters
<1>9. Waiting' = Waiting - 1 /\ Waiting \in Nat
  <2>1. Waiting = Len(m_allKeys) + 1 + Cardinality(Holders) /\ Waiting \in Nat
    BY <1>2, CountTypes DEF StatInv
  <2>2. Waiting' = Len(m_allKeys) + 0 + Cardinality(Holders)
    BY <1>1 DEF Waiting, Holders
  <2>3. Len(m_allKeys) \in Nat /\ Cardinality(Holders) \in Nat
    BY FiniteDomains DEF StatInv, StatTypes
  <2> QED BY <2>1, <2>2, <2>3
<1>10. Cardinality(DOMAIN nodes) <= MaxReplies
  <2>1. Cardinality(DOMAIN nodes) <= Cardinality(DOMAIN buffers)
    BY FewNodes DEF StatInv
  <2>2. Cardinality(DOMAIN buffers) <= replies /\ replies <= MaxReplies /\ replies \in Nat
    BY BoundsAssumption DEF StatInv, BufferInv, StatTypes
  <2> QED BY <2>1, <2>2, FiniteDomains, BoundsAssumption DEF StatInv
<1>11. m_processTopKey' = (recorder' # "sleep")
  BY <1>1 DEF StatInv, StatTypes
<1> QED BY <1>1, <1>2, <1>3, <1>4, <1>5, <1>6, <1>7, <1>8, <1>9, <1>10, <1>11

\* The key recorded is at the same place of the list and of those recorded last,
\* and both close up behind it.
LEMMA BothCloseUp ==
    ASSUME StatInv, NEW key \in DOMAIN m_keyCntMap, NEW old, old = m_keyCntMap[key].node
    PROVE  /\ Len(Spared(m_keyCntList, {old})) = Len(m_keyCntList) - 1
           /\ Aligned({old}, key)
<1> DEFINE L == m_keyCntList
           R == recent
           n == Len(L)
           q == Len(R)
           l == Spared(L, {old})
           r == Spared(R, {key})
<1>1. L \in Seq(Nat) /\ R \in Seq(Keys) /\ n \in Nat /\ q \in Nat /\ q <= n /\ DOMAIN L = 1..n
  BY DEF StatInv, StatTypes, RecentInv
<1>2. \A i, j \in 1..n : L[i] = L[j] => i = j
  BY <1>1 DEF StatInv, NodeInv, IsInjective
<1>3. \A i \in 1..q : R[i] \in DOMAIN m_keyCntMap /\ m_keyCntMap[R[i]].node = L[i]
  BY DEF StatInv, RecentInv
<1>4. \A j, k \in DOMAIN m_keyCntMap : m_keyCntMap[j].node = m_keyCntMap[k].node => j = k
  BY DEF StatInv, NodeInv
<1>5. PICK p \in 1..n : L[p] = old
  <2>1. old \in ToSet(L)
    BY DEF StatInv, NodeInv
  <2> QED BY <1>1, <2>1 DEF ToSet
<1>6. l \in Seq(Nat) /\ Left(l, L, {old}, n)
  BY <1>1, SparedIs
<1>7. r \in Seq(Keys) /\ Left(r, R, {key}, q)
  BY <1>1, SparedIs
<1> HIDE DEF L, R, n, q, l, r
<1>8. \A i \in 1..n : L[i] \in {old} <=> i = p
  BY <1>2, <1>5
<1>9. Len(l) = n - 1 /\ \A i \in 1..(n - 1) : l[i] = IF i < p THEN L[i] ELSE L[i + 1]
  BY <1>5, <1>6, <1>8 DEF Left
<1>10. \A i \in 1..q : R[i] \in {key} <=> i = p
  <2> SUFFICES ASSUME NEW i \in 1..q PROVE R[i] = key <=> i = p
    OBVIOUS
  <2>1. i \in 1..n
    BY <1>1
  <2> QED BY <1>3, <1>4, <1>5, <1>8, <2>1
<1>11. ASSUME NEW i \in 1..Len(r)
       PROVE  i <= Len(l) /\ r[i] \in DOMAIN m_keyCntMap /\ m_keyCntMap[r[i]].node = l[i]
  <2>1. CASE p <= q
    <3>1. p \in 1..q
      BY <1>1, <2>1
    <3>2. Len(r) = q - 1 /\ \A j \in 1..(q - 1) : r[j] = IF j < p THEN R[j] ELSE R[j + 1]
      BY <1>7, <1>10, <3>1 DEF Left
    <3>3. i \in 1..(q - 1) /\ i \in 1..(n - 1) /\ i \in 1..q /\ i + 1 \in 1..q
      BY <1>1, <3>2
    <3>4. CASE i < p
      <4>1. r[i] = R[i] /\ l[i] = L[i]
        BY <1>9, <3>2, <3>3, <3>4
      <4> QED BY <1>1, <1>3, <1>9, <3>3, <4>1
    <3>5. CASE ~(i < p)
      <4>1. r[i] = R[i + 1] /\ l[i] = L[i + 1]
        BY <1>9, <3>2, <3>3, <3>5
      <4> QED BY <1>1, <1>3, <1>9, <3>3, <4>1
    <3> QED BY <3>4, <3>5
  <2>2. CASE p > q
    <3>1. \A j \in 1..q : R[j] \notin {key}
      BY <1>1, <1>10, <2>2
    <3>2. q \in 0..q
      BY <1>1
    <3>3. Len(r) >= q /\ Len(r) <= q /\ \A j \in 1..q : r[j] = R[j]
      BY <1>7, <3>1, <3>2 DEF Left
    <3>4. i \in 1..q /\ i \in 1..(n - 1) /\ i < p
      BY <1>1, <1>7, <2>2, <3>3
    <3> QED BY <1>1, <1>3, <1>9, <3>3, <3>4
  <2> QED BY <1>1, <2>1, <2>2
<1> QED BY <1>9, <1>11 DEF Aligned, L, R, n, l, r

\* A key that is known is counted once more, and its new buffer freed.
LEMMA KnownKeyKeeps ==
    ASSUME StatInv, keyRecorder, buffers[inHand] \in DOMAIN m_keyCntMap
    PROVE  StatInv'
<1> DEFINE key == buffers[inHand]
           old == m_keyCntMap[key].node
           node == Unused(Without(nodes, {old}))
<1>1. KnownKey(key) /\ Remember(key)
  BY DEF keyRecorder
<1>2. /\ inHand \in Nat /\ inHand \in DOMAIN buffers /\ key \in Keys
      /\ inHand \notin AtWorkers \union Queued \union Counted /\ AtHand = {inHand}
      /\ AtWorkers' = AtWorkers /\ Queued' = Queued /\ AtHand' = {}
      /\ inHand' = None /\ m_processTopKey' = (recorder' # "sleep")
      /\ recorder' \in {"sleep", "drain", "record"} /\ recorder' # "record"
      /\ UNCHANGED <<m_allKeys, pc, request, report, replies>>
      /\ LockInv' /\ ServantsInv' /\ Waiting' = Waiting - 1 /\ Waiting \in Nat
      /\ Cardinality(DOMAIN nodes) <= MaxReplies
  BY RecorderSteps
<1>3. /\ buffers' = Without(buffers, {inHand})
      /\ nodes' = With(Without(nodes, {old}), node, nodes[old] + 1)
      /\ m_keyCntList' = <<node>> \o Spared(m_keyCntList, {old})
      /\ m_keyCntMap' = [m_keyCntMap EXCEPT ![key].node = node]
      /\ owed' = owed
  BY <1>1 DEF KnownKey
<1>4. key \in DOMAIN m_keyCntMap
  OBVIOUS
<1>5. /\ m_keyCntMap \in [DOMAIN m_keyCntMap -> [buf : Nat, node : Nat]]
      /\ nodes \in [DOMAIN nodes -> Nat \ {0}] /\ buffers \in [DOMAIN buffers -> Keys]
  BY DEF StatInv, StatTypes
<1>6. old \in DOMAIN nodes /\ nodes[old] \in Nat \ {0}
  BY <1>4, <1>5 DEF StatInv, NodeInv
<1> HIDE DEF key, node
<1>7. /\ DOMAIN m_keyCntMap' = DOMAIN m_keyCntMap /\ m_keyCntMap'[key].node = node
      /\ \A k \in DOMAIN m_keyCntMap \ {key} : m_keyCntMap'[k] = m_keyCntMap[k]
      /\ \A k \in DOMAIN m_keyCntMap : m_keyCntMap'[k].buf = m_keyCntMap[k].buf
  BY <1>3, <1>4, <1>5
<1>8. Moved({old}, key, node, nodes[old] + 1)
  <2>1. \A k \in DOMAIN m_keyCntMap : k # key => m_keyCntMap[k].node # old
    BY <1>4 DEF StatInv, NodeInv
  <2>2. DOMAIN m_keyCntMap' = {k \in DOMAIN m_keyCntMap : m_keyCntMap[k].node \notin {old}} \union {key}
    BY <1>4, <1>7, <2>1
  <2> QED BY <1>3, <1>7, <2>2 DEF Moved
<1>9. /\ NodeInv' /\ node \in Nat /\ m_keyCntList' \in Seq(Nat)
      /\ DOMAIN nodes' \subseteq Numbers /\ nodes' \in [DOMAIN nodes' -> Nat \ {0}]
      /\ Sum(nodes) \in Nat
      /\ Sum(nodes)' = Sum(nodes) - SumFunctionOnSet(nodes, {old}) + (nodes[old] + 1)
  <2>1. {old} \in SUBSET DOMAIN nodes /\ nodes[old] + 1 \in Nat \ {0}
    BY <1>6
  <2>2. node = Unused(Without(nodes, {old}))
    BY DEF node
  <2> HIDE DEF old
  <2>3. key \in DOMAIN m_keyCntMap => m_keyCntMap[key].node \in {old}
    BY DEF old
  <2> QED BY <1>2, <1>8, <2>1, <2>2, <2>3, NodesMoved
<1>10. RecentInv' /\ recent' \in Seq(Keys)
  <2>1. Len(m_keyCntList) <= m_maxKeyCnt /\ Len(m_keyCntList) \in Nat /\ m_maxKeyCnt \in Nat
    BY LimitAssumption DEF StatInv, RecentInv, StatTypes
  <2>2. /\ Len(Spared(m_keyCntList, {old})) = Len(m_keyCntList) - 1
        /\ Aligned({old}, key)
    BY <1>4, BothCloseUp
  <2> HIDE DEF old
  <2>3. Len(Spared(m_keyCntList, {old})) + 1 <= m_maxKeyCnt
    BY <2>1, <2>2
  <2> QED BY <1>1, <1>2, <1>8, <1>9, <2>2, <2>3, RecentMoved
<1>11. DOMAIN buffers' = DOMAIN buffers \ {inHand} /\ \A c \in DOMAIN buffers \ {inHand} : buffers'[c] = buffers[c]
  BY <1>3 DEF Without, Restrict
<1>12. StatTypes'
  <2>1. m_keyCntMap' \in [DOMAIN m_keyCntMap -> [buf : Nat, node : Nat]]
    BY <1>3, <1>5, <1>9
  <2>2. buffers' \in [DOMAIN buffers' -> Keys] /\ DOMAIN buffers' \subseteq Numbers
    <3>1. Without(buffers, {inHand}) \in [DOMAIN buffers \ {inHand} -> Keys]
      BY <1>5, WithoutType
    <3> QED BY <1>3, <1>11, <3>1 DEF StatInv, StatTypes
  <2> QED BY <1>2, <1>7, <1>9, <1>10, <2>1, <2>2 DEF StatInv, StatTypes
<1>13. BufferInv'
  <2>1. Counted' = Counted
    BY <1>7 DEF Counted
  <2>2. DOMAIN buffers' = AtWorkers' \union Queued' \union AtHand' \union Counted'
    BY <1>2, <1>11, <2>1 DEF StatInv, BufferInv
  <2>3. /\ AtWorkers' \cap (Queued' \union AtHand' \union Counted') = {}
        /\ Queued' \cap (AtHand' \union Counted') = {} /\ AtHand' \cap Counted' = {}
    BY <1>2, <2>1 DEF StatInv, BufferInv
  <2>4. \A k \in DOMAIN m_keyCntMap' : buffers'[m_keyCntMap'[k].buf] = k
    <3>1. \A k \in DOMAIN m_keyCntMap : m_keyCntMap[k].buf \in Counted
      BY DEF Counted
    <3>2. \A k \in DOMAIN m_keyCntMap : m_keyCntMap[k].buf \in DOMAIN buffers \ {inHand}
      BY <1>2, <3>1 DEF StatInv, BufferInv
    <3> QED BY <1>7, <1>11, <3>2 DEF StatInv, BufferInv
  <2>5. Cardinality(DOMAIN buffers') <= replies'
    <3>1. Cardinality(DOMAIN buffers \ {inHand}) = Cardinality(DOMAIN buffers) - 1
      BY <1>2, FiniteDomains, FS_RemoveElement DEF StatInv
    <3>2. Cardinality(DOMAIN buffers) \in Nat /\ Cardinality(DOMAIN buffers) <= replies /\ replies \in Nat
      BY FiniteDomains DEF StatInv, BufferInv, StatTypes
    <3>3. Cardinality(DOMAIN buffers') = Cardinality(DOMAIN buffers) - 1 /\ replies' = replies
      BY <1>2, <1>11, <3>1
    <3> QED BY <3>2, <3>3
  <2> QED BY <1>2, <2>2, <2>3, <2>4, <2>5 DEF StatInv, BufferInv
<1>14. KeysInv'
  <2>1. SumFunctionOnSet(nodes, {old}) = nodes[old]
    <3> HIDE DEF old
    <3>1. SumFunctionOnSet(nodes, {} \union {old}) = SumFunctionOnSet(nodes, {}) + nodes[old]
      <4>1. IsFiniteSet({}) /\ old \notin {} /\ \A y \in {} \union {old} : nodes[y] \in Nat
        BY <1>6, FS_EmptySet
      <4> QED BY <4>1, SumMore
    <3>2. {} \union {old} = {old}
      OBVIOUS
    <3> QED BY <1>6, <3>1, <3>2, SumEmpty
  <2>2. Sum(nodes)' = Sum(nodes) + 1
    BY <1>6, <1>9, <2>1
  <2> QED BY <1>2, <1>3, <1>9, <2>2 DEF StatInv, KeysInv
<1> QED BY <1>2, <1>9, <1>10, <1>12, <1>13, <1>14 DEF StatInv

\* There is something to give up in a full list, and only behind those recorded
\* last.
LEMMA GivenUp ==
    ASSUME NEW list, Len(list) \in Nat, Len(list) >= m_maxKeyCnt
    PROVE  delListMap(list) # {} /\ \A v \in delListMap(list) : \E j \in (midSize + 1)..Len(list) : v = list[j]
<1> DEFINE n == Len(list)
           rare == {j \in (midSize + 1)..n : nodes[list[j]] < nodes[Last(list)]}
           at == IF rare = {} THEN {n} ELSE rare
<1>1. midSize \in Nat /\ midSize + 1 <= n
  BY LimitAssumption DEF midSize
<1>2. rare \subseteq (midSize + 1)..n
  OBVIOUS
<1>3. delListMap(list) = {list[j] : j \in at}
  BY DEF delListMap
<1> HIDE DEF rare
<1>4. at # {} /\ at \subseteq (midSize + 1)..n
  <2>1. n \in (midSize + 1)..n
    BY <1>1
  <2> QED BY <1>2, <2>1
<1> HIDE DEF at
<1> QED BY <1>3, <1>4

\* What is given up leaves those recorded last where they are.
LEMMA RecentStay ==
    ASSUME StatInv, NEW key, key \notin DOMAIN m_keyCntMap, NEW V,
           Len(m_keyCntList) >= m_maxKeyCnt => V = delListMap(m_keyCntList),
           ~(Len(m_keyCntList) >= m_maxKeyCnt) => V = {}
    PROVE  /\ V \subseteq DOMAIN nodes /\ Len(Spared(m_keyCntList, V)) + 1 <= m_maxKeyCnt
           /\ Aligned(V, key)
<1> DEFINE L == m_keyCntList
           R == recent
           n == Len(L)
           q == Len(R)
           l == Spared(L, V)
           r == Spared(R, {key})
           Stay == /\ V \subseteq DOMAIN nodes /\ Len(l) + 1 <= m_maxKeyCnt
                   /\ \A i \in 1..n : i <= midSize => i <= Len(l) /\ l[i] = L[i]
<1>1. /\ L \in Seq(Nat) /\ R \in Seq(Keys) /\ n \in Nat /\ q \in Nat /\ q <= n /\ DOMAIN L = 1..n
      /\ n <= m_maxKeyCnt /\ IsInjective(L) /\ ToSet(L) = DOMAIN nodes
  BY DEF StatInv, StatTypes, RecentInv, NodeInv
<1>2. \A i, j \in 1..n : L[i] = L[j] => i = j
  BY <1>1 DEF IsInjective
<1>3. \A i \in 1..q : R[i] \in DOMAIN m_keyCntMap /\ m_keyCntMap[R[i]].node = L[i]
  BY DEF StatInv, RecentInv
<1>4. midSize \in Nat /\ m_maxKeyCnt \in Nat /\ midSize < m_maxKeyCnt
  BY LimitAssumption DEF midSize
<1>5. l \in Seq(Nat) /\ Left(l, L, V, n) /\ ToSet(l) = DOMAIN nodes \ V
  BY <1>1, SparedIs
<1>6. r \in Seq(Keys) /\ Left(r, R, {key}, q)
  BY <1>1, SparedIs
<1>7. ASSUME n >= m_maxKeyCnt PROVE Stay
  <2>1. V # {} /\ \A v \in V : \E j \in (midSize + 1)..n : v = L[j]
    BY <1>1, <1>7, GivenUp
  <2> HIDE DEF L, R, n, q, l, r
  <2>2. V \subseteq DOMAIN nodes
    <3>1. \A j \in (midSize + 1)..n : L[j] \in ToSet(L)
      <4>1. \A j \in (midSize + 1)..n : j \in DOMAIN L
        BY <1>1, <1>4
      <4> QED BY <4>1 DEF ToSet
    <3> QED BY <1>1, <2>1, <3>1
  <2>3. \A i \in 1..midSize : L[i] \notin V
    <3> SUFFICES ASSUME NEW i \in 1..midSize, L[i] \in V PROVE FALSE
      OBVIOUS
    <3>1. PICK j \in (midSize + 1)..n : L[i] = L[j]
      BY <2>1
    <3>2. i \in 1..n /\ j \in 1..n /\ i # j
      BY <1>1, <1>4
    <3> QED BY <1>2, <3>1, <3>2
  <2>4. midSize \in 0..n
    BY <1>1, <1>4, <1>7
  <2>5. Len(l) >= midSize /\ \A i \in 1..midSize : l[i] = L[i]
    BY <1>5, <2>3, <2>4 DEF Left
  <2>6. Len(l) < n
    <3>1. Len(l) = Cardinality(DOMAIN nodes \ V) /\ n = Cardinality(DOMAIN nodes)
      <4>1. IsInjective(l)
        BY <1>1, <1>5 DEF Left
      <4>2. Len(l) = Cardinality(ToSet(l)) /\ Len(L) = Cardinality(ToSet(L))
        BY <1>1, <1>5, <4>1, DistinctLength
      <4> QED BY <1>1, <1>5, <4>2 DEF n
    <3>2. DOMAIN nodes \ V \in SUBSET DOMAIN nodes /\ DOMAIN nodes \ V # DOMAIN nodes
      BY <2>1, <2>2
    <3>3. IsFiniteSet(DOMAIN nodes)
      BY FiniteDomains DEF StatInv
    <3>4. /\ Cardinality(DOMAIN nodes \ V) <= Cardinality(DOMAIN nodes)
          /\ Cardinality(DOMAIN nodes \ V) # Cardinality(DOMAIN nodes)
      BY <3>2, <3>3, FS_Subset
    <3> QED BY <1>1, <1>5, <3>1, <3>4
  <2>7. /\ V \subseteq DOMAIN nodes /\ Len(l) + 1 <= m_maxKeyCnt
        /\ \A i \in 1..n : i <= midSize => i <= Len(l) /\ l[i] = L[i]
    BY <1>1, <1>5, <2>2, <2>5, <2>6, <1>4
  <2> QED BY <2>7
<1>8. ASSUME ~(n >= m_maxKeyCnt) PROVE Stay
  <2>1. V = {}
    BY <1>8
  <2> HIDE DEF L, R, n, q, l, r
  <2>2. n \in 0..n /\ \A i \in 1..n : L[i] \notin V
    BY <1>1, <2>1
  <2>3. Len(l) >= n /\ Len(l) <= n /\ \A i \in 1..n : l[i] = L[i]
    BY <1>5, <2>2 DEF Left
  <2>4. Len(l) + 1 <= m_maxKeyCnt
    BY <1>1, <1>4, <1>5, <1>8, <2>3
  <2>5. \A i \in 1..n : i <= midSize => i <= Len(l) /\ l[i] = L[i]
    BY <1>1, <1>5, <2>3
  <2> QED BY <2>1, <2>4, <2>5
<1> HIDE DEF L, R, n, q, l, r
<1>9. Stay
  BY <1>7, <1>8
<1>10. Len(r) >= q /\ Len(r) <= q /\ \A j \in 1..q : r[j] = R[j]
  <2>1. \A i \in 1..q : R[i] \notin {key}
    BY <1>3
  <2>2. q \in 0..q
    BY <1>1
  <2> QED BY <1>6, <2>1, <2>2 DEF Left
<1>11. ASSUME NEW i \in 1..Len(r), i <= midSize
       PROVE  i <= Len(l) /\ r[i] \in DOMAIN m_keyCntMap /\ m_keyCntMap[r[i]].node = l[i]
  <2>1. i \in 1..q /\ i \in 1..n
    BY <1>1, <1>6, <1>10
  <2> QED BY <1>3, <1>9, <1>10, <1>11, <2>1
<1> QED BY <1>9, <1>11 DEF Aligned, L, R, n, l, r

\* A new key keeps its buffer; the buffers of the keys given up are freed.
LEMMA NewKeyKeeps ==
    ASSUME StatInv, keyRecorder, buffers[inHand] \notin DOMAIN m_keyCntMap
    PROVE  StatInv'
<1> DEFINE key == buffers[inHand]
           K == DOMAIN m_keyCntMap
           V == IF Len(m_keyCntList) >= m_maxKeyCnt THEN delListMap(m_keyCntList) ELSE {}
           erased == {EntryOf(v) : v \in V}
           freed == {m_keyCntMap[k].buf : k \in erased}
           node == Unused(Without(nodes, V))
           entry == [buf |-> inHand, node |-> node]
<1>1. NewKey(key) /\ Remember(key)
  BY DEF keyRecorder
<1>2. /\ inHand \in Nat /\ inHand \in DOMAIN buffers /\ key \in Keys
      /\ inHand \notin AtWorkers \union Queued \union Counted /\ AtHand = {inHand}
      /\ AtWorkers' = AtWorkers /\ Queued' = Queued /\ AtHand' = {}
      /\ inHand' = None /\ m_processTopKey' = (recorder' # "sleep")
      /\ recorder' \in {"sleep", "drain", "record"} /\ recorder' # "record"
      /\ UNCHANGED <<m_allKeys, pc, request, report, replies>>
      /\ LockInv' /\ ServantsInv' /\ Waiting' = Waiting - 1 /\ Waiting \in Nat
      /\ Cardinality(DOMAIN nodes) <= MaxReplies
  BY RecorderSteps
<1>3. /\ buffers' = Without(buffers, freed)
      /\ nodes' = With(Without(nodes, V), node, 1)
      /\ m_keyCntList' = <<node>> \o Spared(m_keyCntList, V)
      /\ m_keyCntMap' = With(Without(m_keyCntMap, erased), key, entry)
      /\ owed' = owed - SumFunctionOnSet(nodes, V)
  BY <1>1 DEF NewKey
<1>4. key \notin K
  OBVIOUS
<1>5. V \subseteq DOMAIN nodes /\ Len(Spared(m_keyCntList, V)) + 1 <= m_maxKeyCnt /\ Aligned(V, key)
  <2>1. /\ Len(m_keyCntList) >= m_maxKeyCnt => V = delListMap(m_keyCntList)
        /\ ~(Len(m_keyCntList) >= m_maxKeyCnt) => V = {}
    OBVIOUS
  <2> HIDE DEF key, V
  <2> QED BY <1>4, <2>1, RecentStay
<1> HIDE DEF V, key
<1>6. /\ m_keyCntMap \in [K -> [buf : Nat, node : Nat]] /\ K \subseteq Keys
      /\ nodes \in [DOMAIN nodes -> Nat \ {0}] /\ buffers \in [DOMAIN buffers -> Keys]
  BY DEF StatInv, StatTypes
<1>7. erased \subseteq K /\ \A k \in K : k \in erased <=> m_keyCntMap[k].node \in V
  <2>1. \A v \in V : EntryOf(v) \in K /\ m_keyCntMap[EntryOf(v)].node = v
    <3> SUFFICES ASSUME NEW v \in V PROVE EntryOf(v) \in K /\ m_keyCntMap[EntryOf(v)].node = v
      OBVIOUS
    <3>1. \E k \in K : m_keyCntMap[k].node = v
      BY <1>5 DEF StatInv, NodeInv
    <3> QED BY <3>1 DEF EntryOf
  <2>2. \A j, k \in K : m_keyCntMap[j].node = m_keyCntMap[k].node => j = k
    BY DEF StatInv, NodeInv
  <2> HIDE DEF K
  <2> QED BY <2>1, <2>2
<1>8. /\ DOMAIN m_keyCntMap' = (K \ erased) \union {key} /\ m_keyCntMap'[key] = entry
      /\ \A k \in K \ erased : m_keyCntMap'[k] = m_keyCntMap[k]
  <2>1. m_keyCntMap' = [k \in (K \ erased) \union {key} |-> IF k = key THEN entry ELSE m_keyCntMap[k]]
    BY <1>3 DEF With, Without, Restrict
  <2> HIDE DEF erased, entry, node
  <2> QED BY <1>4, <2>1
<1>9. entry.buf = inHand /\ entry.node = node
  OBVIOUS
<1> HIDE DEF erased, entry, node
<1>10. Moved(V, key, node, 1)
  <2>1. DOMAIN m_keyCntMap' = {k \in K : m_keyCntMap[k].node \notin V} \union {key}
    BY <1>7, <1>8
  <2> QED BY <1>3, <1>7, <1>8, <1>9, <2>1 DEF Moved
<1>11. /\ NodeInv' /\ node \in Nat /\ m_keyCntList' \in Seq(Nat)
       /\ DOMAIN nodes' \subseteq Numbers /\ nodes' \in [DOMAIN nodes' -> Nat \ {0}]
       /\ SumFunctionOnSet(nodes, V) \in Nat /\ Sum(nodes) \in Nat
       /\ Sum(nodes)' = Sum(nodes) - SumFunctionOnSet(nodes, V) + 1
  <2>1. node = Unused(Without(nodes, V)) /\ V \in SUBSET DOMAIN nodes /\ 1 \in Nat \ {0}
    BY <1>5 DEF node
  <2> QED BY <1>2, <1>4, <1>10, <2>1, NodesMoved
<1>12. RecentInv' /\ recent' \in Seq(Keys)
  BY <1>1, <1>2, <1>5, <1>10, <1>11, RecentMoved
<1>13. freed \subseteq Counted
  BY <1>7 DEF Counted
<1>14. /\ DOMAIN buffers' = DOMAIN buffers \ freed
       /\ \A c \in DOMAIN buffers \ freed : buffers'[c] = buffers[c]
  <2> HIDE DEF freed
  <2> QED BY <1>3 DEF Without, Restrict
<1>15. \A k \in K \ erased : m_keyCntMap[k].buf \in DOMAIN buffers \ freed
  <2>1. \A k \in K : m_keyCntMap[k].buf \in DOMAIN buffers /\ buffers[m_keyCntMap[k].buf] = k
    BY DEF StatInv, BufferInv, Counted
  <2> QED BY <1>7, <2>1
<1>16. StatTypes'
  <2>1. m_keyCntMap' \in [DOMAIN m_keyCntMap' -> [buf : Nat, node : Nat]] /\ DOMAIN m_keyCntMap' \subseteq Keys
    <3>1. Without(m_keyCntMap, erased) \in [K \ erased -> [buf : Nat, node : Nat]]
      BY <1>6, WithoutType
    <3>2. entry \in [buf : Nat, node : Nat]
      BY <1>2, <1>11 DEF entry
    <3>3. m_keyCntMap' \in [(K \ erased) \union {key} -> [buf : Nat, node : Nat]]
      <4>1. With(Without(m_keyCntMap, erased), key, entry)
              \in [(K \ erased) \union {key} -> [buf : Nat, node : Nat]]
        BY <3>1, <3>2, WithType
      <4> QED BY <1>3, <4>1
    <3> QED BY <1>2, <1>6, <1>8, <3>3
  <2>2. buffers' \in [DOMAIN buffers' -> Keys] /\ DOMAIN buffers' \subseteq Numbers
    <3>1. Without(buffers, freed) \in [DOMAIN buffers \ freed -> Keys]
      BY <1>6, WithoutType
    <3> QED BY <1>3, <1>14, <3>1 DEF StatInv, StatTypes
  <2> QED BY <1>2, <1>11, <1>12, <2>1, <2>2 DEF StatInv, StatTypes
<1>17. BufferInv'
  <2>1. Counted' = (Counted \ freed) \union {inHand}
    <3>1. Counted' = {m_keyCntMap[k].buf : k \in K \ erased} \union {inHand}
      BY <1>4, <1>8, <1>9 DEF Counted
    <3>2. {m_keyCntMap[k].buf : k \in K \ erased} = Counted \ freed
      BY <1>15 DEF Counted
    <3> QED BY <3>1, <3>2
  <2> HIDE DEF freed
  <2>2. DOMAIN buffers' = AtWorkers' \union Queued' \union AtHand' \union Counted'
    <3>1. DOMAIN buffers = AtWorkers \union Queued \union {inHand} \union Counted
      BY <1>2 DEF StatInv, BufferInv
    <3>2. freed \cap (AtWorkers \union Queued \union {inHand}) = {}
      BY <1>2, <1>13 DEF StatInv, BufferInv
    <3> QED BY <1>2, <1>14, <2>1, <3>1, <3>2
  <2>3. /\ AtWorkers' \cap (Queued' \union AtHand' \union Counted') = {}
        /\ Queued' \cap (AtHand' \union Counted') = {} /\ AtHand' \cap Counted' = {}
    BY <1>2, <2>1 DEF StatInv, BufferInv
  <2>4. ASSUME NEW k \in DOMAIN m_keyCntMap' PROVE buffers'[m_keyCntMap'[k].buf] = k
    <3>1. CASE k = key
      <4>1. inHand \in DOMAIN buffers \ freed
        BY <1>2, <1>13
      <4> QED BY <1>8, <1>9, <1>14, <3>1, <4>1 DEF key
    <3>2. CASE k # key
      <4>1. k \in K \ erased /\ m_keyCntMap'[k] = m_keyCntMap[k]
        BY <1>8, <3>2
      <4>2. m_keyCntMap[k].buf \in DOMAIN buffers \ freed /\ buffers[m_keyCntMap[k].buf] = k
        BY <1>15, <4>1 DEF StatInv, BufferInv
      <4> QED BY <1>14, <4>1, <4>2
    <3> QED BY <3>1, <3>2
  <2>5. Cardinality(DOMAIN buffers') <= replies'
    <3>1. IsFiniteSet(DOMAIN buffers) /\ DOMAIN buffers' \in SUBSET DOMAIN buffers
      BY <1>14, FiniteDomains DEF StatInv
    <3>2. Cardinality(DOMAIN buffers') <= Cardinality(DOMAIN buffers) /\ Cardinality(DOMAIN buffers') \in Nat
      BY <3>1, FS_Subset, FS_CardinalityType
    <3>3. Cardinality(DOMAIN buffers) \in Nat /\ Cardinality(DOMAIN buffers) <= replies /\ replies \in Nat
      BY FiniteDomains DEF StatInv, BufferInv, StatTypes
    <3>4. replies' = replies
      BY <1>2
    <3> QED BY <3>2, <3>3, <3>4
  <2> QED BY <1>2, <2>2, <2>3, <2>4, <2>5 DEF StatInv, BufferInv
<1>18. KeysInv'
  <2>1. Sum(nodes) + Waiting = owed /\ owed <= replies /\ replies \in Nat
    BY DEF StatInv, KeysInv, StatTypes
  <2>2. replies' = replies
    BY <1>2
  <2>3. Sum(nodes)' + Waiting' = owed'
    BY <1>2, <1>3, <1>11, <2>1
  <2>4. owed' <= replies'
    BY <1>2, <1>3, <1>11, <2>1, <2>2
  <2> QED BY <2>3, <2>4 DEF KeysInv
<1> QED BY <1>2, <1>11, <1>12, <1>16, <1>17, <1>18 DEF StatInv

-----------------------------------------------------------------------------
(* The invariant.                                                          *)

LEMMA InitStat == Init => StatInv
<1> SUFFICES ASSUME Init PROVE StatInv
  OBVIOUS
<1>1. /\ m_processTopKey = FALSE /\ m_allKeys = <<>> /\ recorder = "sleep" /\ inHand = None
      /\ m_keyCntList = <<>> /\ m_lock = None /\ m_clientLock = None /\ recent = <<>>
      /\ request_num = 0 /\ finished = 0 /\ replies = 0 /\ owed = 0
      /\ DOMAIN report = Workers /\ m_AllRequestTimes = [s \in Servants |-> 0]
      /\ pc = [w \in Workers |-> "idle"] /\ request = [w \in Workers |-> NoRequest]
  BY DEF Init
<1>2. buffers = EmptyMap /\ nodes = EmptyMap /\ m_keyCntMap = EmptyMap /\ DOMAIN EmptyMap = {}
  BY DEF Init, EmptyMap
<1>3. EmptyMap \in [{} -> Keys] /\ EmptyMap \in [{} -> Nat \ {0}]
      /\ EmptyMap \in [{} -> [buf : Nat, node : Nat]]
  BY DEF EmptyMap
<1>4. NoRequest \in Requests /\ NoRequest.buf = None
  BY DEF NoRequest, Requests
<1>5. \A w \in Workers : pc[w] = "idle" /\ request[w] = NoRequest
  BY <1>1
<1>6. ToSet(m_allKeys) = {} /\ ToSet(m_keyCntList) = {}
      /\ IsInjective(m_allKeys) /\ IsInjective(m_keyCntList)
  BY <1>1 DEF ToSet, IsInjective
<1>7. Cardinality({}) = 0 /\ IsFiniteSet({})
  BY FS_EmptySet
<1>8. StatTypes
  <2>1. request \in [Workers -> Requests] /\ pc \in [Workers -> Labels]
    BY <1>1, <1>4 DEF Labels
  <2>2. \A w \in Workers : request[w].buf # None <=> pc[w] = "push"
    BY <1>4, <1>5
  <2>3. replies \in 0..MaxReplies
    BY <1>1, BoundsAssumption
  <2>4. m_allKeys \in Seq(Nat) /\ m_keyCntList \in Seq(Nat) /\ recent \in Seq(Keys)
    BY <1>1
  <2>5. /\ DOMAIN buffers \subseteq Numbers /\ buffers \in [DOMAIN buffers -> Keys]
        /\ DOMAIN nodes \subseteq Numbers /\ nodes \in [DOMAIN nodes -> Nat \ {0}]
        /\ DOMAIN m_keyCntMap \subseteq Keys
        /\ m_keyCntMap \in [DOMAIN m_keyCntMap -> [buf : Nat, node : Nat]]
    <3> QED BY <1>2, <1>3
  <2> QED BY <1>1, <2>1, <2>2, <2>3, <2>4, <2>5 DEF StatTypes
<1>9. LockInv
  BY <1>1, <1>5 DEF LockInv
<1>10. AtWorkers = {} /\ Queued = {} /\ AtHand = {} /\ Counted = {} /\ Holders = {} /\ AtBackend = {}
  <2>1. AtWorkers = {} /\ Holders = {}
    BY <1>4, <1>5 DEF AtWorkers, Holders
  <2>2. Queued = {} /\ AtHand = {} /\ Counted = {}
    BY <1>1, <1>2, <1>6 DEF Queued, AtHand, Counted
  <2>3. AtBackend = {}
    BY <1>5 DEF AtBackend
  <2> QED BY <2>1, <2>2, <2>3
<1>11. BufferInv
  BY <1>1, <1>2, <1>4, <1>5, <1>6, <1>7, <1>10 DEF BufferInv
<1>12. NodeInv
  BY <1>2, <1>6 DEF NodeInv
<1>13. RecentInv
  BY <1>1, LimitAssumption DEF RecentInv, midSize
<1>14. KeysInv
  <2>1. Sum(nodes) = 0
    BY <1>2, SumEmpty DEF Sum
  <2>2. Waiting = 0
    <3>1. Len(m_allKeys) = 0
      BY <1>1
    <3>2. Waiting = Len(m_allKeys) + (IF inHand = None THEN 0 ELSE 1) + Cardinality(Holders)
      BY DEF Waiting, Holders
    <3>3. inHand = None /\ Cardinality(Holders) = 0
      BY <1>1, <1>7, <1>10
    <3> QED BY <3>1, <3>2, <3>3
  <2> QED BY <1>1, <2>1, <2>2 DEF KeysInv
<1>15. ServantsInv
  <2>1. \A s \in Servants : m_AllRequestTimes[s] = 0
    BY <1>1
  <2>2. Sum(m_AllRequestTimes) = 0
    <3>1. DOMAIN m_AllRequestTimes = Servants
      BY <1>1
    <3> QED BY <2>1, <3>1, FiniteAssumption, SumZero DEF Sum
  <2>3. m_AllRequestTimes \in [Servants -> Nat]
    BY <1>1
  <2> QED BY <1>1, <1>7, <1>10, <2>2, <2>3 DEF ServantsInv
<1> QED BY <1>8, <1>9, <1>11, <1>12, <1>13, <1>14, <1>15 DEF StatInv

LEMMA NextStat == ASSUME StatInv, [Next]_vars PROVE StatInv'
<1>1. ASSUME NEW w \in Workers, NEW key \in Keys \union {None}, NEW s \in Servants \union {None},
             replyClientFinished(w, key, s)
      PROVE  StatInv'
  <2>1. CASE key = None
    BY <1>1, <2>1, KeylessKeeps
  <2>2. CASE key # None
    BY <1>1, <2>2, KeyTakenKeeps
  <2> QED BY <2>1, <2>2
<1>2. ASSUME NEW w \in Workers, Push(w) PROVE StatInv'
  BY <1>2, PushKeeps
<1>3. ASSUME NEW w \in Workers, CountClient(w) PROVE StatInv'
  BY <1>3, CountClientKeeps
<1>4. ASSUME NEW w \in Workers, ClientCounted(w) PROVE StatInv'
  BY <1>4, ClientCountedKeeps
<1>5. ASSUME NEW w \in Workers, CountServant(w) PROVE StatInv'
  BY <1>5, CountServantKeeps
<1>6. ASSUME NEW w \in Workers, sortTopKey(w) PROVE StatInv'
  BY <1>6, sortTopKeyKeeps
<1>7. ASSUME NEW w \in Workers, Copied(w) PROVE StatInv'
  BY <1>7, CopiedKeeps
<1>8. CASE Wake
  BY <1>8, WakeKeeps
<1>9. CASE Pop
  BY <1>9, PopKeeps
<1>10. CASE keyRecorder
  BY <1>10, KnownKeyKeeps, NewKeyKeeps
<1>11. CASE UNCHANGED vars
  <2>1. /\ UNCHANGED <<m_processTopKey, recorder, inHand, m_keyCntList, nodes, m_keyCntMap, recent>>
        /\ UNCHANGED counterVars
        /\ UNCHANGED <<request_num, m_clientLock, m_allKeys, buffers, m_lock, pc, request, report,
                        replies, owed>>
    BY <1>11 DEF vars, recorderVars, lockVars, counterVars
  <2>2. StatTypes'
    BY <2>1 DEF StatInv, StatTypes
  <2>3. LockInv'
    BY <2>1 DEF StatInv, LockInv
  <2> QED BY <2>1, <2>2, <2>3, SameBuffers, SameCounters DEF StatInv
<1> QED BY <1>1, <1>2, <1>3, <1>4, <1>5, <1>6, <1>7, <1>8, <1>9, <1>10, <1>11 DEF Next

LEMMA StatInvariant == Spec => []StatInv
BY InitStat, NextStat, PTL DEF Spec

-----------------------------------------------------------------------------
\* The limit of the list holds however keys come, and those recorded last, as many
\* as delListMap is to spare, are still in the map.
THEOREM RecentAreKept == Spec => []RecentKept
<1>1. StatInv => RecentKept
  <2> SUFFICES ASSUME StatInv PROVE RecentKept
    OBVIOUS
  <2>1. DOMAIN recent = 1..Len(recent)
    BY DEF StatInv, StatTypes
  <2> QED BY <2>1 DEF StatInv, RecentInv, RecentKept
<1> QED BY <1>1, StatInvariant, PTL

\* Whoever has a buffer has it alone.
LEMMA OwnersAre ==
    ASSUME StatInv, NEW b \in DOMAIN buffers
    PROVE  Owners(b) = 1
<1> DEFINE W == {w \in Workers : request[w].buf = b}
           Q == {n \in DOMAIN m_allKeys : m_allKeys[n] = b}
           K == {k \in DOMAIN m_keyCntMap : m_keyCntMap[k].buf = b}
<1>1. b # None
  BY NoneAssumption, BoundsAssumption DEF StatInv, StatTypes, Numbers
<1>2. Cardinality({}) = 0 /\ \A x : Cardinality({x}) = 1
  BY FS_EmptySet, FS_Singleton
<1>3. b \notin AtWorkers => W = {}
  BY <1>1 DEF AtWorkers
<1>4. b \notin Queued => Q = {}
  BY DEF Queued, ToSet
<1>5. b \notin Counted => K = {}
  BY DEF Counted
<1>6. b \in AtHand <=> inHand = b
  BY <1>1 DEF AtHand
<1>7. b \in AtWorkers => \E w : W = {w}
  <2> SUFFICES ASSUME b \in AtWorkers PROVE \E w : W = {w}
    OBVIOUS
  <2>1. PICK w \in Workers : request[w].buf = b
    BY DEF AtWorkers
  <2>2. W = {w}
    BY <1>1, <2>1 DEF StatInv, BufferInv
  <2> QED BY <2>2
<1>8. b \in Queued => \E n : Q = {n}
  <2> SUFFICES ASSUME b \in Queued PROVE \E n : Q = {n}
    OBVIOUS
  <2>1. PICK n \in DOMAIN m_allKeys : m_allKeys[n] = b
    BY DEF Queued, ToSet
  <2>2. Q = {n}
    BY <2>1 DEF StatInv, BufferInv, IsInjective
  <2> QED BY <2>2
<1>9. b \in Counted => \E k : K = {k}
  <2> SUFFICES ASSUME b \in Counted PROVE \E k : K = {k}
    OBVIOUS
  <2>1. PICK k \in DOMAIN m_keyCntMap : m_keyCntMap[k].buf = b
    BY DEF Counted
  <2>2. K = {k}
    BY <2>1 DEF StatInv, BufferInv
  <2> QED BY <2>2
<1>10. Owners(b) = Cardinality(W) + Cardinality(Q) + (IF inHand = b THEN 1 ELSE 0) + Cardinality(K)
  BY DEF Owners
<1>11. b \in AtWorkers \/ b \in Queued \/ b \in AtHand \/ b \in Counted
  BY DEF StatInv, BufferInv
<1>12. /\ b \in AtWorkers => b \notin Queued /\ b \notin AtHand /\ b \notin Counted
       /\ b \in Queued => b \notin AtHand /\ b \notin Counted
       /\ b \in AtHand => b \notin Counted
  BY DEF StatInv, BufferInv
<1> HIDE DEF W, Q, K
<1>13. CASE b \in AtWorkers
  <2>1. Cardinality(W) = 1 /\ Cardinality(Q) = 0 /\ Cardinality(K) = 0 /\ inHand # b
    BY <1>2, <1>4, <1>5, <1>6, <1>7, <1>12, <1>13
  <2> QED BY <1>10, <2>1
<1>14. CASE b \in Queued
  <2>1. Cardinality(W) = 0 /\ Cardinality(Q) = 1 /\ Cardinality(K) = 0 /\ inHand # b
    BY <1>2, <1>3, <1>5, <1>6, <1>8, <1>12, <1>14
  <2> QED BY <1>10, <2>1
<1>15. CASE b \in AtHand
  <2>1. Cardinality(W) = 0 /\ Cardinality(Q) = 0 /\ Cardinality(K) = 0 /\ inHand = b
    BY <1>2, <1>3, <1>4, <1>5, <1>6, <1>12, <1>15
  <2> QED BY <1>10, <2>1
<1>16. CASE b \in Counted
  <2>1. Cardinality(W) = 0 /\ Cardinality(Q) = 0 /\ Cardinality(K) = 1 /\ inHand # b
    BY <1>2, <1>3, <1>4, <1>6, <1>9, <1>12, <1>16
  <2> QED BY <1>10, <2>1
<1> QED BY <1>11, <1>13, <1>14, <1>15, <1>16

\* Every buffer has one owner and every node one key, whoever runs in between: a
\* buffer is not freed while somebody has it, and none is lost.
THEOREM BuffersHaveOneOwner == Spec => []OneOwner
<1>1. StatInv => OneOwner
  <2> SUFFICES ASSUME StatInv PROVE OneOwner
    OBVIOUS
  <2> DEFINE K == DOMAIN m_keyCntMap
  <2>1. \A k \in K : m_keyCntMap[k].buf \in DOMAIN buffers /\ buffers[m_keyCntMap[k].buf] = k
    BY DEF StatInv, BufferInv, Counted
  <2>2. DOMAIN nodes = ToSet(m_keyCntList) /\ Len(m_keyCntList) = Cardinality(DOMAIN nodes)
    <3>1. m_keyCntList \in Seq(Nat) /\ IsInjective(m_keyCntList) /\ DOMAIN nodes = ToSet(m_keyCntList)
      BY DEF StatInv, StatTypes, NodeInv
    <3> QED BY <3>1, DistinctLength
  <2>3. DOMAIN nodes = {m_keyCntMap[k].node : k \in K}
        /\ \A j, k \in K : m_keyCntMap[j].node = m_keyCntMap[k].node => j = k
    BY DEF StatInv, NodeInv
  <2>4. ASSUME NEW n \in DOMAIN nodes PROVE Cardinality({k \in K : m_keyCntMap[k].node = n}) = 1
    <3>1. PICK k \in K : m_keyCntMap[k].node = n
      BY <2>3
    <3>2. {j \in K : m_keyCntMap[j].node = n} = {k}
      BY <2>3, <3>1
    <3> QED BY <3>2, FS_Singleton
  <2>5. Cardinality(K) = Cardinality(DOMAIN nodes)
    <3> DEFINE f == [n \in DOMAIN nodes |-> CHOOSE k \in K : m_keyCntMap[k].node = n]
    <3>1. \A n \in DOMAIN nodes : f[n] \in K /\ m_keyCntMap[f[n]].node = n
      BY <2>3
    <3>2. \A k \in K : m_keyCntMap[k].node \in DOMAIN nodes
      BY <2>3
    <3>3. f \in [DOMAIN nodes -> K] /\ DOMAIN f = DOMAIN nodes
      BY <3>1
    <3> HIDE DEF f
    <3>4. \A k \in K : f[m_keyCntMap[k].node] = k
      BY <2>3, <3>1, <3>2
    <3>5. f \in Injection(DOMAIN nodes, K)
      BY <3>1, <3>3 DEF Injection, IsInjective
    <3>6. f \in Surjection(DOMAIN nodes, K)
      BY <3>2, <3>3, <3>4 DEF Surjection
    <3>7. IsFiniteSet(DOMAIN nodes)
      BY FiniteDomains DEF StatInv
    <3> QED BY <3>5, <3>6, <3>7, FS_Surjection
  <2> QED BY <2>1, <2>2, <2>4, <2>5, OwnersAre DEF OneOwner
<1> QED BY <1>1, StatInvariant, PTL

\* The counters are exact: what was taken for recording is counted in the list or
\* waits, a finished request is counted for its client, and no server has more
\* requests than the clients have.  The types come with it.
THEOREM CountersAreExact == Spec => []CountsExact
<1>1. StatInv => CountsExact
  <2> SUFFICES ASSUME StatInv PROVE CountsExact
    OBVIOUS
  <2>1. m_allKeys \in Seq(DOMAIN buffers)
    <3>1. m_allKeys \in Seq(ToSet(m_allKeys))
      BY SeqOfItself DEF StatInv, StatTypes
    <3>2. ToSet(m_allKeys) \subseteq DOMAIN buffers
      BY DEF StatInv, BufferInv, Queued
    <3> QED BY <3>1, <3>2, SeqMonotone
  <2>2. m_keyCntList \in Seq(DOMAIN nodes)
    <3>1. m_keyCntList \in Seq(ToSet(m_keyCntList)) /\ ToSet(m_keyCntList) = DOMAIN nodes
      BY SeqOfItself DEF StatInv, StatTypes, NodeInv
    <3> QED BY <3>1
  <2>3. ASSUME NEW w \in Workers
        PROVE  /\ pc[w] \in {"idle", "push", "client", "clientWrite", "backend", "copy"}
               /\ request[w].buf # None => request[w].buf \in DOMAIN buffers
    <3>1. pc[w] \in {"idle", "push", "client", "clientWrite", "backend", "copy"}
      BY DEF StatInv, StatTypes, Labels
    <3>2. request[w].buf # None => request[w].buf \in DOMAIN buffers
      BY DEF StatInv, BufferInv, AtWorkers
    <3> QED BY <3>1, <3>2
  <2>4. Sum(nodes) + Waiting = owed /\ owed <= replies /\ Sum(nodes) \in Nat /\ Waiting \in Nat
    BY CountTypes DEF StatInv, KeysInv
  <2>5. ASSUME NEW n \in DOMAIN nodes PROVE nodes[n] \in 1..MaxReplies
    <3>1. IsFiniteSet(DOMAIN nodes) /\ \A m \in DOMAIN nodes : nodes[m] \in Nat
      BY FiniteDomains DEF StatInv, StatTypes
    <3>2. nodes[n] <= Sum(nodes)
      BY <3>1, SumAtLeast DEF Sum
    <3>3. nodes[n] \in Nat \ {0} /\ replies \in 0..MaxReplies
      BY DEF StatInv, StatTypes
    <3> QED BY <2>4, <3>2, <3>3, BoundsAssumption
  <2>6. TypeOK
    BY <2>1, <2>2, <2>3, <2>5 DEF StatInv, StatTypes, LockInv, TypeOK
  <2>7. request_num = finished /\ SumFunctionOnSet(m_AllRequestTimes, Servants) <= request_num
    <3>1. /\ request_num \in Nat /\ request_num = finished
          /\ Sum(m_AllRequestTimes) + Cardinality(AtBackend) <= request_num
          /\ m_AllRequestTimes \in [Servants -> Nat]
      BY DEF StatInv, ServantsInv
    <3>2. DOMAIN m_AllRequestTimes = Servants /\ \A s \in Servants :
            m_AllRequestTimes[s] = m_AllRequestTimes[s] /\ m_AllRequestTimes[s] \in Nat
      BY <3>1
    <3>3. SumFunctionOnSet(m_AllRequestTimes, Servants) \in Nat
      BY <3>2, FiniteAssumption, SumSame
    <3>4. Cardinality(AtBackend) \in Nat
      BY FiniteDomains DEF StatInv
    <3>5. Sum(m_AllRequestTimes) = SumFunctionOnSet(m_AllRequestTimes, Servants)
      BY <3>2 DEF Sum
    <3> QED BY <3>1, <3>3, <3>4, <3>5
  <2>8. \A w \in Workers : pc[w] = "copy" => report[w] = m_keyCntMap
    BY DEF StatInv, LockInv
  <2> QED BY <2>4, <2>6, <2>7, <2>8 DEF CountsExact, Sum
<1> QED BY <1>1, StatInvariant, PTL
=============================================================================
