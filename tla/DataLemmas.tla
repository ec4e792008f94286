---------------------------- MODULE DataLemmas ----------------------------
(***************************************************************************)
(* Lemmas about data that the proofs of several components need.           *)
(***************************************************************************)
EXTENDS Sequences, SequencesExt, Integers, FiniteSets, FiniteSetTheorems, WellFoundedInduction,
        SequenceTheorems, TLAPS

-----------------------------------------------------------------------------
(* What the two operations of Queue<T> (src/src/util/queue.h), an append at *)
(* the tail and a take at the head, do to the set of a queue's elements and *)
(* to their being distinct.  The queues are modelled as sequences.          *)


\* Taking the head of a queue of distinct elements removes that element.
LEMMA TakeHead ==
    ASSUME NEW S, NEW s \in Seq(S), s # <<>>, IsInjective(s)
    PROVE  /\ Head(s) \in S
           /\ Head(s) \in ToSet(s)
           /\ Tail(s) \in Seq(S)
           /\ IsInjective(Tail(s))
           /\ ToSet(Tail(s)) = ToSet(s) \ {Head(s)}
<1> DEFINE t == Tail(s)
<1>1. /\ Len(s) \in Nat \ {0}
      /\ DOMAIN s = 1..Len(s)
      /\ Head(s) = s[1]
      /\ \A i \in 1..Len(s) : s[i] \in S
  OBVIOUS
<1>2. /\ t \in Seq(S)
      /\ Len(t) = Len(s) - 1
      /\ DOMAIN t = 1..(Len(s) - 1)
      /\ \A i \in 1..(Len(s) - 1) : t[i] = s[i + 1]
  BY <1>1
<1>3. Head(s) \in S /\ Head(s) \in ToSet(s)
  BY <1>1 DEF ToSet
<1>4. IsInjective(t)
  BY <1>1, <1>2 DEF IsInjective
<1>5. ToSet(t) \subseteq ToSet(s) \ {Head(s)}
  <2> SUFFICES ASSUME NEW i \in 1..(Len(s) - 1)
               PROVE  t[i] \in ToSet(s) \ {Head(s)}
    BY <1>2 DEF ToSet
  <2>1. t[i] = s[i + 1] /\ i + 1 \in 1..Len(s) /\ i + 1 # 1
    BY <1>1, <1>2
  <2> QED
    BY <2>1, <1>1 DEF ToSet, IsInjective
<1>6. ToSet(s) \ {Head(s)} \subseteq ToSet(t)
  <2> SUFFICES ASSUME NEW i \in 1..Len(s), s[i] # s[1]
               PROVE  s[i] \in ToSet(t)
    BY <1>1 DEF ToSet
  <2>1. i - 1 \in 1..(Len(s) - 1) /\ t[i - 1] = s[i]
    BY <1>1, <1>2
  <2> QED
    BY <2>1, <1>2 DEF ToSet
<1> QED
  BY <1>2, <1>3, <1>4, <1>5, <1>6

\* Appending an element that is not in the queue keeps the elements distinct.
LEMMA AppendTail ==
    ASSUME NEW S, NEW s \in Seq(S), NEW x \in S
    PROVE  /\ Append(s, x) \in Seq(S)
           /\ ToSet(Append(s, x)) = ToSet(s) \union {x}
           /\ IsInjective(s) /\ x \notin ToSet(s) => IsInjective(Append(s, x))
<1> DEFINE t == Append(s, x)
<1>1. /\ Len(s) \in Nat
      /\ DOMAIN s = 1..Len(s)
      /\ t \in Seq(S)
      /\ DOMAIN t = 1..(Len(s) + 1)
      /\ \A i \in 1..Len(s) : t[i] = s[i]
      /\ t[Len(s) + 1] = x
  OBVIOUS
<1>2. ToSet(t) = ToSet(s) \union {x}
  <2>1. \A i \in 1..(Len(s) + 1) : i \in 1..Len(s) \/ i = Len(s) + 1
    BY <1>1
  <2>2. \A y : y \in ToSet(t) <=> \E i \in 1..(Len(s) + 1) : y = t[i]
    BY <1>1 DEF ToSet
  <2>3. \A y : y \in ToSet(s) <=> \E i \in 1..Len(s) : y = s[i]
    BY <1>1 DEF ToSet
  <2>4. \A i \in 1..Len(s) : i \in 1..(Len(s) + 1)
    BY <1>1
  <2>5. Len(s) + 1 \in 1..(Len(s) + 1)
    BY <1>1
  <2>6. \A y : y \in ToSet(t) <=> (y \in ToSet(s) \/ y = x)
    BY <2>1, <2>2, <2>3, <2>4, <2>5, <1>1
  <2> QED
    BY <2>6
<1>3. ASSUME IsInjective(s), x \notin ToSet(s)
      PROVE  IsInjective(t)
  <2>1. \A i \in 1..Len(s) : s[i] # x
    BY <1>1, <1>3 DEF ToSet
  <2> QED
    BY <2>1, <1>1, <1>3 DEF IsInjective
<1> QED
  BY <1>1, <1>2, <1>3

\* A queue is empty exactly when it has no element.
LEMMA EmptyQueue ==
    ASSUME NEW S, NEW s \in Seq(S)
    PROVE  /\ ToSet(<<>>) = {}
           /\ IsInjective(<<>>)
           /\ ToSet(s) \subseteq S
           /\ s = <<>> <=> ToSet(s) = {}
<1>1. Len(s) \in Nat /\ DOMAIN s = 1..Len(s) /\ \A i \in 1..Len(s) : s[i] \in S
  OBVIOUS
<1>2. ToSet(<<>>) = {} /\ IsInjective(<<>>)
  BY DEF ToSet, IsInjective
<1>3. s # <<>> => ToSet(s) # {}
  <2> SUFFICES ASSUME s # <<>> PROVE s[1] \in ToSet(s)
    OBVIOUS
  <2>1. 1 \in DOMAIN s
    BY <1>1
  <2> QED
    BY <2>1 DEF ToSet
<1>4. ToSet(s) \subseteq S
  BY <1>1 DEF ToSet
<1> QED
  BY <1>2, <1>3, <1>4

-----------------------------------------------------------------------------
(* Remainders: the round robin of a group's servers, and of the groups that *)
(* inherit slots.                                                           *)

\* A number is its quotient times the divisor and its remainder.
LEMMA Quotient ==
    ASSUME NEW a \in Int, NEW n \in Nat \ {0}
    PROVE  a = n * (a \div n) + (a % n) /\ a % n \in 0..(n - 1) /\ a \div n \in Int
OBVIOUS

\* A positive multiple of n is not below n.
LEMMA MultipleIsLarge ==
    ASSUME NEW n \in Nat \ {0}, NEW q \in Int, q >= 1
    PROVE  n * q \in Int /\ n * q >= n
OBVIOUS

\* The remainder is the only number below n that differs from a by a multiple
\* of n.
LEMMA RemainderUnique ==
    ASSUME NEW a \in Int, NEW n \in Nat \ {0}, NEW q \in Int, NEW r \in 0..(n - 1),
           a = n * q + r
    PROVE  a % n = r
<1> DEFINE p == a \div n
           s == a % n
<1>1. a = n * p + s /\ s \in 0..(n - 1) /\ p \in Int
  BY Quotient
<1> HIDE DEF p, s
<1>2. n * (p - q) = r - s
  BY <1>1
<1>3. p = q
  <2>1. p - q \in Int /\ q - p \in Int
    BY <1>1
  <2>2. CASE p - q >= 1
    <3>1. n * (p - q) >= n
      BY <2>1, <2>2, MultipleIsLarge
    <3> QED BY <3>1, <1>1, <1>2
  <2>3. CASE q - p >= 1
    <3>1. n * (q - p) >= n
      BY <2>1, <2>3, MultipleIsLarge
    <3>2. n * (q - p) = s - r
      BY <1>1, <1>2
    <3> QED BY <3>1, <3>2, <1>1, <1>2
  <2> QED BY <1>1, <2>2, <2>3
<1>4. s = r
  BY <1>1, <1>3
<1> QED BY <1>4 DEF s

\* Adding a multiple of n does not change the remainder.
LEMMA RemainderShift ==
    ASSUME NEW a \in Int, NEW n \in Nat \ {0}, NEW q \in Int
    PROVE  (a + n * q) % n = a % n
<1> DEFINE b == a + n * q
           p == a \div n
           r == a % n
<1>1. a = n * p + r /\ r \in 0..(n - 1) /\ p \in Int
  BY Quotient
<1> HIDE DEF p, r
<1>2. b \in Int /\ p + q \in Int
  <2>1. n * q \in Int
    OBVIOUS
  <2> QED BY <2>1, <1>1
<1>3. b = n * (p + q) + r
  BY <1>1
<1> HIDE DEF b
<1>4. b % n = r
  BY <1>1, <1>2, <1>3, RemainderUnique
<1> QED BY <1>4 DEF b, r

\* Dealing the numbers below l out by their remainder is fair: no remainder gets
\* two more than another.
LEMMA DealtEvenly ==
    ASSUME NEW l \in Nat, NEW c \in Nat \ {0}, NEW a \in 0..(c - 1), NEW b \in 0..(c - 1)
    PROVE  Cardinality({m \in 0..(l - 1) : m % c = a})
             <= Cardinality({m \in 0..(l - 1) : m % c = b}) + 1
<1> DEFINE A == {m \in 0..(l - 1) : m % c = a}
           B == {m \in 0..(l - 1) : m % c = b}
<1>1. IsFiniteSet(0..(l - 1))
  BY FS_Interval
<1>2. /\ IsFiniteSet(A) /\ Cardinality(A) \in Nat
      /\ IsFiniteSet(B) /\ Cardinality(B) \in Nat
  BY <1>1, FS_Subset, FS_CardinalityType
<1>3. ASSUME NEW m \in A PROVE m >= a /\ m \in Int /\ m < l /\ m % c = a /\ (m # a => m >= a + c)
  <2>1. m = c * (m \div c) + (m % c) /\ m \div c \in Int /\ m \in Nat /\ m < l /\ m % c = a
    BY Quotient
  <2>2. PICK q \in Int : m = c * q + a
    BY <2>1
  <2>3. q >= 0
    <3>1. CASE -q >= 1
      <4>1. c * (-q) >= c /\ c * (-q) = -(c * q) /\ c * q \in Int
        BY <3>1, MultipleIsLarge
      <4> QED BY <4>1, <2>1, <2>2
    <3> QED BY <3>1
  <2>4. q = 0 => m = a
    BY <2>2
  <2>5. q >= 1 => c * q >= c /\ c * q \in Int
    BY MultipleIsLarge
  <2> QED BY <2>1, <2>2, <2>3, <2>4, <2>5
<1>4. CASE b <= a
  <2> DEFINE f == [m \in A |-> m - (a - b)]
  <2>1. ASSUME NEW m \in A PROVE m - (a - b) \in B
    <3>1. (m - (a - b)) % c = b
      <4>1. m = c * (m \div c) + (m % c) /\ m \div c \in Int
        BY <1>3, Quotient
      <4>2. PICK q \in Int : m = c * q + a
        BY <1>3, <4>1
      <4>3. m - (a - b) = c * q + b
        BY <4>2
      <4> QED BY <4>3, <1>3, RemainderUnique
    <3>2. m - (a - b) \in 0..(l - 1)
      BY <1>3, <1>4
    <3> QED BY <3>1, <3>2
  <2>2. f \in [A -> B]
    BY <2>1
  <2>3. \A x, y \in A : f[x] = f[y] => x = y
    BY <1>3
  <2>4. f \in Injection(A, B)
    BY <2>2, <2>3 DEF Injection, IsInjective
  <2>5. Cardinality(A) <= Cardinality(B)
    BY <2>4, <1>2, FS_Injection
  <2> QED BY <2>5, <1>2
<1>5. CASE b > a
  <2> DEFINE D == A \ {a}
             f == [m \in D |-> m - (a + c - b)]
  <2>1. ASSUME NEW m \in D PROVE m - (a + c - b) \in B
    <3>0. m >= a + c /\ m \in Int /\ m < l /\ m % c = a
      BY <1>3
    <3>1. (m - (a + c - b)) % c = b
      <4>1. m = c * (m \div c) + (m % c) /\ m \div c \in Int
        BY <3>0, Quotient
      <4>2. PICK q \in Int : m = c * q + a
        BY <3>0, <4>1
      <4>3. m - (a + c - b) = c * (q - 1) + b /\ m - (a + c - b) \in Int /\ q - 1 \in Int
        BY <4>2, <3>0
      <4> QED BY <4>3, <3>0, RemainderUnique
    <3>2. m - (a + c - b) \in 0..(l - 1)
      BY <3>0, <1>5
    <3> QED BY <3>1, <3>2
  <2>2. f \in [D -> B]
    BY <2>1
  <2>3. \A x, y \in D : f[x] = f[y] => x = y
    BY <1>3
  <2>4. f \in Injection(D, B)
    BY <2>2, <2>3 DEF Injection, IsInjective
  <2>5. Cardinality(D) <= Cardinality(B)
    BY <2>4, <1>2, FS_Injection
  <2>6. Cardinality(A) <= Cardinality(D) + 1 /\ Cardinality(D) \in Nat
    <3>1. Cardinality(D) = IF a \in A THEN Cardinality(A) - 1 ELSE Cardinality(A)
      BY <1>2, FS_RemoveElement
    <3>2. IsFiniteSet(D)
      BY <1>2, FS_RemoveElement
    <3> QED BY <3>1, <3>2, <1>2, FS_CardinalityType
  <2> QED BY <2>5, <2>6, <1>2
<1> QED BY <1>4, <1>5

-----------------------------------------------------------------------------
(* Finite sets in a strict order: an element's place is the number of those *)
(* before it.  A std::set in the order of its elements, and the pieces of a *)
(* client's requests in the order they are written, are listed by place.    *)

\* Every place of the order is taken by one element, in the order.
LEMMA InOrder ==
    ASSUME NEW S, IsFiniteSet(S), NEW R,
           \A x \in S : <<x, x>> \notin R,
           \A x, y, z \in S : <<x, y>> \in R /\ <<y, z>> \in R => <<x, z>> \in R,
           \A x, y \in S : x # y => <<x, y>> \in R \/ <<y, x>> \in R
    PROVE  LET Place(g) == Cardinality({h \in S : <<h, g>> \in R})
               c == Cardinality(S)
           IN  /\ c \in Nat
               /\ \A g \in S : Place(g) \in 0..(c - 1)
               /\ \A g, k \in S : <<g, k>> \in R <=> Place(g) < Place(k)
               /\ \A g, k \in S : Place(g) = Place(k) => g = k
               /\ \A i \in 0..(c - 1) : \E g \in S : Place(g) = i
<1> DEFINE Below(g) == {h \in S : <<h, g>> \in R}
           Place(g) == Cardinality(Below(g))
           c == Cardinality(S)
           f == [g \in S |-> Place(g)]
<1>1. c \in Nat
  BY FS_CardinalityType
<1>2. ASSUME NEW g \in S PROVE IsFiniteSet(Below(g)) /\ Place(g) \in 0..(c - 1)
  <2>1. IsFiniteSet(S \ {g}) /\ Cardinality(S \ {g}) = c - 1
    BY FS_RemoveElement
  <2>2. Below(g) \in SUBSET (S \ {g})
    OBVIOUS
  <2>3. IsFiniteSet(Below(g)) /\ Cardinality(Below(g)) <= c - 1
    <3> DEFINE A == Below(g)
               B == S \ {g}
    <3>1. IsFiniteSet(B) /\ A \in SUBSET B /\ Cardinality(B) = c - 1
      BY <2>1, <2>2
    <3> HIDE DEF A, B, c
    <3>2. IsFiniteSet(A) /\ Cardinality(A) <= c - 1
      BY <3>1, FS_Subset
    <3> QED BY <3>2 DEF A
  <2>4. Cardinality(Below(g)) \in Nat
    BY <2>3, FS_CardinalityType
  <2> QED BY <2>3, <2>4, <1>1
<1>3. ASSUME NEW g \in S, NEW k \in S, <<g, k>> \in R PROVE Place(g) < Place(k)
  <2> DEFINE A == Below(g)
             B == Below(k)
  <2>1. A \union {g} \in SUBSET B /\ g \notin A
    BY <1>3
  <2>2. /\ IsFiniteSet(A) /\ IsFiniteSet(B)
        /\ Cardinality(A) \in Int /\ Cardinality(B) \in Int
    BY <1>2, <1>1
  <2> HIDE DEF A, B
  <2>3. Cardinality(A \union {g}) = Cardinality(A) + 1
    BY <2>1, <2>2, FS_AddElement
  <2>4. Cardinality(A \union {g}) <= Cardinality(B)
    BY <2>1, <2>2, FS_Subset
  <2>5. Cardinality(A) < Cardinality(B)
    BY <2>2, <2>3, <2>4
  <2> QED BY <2>5 DEF A, B
<1> HIDE DEF Place, Below, c
<1>4. ASSUME NEW g \in S, NEW k \in S PROVE (<<g, k>> \in R <=> Place(g) < Place(k)) /\ (Place(g) = Place(k) => g = k)
  <2>1. Place(g) \in Int /\ Place(k) \in Int
    BY <1>2, <1>1
  <2>2. CASE g = k
    BY <2>1, <2>2
  <2>3. CASE <<g, k>> \in R
    BY <2>1, <2>3, <1>3
  <2>4. CASE <<k, g>> \in R
    BY <2>1, <2>4, <1>3
  <2> QED BY <2>2, <2>3, <2>4
<1>5. f \in Injection(S, 0..(c - 1))
  BY <1>2, <1>4 DEF Injection, IsInjective
<1>6. IsFiniteSet(0..(c - 1)) /\ Cardinality(0..(c - 1)) = c
  <2>1. 0 \in Int /\ c - 1 \in Int /\ c = (c - 1) - 0 + 1 /\ (0 > c - 1 <=> c = 0)
    BY <1>1
  <2> QED BY <2>1, FS_Interval
<1>7. f \in Surjection(S, 0..(c - 1))
  <2> DEFINE T == 0..(c - 1)
  <2>1. f \in Injection(S, T) /\ IsFiniteSet(T) /\ Cardinality(S) = Cardinality(T)
    BY <1>5, <1>6 DEF c
  <2> HIDE DEF f, T
  <2>2. f \in Surjection(S, T)
    BY <2>1, FS_Injection
  <2> QED BY <2>2 DEF T
<1>8. \A i \in 0..(c - 1) : \E g \in S : Place(g) = i
  BY <1>7 DEF Surjection
<1> QED BY <1>1, <1>2, <1>4, <1>8 DEF Place, Below, c

\* Numbers in ascending order.
LEMMA NumbersInOrder ==
    ASSUME NEW S, S \subseteq Int, IsFiniteSet(S)
    PROVE  LET Place(g) == Cardinality({h \in S : h < g})
               c == Cardinality(S)
           IN  /\ \A g \in S : Place(g) \in 0..(c - 1)
               /\ \A g, k \in S : Place(g) = Place(k) => g = k
               /\ \A i \in 0..(c - 1) : \E g \in S : Place(g) = i
<1> DEFINE R == {p \in S \X S : p[1] < p[2]}
<1>1. \A x, y \in S : <<x, y>> \in R <=> x < y
  OBVIOUS
<1>2. \A g \in S : {h \in S : <<h, g>> \in R} = {h \in S : h < g}
  BY <1>1
<1> HIDE DEF R
<1>3. \A x \in S : <<x, x>> \notin R
  <2>1. \A x \in S : ~(x < x)
    OBVIOUS
  <2> QED BY <1>1, <2>1
<1>4. \A x, y, z \in S : <<x, y>> \in R /\ <<y, z>> \in R => <<x, z>> \in R
  <2>1. \A x, y, z \in S : x < y /\ y < z => x < z
    OBVIOUS
  <2> QED BY <1>1, <2>1
<1>5. \A x, y \in S : x # y => <<x, y>> \in R \/ <<y, x>> \in R
  <2>1. \A x, y \in S : x # y => x < y \/ y < x
    OBVIOUS
  <2> QED BY <1>1, <2>1
<1> DEFINE Place(g) == Cardinality({h \in S : <<h, g>> \in R})
           c == Cardinality(S)
<1>6. /\ \A g \in S : Place(g) \in 0..(c - 1)
      /\ \A g, k \in S : Place(g) = Place(k) => g = k
      /\ \A i \in 0..(c - 1) : \E g \in S : Place(g) = i
  BY <1>3, <1>4, <1>5, InOrder
<1> QED BY <1>2, <1>6

-----------------------------------------------------------------------------
(* Induction over the natural numbers, for sets of them: the library's      *)
(* theorems are about predicates.                                          *)

NatLess == {ss \in Nat \X Nat : ss[1] < ss[2]}

\* The order of the natural numbers has no infinite descent.
LEMMA NatLessWellFounded == IsWellFoundedOn(NatLess, Nat)
BY NatLessThanWellFounded DEF OpToRel, NatLess

\* A set of natural numbers has a least element.
LEMMA Least ==
    ASSUME NEW T \in SUBSET Nat, T # {}
    PROVE  \E x \in T : \A y \in T : x <= y
<1>1. PICK x \in T : \A y \in T : <<y, x>> \notin NatLess
  BY NatLessWellFounded, WFMin
<1>2. ASSUME NEW y \in T PROVE x <= y
  <2>1. x \in Nat /\ y \in Nat
    OBVIOUS
  <2>2. <<y, x>> \notin NatLess
    BY <1>1
  <2> QED BY <2>1, <2>2 DEF NatLess
<1> QED BY <1>2

\* A set that has 0, and with a number the next one, has all.
LEMMA Induct ==
    ASSUME NEW S \in SUBSET Nat, 0 \in S, \A n \in S : n + 1 \in S
    PROVE  S = Nat
<1> DEFINE T == Nat \ S
<1> SUFFICES ASSUME T # {} PROVE FALSE
  OBVIOUS
<1>1. PICK x \in T : \A y \in T : x <= y
  BY Least
<1>2. x # 0 /\ x \in Nat
  OBVIOUS
<1>3. x - 1 \in Nat /\ ~(x <= x - 1) /\ (x - 1) + 1 = x
  BY <1>2
<1>4. x - 1 \in S
  BY <1>1, <1>3
<1>5. x \in S
  BY <1>4, <1>3
<1> QED BY <1>5

\* The same up to a bound.
LEMMA InductTo ==
    ASSUME NEW n \in Nat, NEW S, 0 \in S, \A k \in 0..(n - 1) : k \in S => k + 1 \in S
    PROVE  \A k \in 0..n : k \in S
<1> DEFINE T == {k \in Nat : k <= n => k \in S}
<1>1. 0 \in T
  OBVIOUS
<1>2. ASSUME NEW k \in T PROVE k + 1 \in T
  <2>1. CASE k + 1 <= n
    <3>1. k \in 0..(n - 1) /\ k \in S
      BY <2>1
    <3> QED BY <3>1
  <2>2. CASE ~(k + 1 <= n)
    BY <2>2
  <2> QED BY <2>1, <2>2
<1>3. T = Nat
  <2> HIDE DEF T
  <2>1. T \in SUBSET Nat
    BY DEF T
  <2> QED BY <1>1, <1>2, <2>1, Induct
<1> QED BY <1>3

\* A set of numbers that has a bound has a greatest element.
LEMMA Greatest ==
    ASSUME NEW n \in Nat, NEW T \in SUBSET (0..n), T # {}
    PROVE  Max(T) \in T /\ \A y \in T : Max(T) >= y
<1> DEFINE R == {n - x : x \in T}
<1>1. R \in SUBSET Nat /\ R # {}
  <2>1. \A x \in T : n - x \in Nat
    OBVIOUS
  <2>2. PICK x \in T : TRUE
    OBVIOUS
  <2> QED BY <2>1, <2>2
<1>2. PICK r \in R : \A y \in R : r <= y
  BY <1>1, Least
<1>3. PICK x \in T : r = n - x
  OBVIOUS
<1>4. ASSUME NEW y \in T PROVE x >= y
  <2>1. n - y \in R
    OBVIOUS
  <2>2. n - x <= n - y
    BY <1>2, <1>3, <2>1
  <2> QED BY <2>2
<1>5. \E z \in T : \A y \in T : z >= y
  BY <1>4
<1> QED BY <1>5 DEF Max

\* And a least.
LEMMA MinIsLeast ==
    ASSUME NEW T \in SUBSET Nat, T # {}
    PROVE  Min(T) \in T /\ \A y \in T : Min(T) <= y
BY Least DEF Min

-----------------------------------------------------------------------------
(* Recursive functions and folds.                                           *)

\* A function on 0..n defined by recursion.
IsRecursion(f, n, A, base, step) ==
    /\ f \in [0..n -> A]
    /\ \A k \in 0..n : f[k] = IF k = 0 THEN base ELSE step[<<f[k - 1], k>>]

\* It exists.
LEMMA RecursionExists ==
    ASSUME NEW n \in Nat, NEW A, NEW base \in A, NEW step \in [A \X (1..n) -> A]
    PROVE  \E f : IsRecursion(f, n, A, base, step)
<1> DEFINE Is(f, m) == f = [k \in 0..m |-> IF k = 0 THEN base ELSE step[<<f[k - 1], k>>]]
           S == {m \in 0..n : \E f \in [0..m -> A] : Is(f, m)}
<1>1. 0 \in S
  <2> DEFINE f == [k \in 0..0 |-> base]
  <2>1. f \in [0..0 -> A] /\ Is(f, 0)
    OBVIOUS
  <2> HIDE DEF f, Is
  <2> QED BY <2>1
<1>2. ASSUME NEW m \in 0..(n - 1), m \in S PROVE m + 1 \in S
  <2>1. PICK f \in [0..m -> A] : Is(f, m)
    BY <1>2
  <2> DEFINE g == [k \in 0..(m + 1) |-> IF k = m + 1 THEN step[<<f[m], m + 1>>] ELSE f[k]]
  <2>2. m + 1 \in 1..n /\ m \in 0..m /\ f[m] \in A
    OBVIOUS
  <2>3. step[<<f[m], m + 1>>] \in A
    BY <2>2
  <2>4. g \in [0..(m + 1) -> A]
    BY <2>3
  <2>5. ASSUME NEW k \in 0..(m + 1)
        PROVE  g[k] = IF k = 0 THEN base ELSE step[<<g[k - 1], k>>]
    <3>1. CASE k = m + 1
      <4>1. k # 0 /\ k - 1 = m /\ g[m] = f[m] /\ g[k] = step[<<f[m], m + 1>>]
        BY <3>1
      <4> QED BY <3>1, <4>1
    <3>2. CASE k # m + 1
      <4>1. k \in 0..m /\ g[k] = f[k] /\ (k # 0 => g[k - 1] = f[k - 1])
        BY <3>2
      <4>2. f[k] = IF k = 0 THEN base ELSE step[<<f[k - 1], k>>]
        BY <2>1, <4>1
      <4> HIDE DEF g
      <4> QED BY <4>1, <4>2
    <3> QED BY <3>1, <3>2
  <2>6. Is(g, m + 1)
    <3>1. g = [k \in 0..(m + 1) |-> g[k]]
      OBVIOUS
    <3> HIDE DEF g
    <3> QED BY <2>5, <3>1
  <2> HIDE DEF g, Is
  <2>7. m + 1 \in 0..n
    OBVIOUS
  <2> QED BY <2>4, <2>6, <2>7
<1>3. n \in S
  <2> HIDE DEF S
  <2>1. \A k \in 0..n : k \in S
    BY <1>1, <1>2, InductTo
  <2> QED BY <2>1
<1>4. PICK f \in [0..n -> A] : Is(f, n)
  BY <1>3
<1>5. \A k \in 0..n : f[k] = IF k = 0 THEN base ELSE step[<<f[k - 1], k>>]
  BY <1>4
<1> QED BY <1>5 DEF IsRecursion

\* What FoldLeft does to a sequence of length n: a function on the sets of its places.
IsFold(f, n, A, base, step) ==
    /\ f \in [SUBSET (1..n) -> A]
    /\ \A S \in SUBSET (1..n) : f[S] = IF S = {} THEN base ELSE step[<<f[S \ {Max(S)}], Max(S)>>]

\* It exists.
LEMMA FoldExists ==
    ASSUME NEW n \in Nat, NEW A, NEW base \in A, NEW step \in [A \X (1..n) -> A]
    PROVE  \E f : IsFold(f, n, A, base, step)
<1> DEFINE Is(f, m) ==
             f = [S \in SUBSET (1..m) |-> IF S = {} THEN base ELSE step[<<f[S \ {Max(S)}], Max(S)>>]]
           T == {m \in 0..n : \E f \in [SUBSET (1..m) -> A] : Is(f, m)}
<1>1. 0 \in T
  <2> DEFINE f == [S \in {{}} |-> base]
  <2>1. SUBSET (1..0) = {{}}
    OBVIOUS
  <2>2. f \in [SUBSET (1..0) -> A]
    BY <2>1
  <2>3. f = [S \in {{}} |-> IF S = {} THEN base ELSE step[<<f[S \ {Max(S)}], Max(S)>>]]
    OBVIOUS
  <2>4. Is(f, 0)
    <3> HIDE DEF f
    <3> QED BY <2>1, <2>3, Zenon
  <2> HIDE DEF f, Is
  <2>5. 0 \in 0..n /\ \E h \in [SUBSET (1..0) -> A] : Is(h, 0)
    BY <2>2, <2>4
  <2> QED BY <2>5, Zenon
<1>2. ASSUME NEW m \in 0..(n - 1), m \in T PROVE m + 1 \in T
  <2>1. PICK f \in [SUBSET (1..m) -> A] : Is(f, m)
    BY <1>2
  <2> DEFINE D == SUBSET (1..(m + 1))
             g == [S \in D |-> IF m + 1 \in S THEN step[<<f[S \ {m + 1}], m + 1>>] ELSE f[S]]
  <2>2. ASSUME NEW S \in D, m + 1 \notin S PROVE S \in SUBSET (1..m)
    BY <2>2
  <2>3. \A S \in D : S \ {m + 1} \in SUBSET (1..m)
    BY <2>2
  <2>4. ASSUME NEW S \in D PROVE g[S] \in A
    <3>1. m + 1 \in 1..n
      OBVIOUS
    <3>2. f[S \ {m + 1}] \in A
      BY <2>3
    <3>3. m + 1 \notin S => f[S] \in A
      BY <2>2
    <3>4. step[<<f[S \ {m + 1}], m + 1>>] \in A
      BY <3>1, <3>2
    <3> HIDE DEF D
    <3> QED BY <3>3, <3>4
  <2>5. ASSUME NEW S \in D, S # {}, m + 1 \in S PROVE Max(S) = m + 1
    <3>1. S \in SUBSET (0..(m + 1)) /\ m + 1 \in Nat
      OBVIOUS
    <3> HIDE DEF D
    <3>2. Max(S) \in S /\ Max(S) >= m + 1
      BY <2>5, <3>1, Greatest
    <3>3. \A x \in S : x <= m + 1 /\ x \in Int
      BY <3>1
    <3>4. Max(S) <= m + 1 /\ Max(S) \in Int
      BY <3>2, <3>3
    <3> HIDE DEF Max
    <3> QED BY <3>2, <3>4
  <2>6. ASSUME NEW S \in D, S # {}, m + 1 \notin S
        PROVE  Max(S) \in S /\ S \ {Max(S)} \in D /\ m + 1 \notin S \ {Max(S)}
    <3>1. S \in SUBSET (0..(m + 1)) /\ m + 1 \in Nat
      OBVIOUS
    <3>2. Max(S) \in S
      BY <2>6, <3>1, Greatest
    <3> QED BY <2>6, <3>2
  <2>7. ASSUME NEW S \in D
        PROVE  g[S] = IF S = {} THEN base ELSE step[<<g[S \ {Max(S)}], Max(S)>>]
    <3>1. CASE m + 1 \in S
      <4>1. S # {} /\ Max(S) = m + 1
        BY <2>5, <3>1
      <4>2. S \ {m + 1} \in D /\ m + 1 \notin S \ {m + 1}
        OBVIOUS
      <4>3. g[S \ {m + 1}] = f[S \ {m + 1}] /\ g[S] = step[<<f[S \ {m + 1}], m + 1>>]
        BY <3>1, <4>2
      <4> HIDE DEF g, D
      <4> QED BY <4>1, <4>3
    <3>2. CASE m + 1 \notin S
      <4>1. g[S] = f[S] /\ S \in SUBSET (1..m)
        BY <2>2, <3>2
      <4>2. f[S] = IF S = {} THEN base ELSE step[<<f[S \ {Max(S)}], Max(S)>>]
        BY <2>1, <4>1
      <4>3. S # {} => g[S \ {Max(S)}] = f[S \ {Max(S)}]
        BY <2>6, <3>2
      <4> HIDE DEF g, D
      <4> QED BY <4>1, <4>2, <4>3
    <3> QED BY <3>1, <3>2
  <2>8. Is(g, m + 1) /\ g \in [D -> A]
    <3>1. g = [S \in D |-> g[S]]
      OBVIOUS
    <3> HIDE DEF g
    <3> QED BY <2>4, <2>7, <3>1
  <2> HIDE DEF g, Is
  <2>9. m + 1 \in 0..n
    OBVIOUS
  <2> QED BY <2>8, <2>9
<1>3. n \in T
  <2> HIDE DEF T
  <2>1. \A k \in 0..n : k \in T
    BY <1>1, <1>2, InductTo
  <2> QED BY <2>1
<1>4. PICK f \in [SUBSET (1..n) -> A] : Is(f, n)
  BY <1>3
<1>5. \A S \in SUBSET (1..n) : f[S] = IF S = {} THEN base ELSE step[<<f[S \ {Max(S)}], Max(S)>>]
  BY <1>4
<1> QED BY <1>5 DEF IsFold

\* The sets a fold from the left goes through.
LEMMA PrefixMax ==
    ASSUME NEW n \in Nat, NEW k \in 0..(n - 1)
    PROVE  /\ 1..(k + 1) \in SUBSET (1..n) /\ 1..(k + 1) # {}
           /\ Max(1..(k + 1)) = k + 1 /\ (1..(k + 1)) \ {k + 1} = 1..k
<1> DEFINE S == 1..(k + 1)
<1>1. S \in SUBSET (0..n) /\ S # {} /\ k + 1 \in S
  OBVIOUS
<1>2. Max(S) \in S /\ Max(S) >= k + 1
  <2> HIDE DEF S
  <2> QED BY <1>1, Greatest
<1>3. Max(S) = k + 1
  BY <1>2
<1> QED BY <1>3

-----------------------------------------------------------------------------
(* Images and sequences.                                                   *)

\* The image of a finite set under a function is finite.
LEMMA FiniteImage ==
    ASSUME NEW D, IsFiniteSet(D), NEW f
    PROVE  IsFiniteSet({f[x] : x \in D})
<1> DEFINE T == {f[x] : x \in D}
           g == [x \in D |-> f[x]]
<1>1. g \in Surjection(D, T)
  BY DEF Surjection
<1> QED BY <1>1, FS_Surjection

\* The sequences of a sequence, one after the other.
LEMMA FlattenFold ==
    ASSUME NEW X, NEW s \in Seq(Seq(X))
    PROVE  \E t : /\ t \in [0..Len(s) -> Seq(X)] /\ t[0] = <<>>
                  /\ \A k \in 0..(Len(s) - 1) : t[k + 1] = t[k] \o s[k + 1]
                  /\ t[Len(s)] = FlattenSeq(s)
<1> DEFINE n == Len(s)
           A == Seq(X)
           step == [p \in A \X (1..n) |-> p[1] \o s[p[2]]]
           F == CHOOSE f : f = [i \in 1..n |-> IF i = 1 THEN s[i] ELSE f[i - 1] \o s[i]]
<1>1. n \in Nat /\ DOMAIN s = 1..n /\ \A k \in 1..n : s[k] \in A
  OBVIOUS
<1>2. <<>> \in A /\ \A a \in A : <<>> \o a = a
  BY ConcatEmptySeq
<1>3. ASSUME NEW a \in A, NEW k \in 1..n PROVE a \o s[k] \in A
  BY <1>1, ConcatProperties
<1>4. n # 0 => FlattenSeq(s) = F[n]
  BY DEF FlattenSeq
<1>5. step \in [A \X (1..n) -> A]
  <2> HIDE DEF A, n
  <2>1. \A p \in A \X (1..n) : p[1] \o s[p[2]] \in A
    BY <1>3
  <2> QED BY <2>1
<1>6. \A a \in A, k \in 1..n : step[<<a, k>>] = a \o s[k]
  <2> HIDE DEF A, n
  <2> QED OBVIOUS
<1> HIDE DEF A, step, n
<1>7. PICK h : IsRecursion(h, n, A, <<>>, step)
  BY <1>1, <1>2, <1>5, RecursionExists
<1>8. /\ h \in [0..n -> A] /\ h[0] = <<>>
      /\ \A k \in 1..n : h[k] = h[k - 1] \o s[k]
  <2>1. h \in [0..n -> A] /\ h[0] = <<>>
    <3>1. 0 \in 0..n
      BY <1>1
    <3>2. h \in [0..n -> A]
      BY <1>7 DEF IsRecursion
    <3>3. h[0] = IF 0 = 0 THEN <<>> ELSE step[<<h[0 - 1], 0>>]
      BY <1>7, <3>1, Zenon DEF IsRecursion
    <3> QED BY <3>2, <3>3
  <2>2. ASSUME NEW k \in 1..n PROVE h[k] = h[k - 1] \o s[k]
    <3>1. k \in 0..n /\ k - 1 \in 0..n /\ k # 0
      BY <1>1
    <3>2. h[k] = step[<<h[k - 1], k>>] /\ h[k - 1] \in A
      BY <1>7, <2>1, <3>1 DEF IsRecursion
    <3> QED BY <1>6, <3>2
  <2> QED BY <2>1, <2>2
<1>9. \E f : f = [i \in 1..n |-> IF i = 1 THEN s[i] ELSE f[i - 1] \o s[i]]
  <2> DEFINE g == [i \in 1..n |-> h[i]]
  <2>1. ASSUME NEW i \in 1..n PROVE g[i] = IF i = 1 THEN s[i] ELSE g[i - 1] \o s[i]
    <3>1. h[i] = h[i - 1] \o s[i] /\ s[i] \in A
      BY <1>1, <1>8
    <3>2. CASE i = 1
      <4>1. h[i - 1] = <<>> /\ g[i] = h[i]
        BY <1>8, <3>2
      <4> QED BY <1>2, <3>1, <3>2, <4>1
    <3>3. CASE i # 1
      <4>1. i - 1 \in 1..n
        BY <1>1, <3>3
      <4> QED BY <3>1, <3>3, <4>1
    <3> QED BY <3>2, <3>3
  <2>2. g = [i \in 1..n |-> g[i]]
    OBVIOUS
  <2> HIDE DEF g
  <2>3. g = [i \in 1..n |-> IF i = 1 THEN s[i] ELSE g[i - 1] \o s[i]]
    BY <2>1, <2>2
  <2> QED BY <2>3
<1>10. F = [i \in 1..n |-> IF i = 1 THEN s[i] ELSE F[i - 1] \o s[i]]
  BY <1>9
<1> HIDE DEF F
<1> DEFINE t == [k \in 0..n |-> IF k = 0 THEN <<>> ELSE F[k]]
<1>11. ASSUME NEW k \in 0..(n - 1) PROVE t[k + 1] = t[k] \o s[k + 1]
  <2>1. k + 1 \in 1..n /\ k \in 0..n /\ k + 1 \in 0..n /\ (k + 1) - 1 = k /\ k + 1 # 0
    BY <1>1
  <2>2. t[k + 1] = F[k + 1]
    BY <2>1
  <2>3. F[k + 1] = IF k + 1 = 1 THEN s[k + 1] ELSE F[k] \o s[k + 1]
    BY <1>10, <2>1
  <2>4. CASE k = 0
    <3>1. t[k] = <<>> /\ s[k + 1] \in A /\ k + 1 = 1
      BY <1>1, <2>1, <2>4
    <3> HIDE DEF t
    <3> DEFINE a == s[k + 1]
    <3>2. a \in A
      BY <3>1
    <3> HIDE DEF a
    <3>3. <<>> \o a = a
      BY <1>2, <3>2
    <3>4. t[k] \o a = a
      BY <3>1, <3>3, Zenon
    <3>5. F[k + 1] = s[k + 1]
      BY <2>3, <3>1
    <3> QED BY <2>2, <3>4, <3>5 DEF a
  <2>5. CASE k # 0
    <3>1. t[k] = F[k] /\ k + 1 # 1
      BY <2>1, <2>5
    <3> QED BY <2>2, <2>3, <3>1
  <2> QED BY <2>4, <2>5
<1>12. t[0] = <<>>
  BY <1>1
<1>13. t \in [0..n -> A]
  <2> DEFINE T == {k \in 0..n : t[k] \in A}
  <2> HIDE DEF t
  <2>1. 0 \in T
    BY <1>1, <1>2, <1>12
  <2>2. ASSUME NEW k \in 0..(n - 1), k \in T PROVE k + 1 \in T
    <3>1. k + 1 \in 1..n /\ k + 1 \in 0..n
      BY <1>1
    <3> QED BY <1>3, <1>11, <2>2, <3>1
  <2>3. \A k \in 0..n : k \in T
    <3> HIDE DEF T
    <3> QED BY <1>1, <2>1, <2>2, InductTo
  <2>4. t = [k \in 0..n |-> t[k]]
    BY DEF t
  <2> QED BY <2>3, <2>4
<1>14. t[n] = FlattenSeq(s)
  <2>1. CASE n = 0
    <3>1. s = <<>>
      BY <1>1, <2>1 DEF n
    <3>2. FlattenSeq(s) = <<>>
      BY <2>1, <3>1 DEF FlattenSeq, n
    <3> QED BY <1>12, <2>1, <3>2
  <2>2. CASE n # 0
    BY <1>1, <1>4, <2>2
  <2> QED BY <2>1, <2>2
<1> HIDE DEF t
<1> QED BY <1>11, <1>12, <1>13, <1>14 DEF n, A

\* A sequence over a set is one over every larger set.
LEMMA SeqMonotone ==
    ASSUME NEW A, NEW B, A \subseteq B, NEW s \in Seq(A)
    PROVE  s \in Seq(B)
<1>1. Len(s) \in Nat /\ s \in [1..Len(s) -> A]
  OBVIOUS
<1>2. s \in [1..Len(s) -> B]
  BY <1>1
<1> QED BY <1>1, <1>2

\* A sequence is one over its own elements.
LEMMA SeqOfItself ==
    ASSUME NEW A, NEW s \in Seq(A)
    PROVE  s \in Seq(ToSet(s))
<1>1. Len(s) \in Nat /\ s \in [1..Len(s) -> A] /\ DOMAIN s = 1..Len(s)
  OBVIOUS
<1>2. s \in [1..Len(s) -> ToSet(s)]
  BY <1>1 DEF ToSet
<1> QED BY <1>1, <1>2

\* A sequence that is mapped element by element.
LEMMA MappedSeq ==
    ASSUME NEW A, NEW s \in Seq(A), NEW f, f = [k \in DOMAIN s |-> f[k]]
    PROVE  f \in Seq(ToSet(f)) /\ Len(f) = Len(s) /\ DOMAIN f = DOMAIN s
<1>1. Len(s) \in Nat /\ DOMAIN s = 1..Len(s) /\ DOMAIN f = 1..Len(s)
  BY Zenon, LenProperties
<1>2. f \in [1..Len(s) -> ToSet(f)]
  BY <1>1 DEF ToSet
<1>3. f \in Seq(ToSet(f))
  BY <1>1, <1>2
<1> QED BY <1>1, <1>3

\* A sequence without one of its elements.
LEMMA WithoutElement ==
    ASSUME NEW X, NEW s \in Seq(X), NEW m \in 1..Len(s)
    PROVE  /\ RemoveAt(s, m) \in Seq(X) /\ Len(RemoveAt(s, m)) = Len(s) - 1
           /\ \A k \in 1..(Len(s) - 1) : RemoveAt(s, m)[k] = IF k < m THEN s[k] ELSE s[k + 1]
<1> DEFINE p == SubSeq(s, 1, m - 1)
           q == SubSeq(s, m + 1, Len(s))
<1>1. m \in Nat /\ Len(s) \in Nat /\ m >= 1 /\ m <= Len(s)
  OBVIOUS
<1>2. p \in Seq(X) /\ Len(p) = m - 1 /\ \A k \in 1..(m - 1) : p[k] = s[k]
  <2>1. \A i \in 1..(m - 1) : s[i] \in X
    BY <1>1
  <2>2. /\ p \in Seq(X)
        /\ Len(p) = IF 1 <= m - 1 THEN (m - 1) - 1 + 1 ELSE 0
        /\ \A i \in 1..((m - 1) - 1 + 1) : p[i] = s[1 + i - 1]
    BY <1>1, <2>1, SubSeqProperties
  <2> HIDE DEF p
  <2>3. (m - 1) - 1 + 1 = m - 1 /\ \A i \in 1..(m - 1) : 1 + i - 1 = i
    BY <1>1
  <2> QED BY <1>1, <2>2, <2>3
<1>3. q \in Seq(X) /\ Len(q) = Len(s) - m /\ \A k \in 1..(Len(s) - m) : q[k] = s[m + k]
  <2>1. \A i \in (m + 1)..Len(s) : s[i] \in X
    BY <1>1
  <2>2. /\ q \in Seq(X)
        /\ Len(q) = IF m + 1 <= Len(s) THEN Len(s) - (m + 1) + 1 ELSE 0
        /\ \A i \in 1..(Len(s) - (m + 1) + 1) : q[i] = s[(m + 1) + i - 1]
    BY <1>1, <2>1, SubSeqProperties
  <2> HIDE DEF q
  <2>3. Len(q) = Len(s) - m
    <3>1. Len(q) = IF m + 1 <= Len(s) THEN Len(s) - (m + 1) + 1 ELSE 0
      BY <2>2
    <3>2. CASE m + 1 <= Len(s)
      BY <1>1, <3>1, <3>2
    <3>3. CASE ~(m + 1 <= Len(s))
      <4>1. m = Len(s)
        BY <1>1, <3>3
      <4> QED BY <1>1, <3>1, <3>3, <4>1
    <3> QED BY <3>2, <3>3
  <2>4. ASSUME NEW k \in 1..(Len(s) - m) PROVE q[k] = s[m + k]
    <3>1. k \in 1..(Len(s) - (m + 1) + 1) /\ (m + 1) + k - 1 = m + k
      BY <1>1
    <3>2. q[k] = s[(m + 1) + k - 1]
      BY <2>2, <3>1
    <3> QED BY <3>1, <3>2
  <2> QED BY <2>2, <2>3, <2>4
<1>4. RemoveAt(s, m) = p \o q
  BY DEF RemoveAt
<1> HIDE DEF p, q
<1>5. /\ p \o q \in Seq(X) /\ Len(p \o q) = Len(p) + Len(q)
      /\ \A i \in 1..(Len(p) + Len(q)) : (p \o q)[i] = IF i <= Len(p) THEN p[i] ELSE q[i - Len(p)]
  BY <1>2, <1>3, ConcatProperties
<1>6. ASSUME NEW k \in 1..(Len(s) - 1) PROVE (p \o q)[k] = IF k < m THEN s[k] ELSE s[k + 1]
  <2>1. k \in 1..(Len(p) + Len(q)) /\ k \in Nat
    BY <1>1, <1>2, <1>3
  <2>2. CASE k < m
    <3>1. k <= Len(p) /\ k \in 1..(m - 1)
      BY <1>1, <1>2, <2>1, <2>2
    <3> QED BY <1>2, <1>5, <2>1, <2>2, <3>1
  <2>3. CASE ~(k < m)
    <3>1. ~(k <= Len(p)) /\ k - Len(p) \in 1..(Len(s) - m) /\ m + (k - Len(p)) = k + 1
      BY <1>1, <1>2, <2>1, <2>3
    <3>2. (p \o q)[k] = q[k - Len(p)]
      BY <1>5, <2>1, <3>1
    <3>3. q[k - Len(p)] = s[m + (k - Len(p))]
      BY <1>3, <3>1
    <3> QED BY <2>3, <3>1, <3>2, <3>3
  <2> QED BY <2>2, <2>3
<1>7. Len(p) + Len(q) = Len(s) - 1
  BY <1>1, <1>2, <1>3
<1> QED BY <1>4, <1>5, <1>6, <1>7

-----------------------------------------------------------------------------
(* Sums over finite sets: SumFunctionOnSet takes the elements in an order   *)
(* of its own, which does not matter.                                      *)

OneOf(T) == CHOOSE x \in T : TRUE

\* F is what SumFunctionOnSet computes for every part of S.
IsSum(F, f, S) ==
    F = [T \in SUBSET S |-> IF T = {} THEN 0 ELSE f[OneOf(T)] + F[T \ {OneOf(T)}]]

\* It exists.
LEMMA SumExists ==
    ASSUME NEW S, IsFiniteSet(S), NEW f
    PROVE  \E F : IsSum(F, f, S)
<1> DEFINE rest(T) == T \ {OneOf(T)}
           Parts(n) == {T \in SUBSET S : Cardinality(T) <= n}
           Is(F, n) == \A T \in Parts(n) : F[T] = IF T = {} THEN 0 ELSE f[OneOf(T)] + F[rest(T)]
           c == Cardinality(S)
           N == {n \in 0..c : \E F : Is(F, n)}
<1>1. c \in Nat /\ \A T \in SUBSET S : IsFiniteSet(T) /\ Cardinality(T) \in 0..c
  BY FS_CardinalityType, FS_Subset
<1>2. ASSUME NEW T \in SUBSET S, T # {}
      PROVE  rest(T) \in SUBSET S /\ Cardinality(rest(T)) = Cardinality(T) - 1
  <2>1. OneOf(T) \in T
    BY <1>2 DEF OneOf
  <2>2. Cardinality(T \ {OneOf(T)}) = Cardinality(T) - 1
    BY <1>1, <2>1, FS_RemoveElement
  <2> QED BY <2>2
<1> HIDE DEF rest
<1>3. 0 \in N
  <2> DEFINE F == [T \in Parts(0) |-> 0]
  <2>1. \A T \in Parts(0) : T = {}
    BY <1>1, FS_EmptySet
  <2>2. Is(F, 0)
    BY <2>1
  <2> HIDE DEF F, Is
  <2> QED BY <1>1, <2>2
<1>4. ASSUME NEW n \in 0..(c - 1), n \in N PROVE n + 1 \in N
  <2>1. PICK F : Is(F, n)
    BY <1>4
  <2> DEFINE G == [T \in Parts(n + 1) |-> IF T = {} THEN 0 ELSE f[OneOf(T)] + F[rest(T)]]
  <2>2. ASSUME NEW T \in Parts(n + 1), T # {} PROVE rest(T) \in Parts(n) /\ rest(T) \in Parts(n + 1)
    BY <1>1, <1>2, <2>2
  <2>3. ASSUME NEW T \in Parts(n) PROVE T \in Parts(n + 1) /\ G[T] = F[T]
    <3>1. T \in Parts(n + 1)
      BY <1>1
    <3>2. F[T] = IF T = {} THEN 0 ELSE f[OneOf(T)] + F[rest(T)]
      BY <2>1
    <3> HIDE DEF Parts
    <3> QED BY <3>1, <3>2
  <2>4. ASSUME NEW T \in Parts(n + 1)
        PROVE  G[T] = IF T = {} THEN 0 ELSE f[OneOf(T)] + G[rest(T)]
    <3>1. G[T] = IF T = {} THEN 0 ELSE f[OneOf(T)] + F[rest(T)]
      OBVIOUS
    <3>2. T # {} => G[rest(T)] = F[rest(T)]
      BY <2>2, <2>3
    <3> HIDE DEF G, Parts
    <3> QED BY <3>1, <3>2
  <2>5. Is(G, n + 1)
    <3> HIDE DEF G, Parts
    <3> QED BY <2>4
  <2> HIDE DEF Is, G
  <2>6. n + 1 \in 0..c
    BY <1>1
  <2> QED BY <2>5, <2>6
<1>5. PICK F : Is(F, c)
  <2> HIDE DEF Is
  <2>1. \A n \in 0..c : n \in N
    <3> HIDE DEF N
    <3> QED BY <1>1, <1>3, <1>4, InductTo
  <2> QED BY <1>1, <2>1
<1> DEFINE G == [T \in SUBSET S |-> IF T = {} THEN 0 ELSE f[OneOf(T)] + F[rest(T)]]
<1>6. Parts(c) = SUBSET S
  BY <1>1
<1>7. \A T \in SUBSET S : G[T] = F[T]
  BY <1>5, <1>6
<1>8. G = [T \in SUBSET S |-> IF T = {} THEN 0 ELSE f[OneOf(T)] + G[rest(T)]]
  <2>1. ASSUME NEW T \in SUBSET S
        PROVE  (IF T = {} THEN 0 ELSE f[OneOf(T)] + F[rest(T)])
                  = (IF T = {} THEN 0 ELSE f[OneOf(T)] + G[rest(T)])
    <3>1. T # {} => G[rest(T)] = F[rest(T)]
      BY <1>2, <1>7
    <3> HIDE DEF G
    <3> QED BY <3>1
  <2> QED BY <2>1, Zenon
<1> HIDE DEF G
<1> QED BY <1>8 DEF rest, IsSum

LEMMA SumIs ==
    ASSUME NEW S, IsFiniteSet(S), NEW f
    PROVE  \E F : IsSum(F, f, S) /\ SumFunctionOnSet(f, S) = F[S]
<1> DEFINE F == CHOOSE F : F = [T \in SUBSET S |-> IF T = {} THEN 0 ELSE f[OneOf(T)] + F[T \ {OneOf(T)}]]
<1>1. SumFunctionOnSet(f, S) = F[S]
  BY Zenon DEF SumFunctionOnSet, FoldFunctionOnSet, MapThenFoldSet, OneOf
<1>2. IsSum(F, f, S)
  <2>1. \E G : IsSum(G, f, S)
    BY SumExists
  <2> QED BY <2>1, Zenon DEF IsSum
<1> QED BY <1>1, <1>2

\* A step of it.
LEMMA SumStep ==
    ASSUME NEW S, NEW f, NEW F, IsSum(F, f, S), NEW T \in SUBSET S
    PROVE  /\ T = {} => F[T] = 0
           /\ T # {} => OneOf(T) \in T /\ F[T] = f[OneOf(T)] + F[T \ {OneOf(T)}]
<1>1. F = [U \in SUBSET S |-> IF U = {} THEN 0 ELSE f[OneOf(U)] + F[U \ {OneOf(U)}]]
  BY DEF IsSum
<1>2. T # {} => OneOf(T) \in T
  BY DEF OneOf
<1> QED BY <1>1, <1>2

\* It is unique, and a natural number.
LEMMA SumUnique ==
    ASSUME NEW S, IsFiniteSet(S), NEW f, NEW g, NEW F, NEW G, NEW A, NEW B,
           IsSum(F, f, A), IsSum(G, g, B), S \subseteq A, S \subseteq B,
           \A x \in S : f[x] = g[x] /\ f[x] \in Nat
    PROVE  F[S] = G[S] /\ F[S] \in Nat
<1> DEFINE c == Cardinality(S)
           N == {n \in 0..c : \A T \in SUBSET S : Cardinality(T) = n => F[T] = G[T] /\ F[T] \in Nat}
<1>1. c \in Nat /\ \A T \in SUBSET S : IsFiniteSet(T) /\ Cardinality(T) \in 0..c
  BY FS_CardinalityType, FS_Subset
<1>2. ASSUME NEW T \in SUBSET S
      PROVE  /\ T = {} => F[T] = 0 /\ G[T] = 0
             /\ T # {} => \E x \in T : F[T] = f[x] + F[T \ {x}] /\ G[T] = g[x] + G[T \ {x}]
  <2>1. T \in SUBSET A /\ T \in SUBSET B
    OBVIOUS
  <2>2. /\ T = {} => F[T] = 0 /\ G[T] = 0
        /\ T # {} => OneOf(T) \in T /\ F[T] = f[OneOf(T)] + F[T \ {OneOf(T)}]
                                  /\ G[T] = g[OneOf(T)] + G[T \ {OneOf(T)}]
    BY <2>1, SumStep
  <2>3. T # {} => f[OneOf(T)] = g[OneOf(T)]
    BY <2>2
  <2> QED BY <2>2, <2>3
<1>3. 0 \in N
  <2>1. \A T \in SUBSET S : Cardinality(T) = 0 => T = {}
    BY <1>1, FS_EmptySet
  <2> QED BY <1>1, <1>2, <2>1
<1>4. ASSUME NEW n \in 0..(c - 1), n \in N PROVE n + 1 \in N
  <2>1. ASSUME NEW T \in SUBSET S, Cardinality(T) = n + 1 PROVE F[T] = G[T] /\ F[T] \in Nat
    <3>1. T # {}
      BY <1>1, <2>1, FS_EmptySet
    <3>2. PICK x \in T : F[T] = f[x] + F[T \ {x}] /\ G[T] = g[x] + G[T \ {x}]
      BY <1>2, <3>1
    <3>3. Cardinality(T \ {x}) = n
      BY <1>1, <2>1, FS_RemoveElement
    <3>4. F[T \ {x}] = G[T \ {x}] /\ F[T \ {x}] \in Nat
      BY <1>4, <3>3
    <3> QED BY <3>2, <3>4
  <2> QED BY <1>1, <2>1
<1>5. \A n \in 0..c : n \in N
  <2> HIDE DEF N
  <2> QED BY <1>1, <1>3, <1>4, InductTo
<1> QED BY <1>1, <1>5

\* Any element may be taken first.
LEMMA SumTake ==
    ASSUME NEW S, IsFiniteSet(S), NEW f, \A x \in S : f[x] \in Nat, NEW F, IsSum(F, f, S), NEW x \in S
    PROVE  F[S] = f[x] + F[S \ {x}]
<1> DEFINE c == Cardinality(S)
           N == {n \in 0..c : \A T \in SUBSET S : Cardinality(T) = n =>
                    \A y \in T : F[T] = f[y] + F[T \ {y}]}
<1>1. c \in Nat /\ \A T \in SUBSET S : IsFiniteSet(T) /\ Cardinality(T) \in 0..c
  BY FS_CardinalityType, FS_Subset
<1>2. \A T \in SUBSET S : F[T] \in Nat
  <2>1. ASSUME NEW T \in SUBSET S PROVE F[T] \in Nat
    <3>1. IsFiniteSet(T) /\ \A y \in T : f[y] \in Nat
      BY <1>1
    <3> QED BY <3>1, SumUnique
  <2> QED BY <2>1
<1>3. 0 \in N
  <2>1. \A T \in SUBSET S : Cardinality(T) = 0 => T = {}
    BY <1>1, FS_EmptySet
  <2> QED BY <1>1, <2>1
<1>4. ASSUME NEW n \in 0..(c - 1), n \in N PROVE n + 1 \in N
  <2>1. ASSUME NEW T \in SUBSET S, Cardinality(T) = n + 1, NEW y \in T
        PROVE  F[T] = f[y] + F[T \ {y}]
    <3>1. PICK z \in T : F[T] = f[z] + F[T \ {z}]
      <4>1. OneOf(T) \in T /\ F[T] = f[OneOf(T)] + F[T \ {OneOf(T)}]
        BY SumStep
      <4> QED BY <4>1
    <3>2. CASE y = z
      BY <3>1, <3>2
    <3>3. CASE y # z
      <4> DEFINE U == T \ {z}
                 V == T \ {y}
      <4>1. Cardinality(U) = n /\ Cardinality(V) = n
        <5>1. IsFiniteSet(T)
          BY <1>1
        <5>2. Cardinality(U) = Cardinality(T) - 1 /\ Cardinality(V) = Cardinality(T) - 1
          BY <5>1, FS_RemoveElement
        <5> QED BY <1>1, <2>1, <5>2
      <4>2. U \in SUBSET S /\ V \in SUBSET S /\ y \in U /\ z \in V /\ U \ {y} = V \ {z}
        BY <3>3
      <4> HIDE DEF U, V
      <4>3. F[U] = f[y] + F[U \ {y}] /\ F[V] = f[z] + F[V \ {z}]
        BY <1>4, <4>1, <4>2
      <4>4. U \ {y} \in SUBSET S
        BY <4>2
      <4>5. F[U \ {y}] \in Nat
        BY <1>2, <4>4
      <4>6. F[T] = f[z] + F[U]
        BY <3>1 DEF U
      <4>7. F[T] = f[y] + F[V]
        <5>1. f[y] \in Nat /\ f[z] \in Nat /\ F[U \ {y}] = F[V \ {z}]
          BY <4>2
        <5> QED BY <4>2, <4>3, <4>5, <4>6, <5>1
      <4> QED BY <4>7 DEF V
    <3> QED BY <3>2, <3>3
  <2>2. n + 1 \in 0..c
    BY <1>1
  <2> QED BY <2>1, <2>2, Zenon
<1>5. \A n \in 0..c : n \in N
  <2> HIDE DEF N
  <2> QED BY <1>1, <1>3, <1>4, InductTo
<1>6. S \in SUBSET S /\ c \in 0..c
  BY <1>1
<1> QED BY <1>5, <1>6

-----------------------------------------------------------------------------
\* The sum over no element.
LEMMA SumEmpty == ASSUME NEW f PROVE SumFunctionOnSet(f, {}) = 0
<1>1. IsFiniteSet({})
  BY FS_EmptySet
<1>2. PICK F : IsSum(F, f, {}) /\ SumFunctionOnSet(f, {}) = F[{}]
  BY <1>1, SumIs
<1> QED BY <1>2, SumStep

\* Equal functions have equal sums.
LEMMA SumSame ==
    ASSUME NEW S, IsFiniteSet(S), NEW f, NEW g, \A x \in S : f[x] = g[x] /\ f[x] \in Nat
    PROVE  SumFunctionOnSet(f, S) = SumFunctionOnSet(g, S) /\ SumFunctionOnSet(f, S) \in Nat
<1>1. PICK F : IsSum(F, f, S) /\ SumFunctionOnSet(f, S) = F[S]
  BY SumIs
<1>2. PICK G : IsSum(G, g, S) /\ SumFunctionOnSet(g, S) = G[S]
  BY SumIs
<1> QED BY <1>1, <1>2, SumUnique

\* One element more.
LEMMA SumMore ==
    ASSUME NEW S, IsFiniteSet(S), NEW f, NEW x, x \notin S, \A y \in S \union {x} : f[y] \in Nat
    PROVE  SumFunctionOnSet(f, S \union {x}) = SumFunctionOnSet(f, S) + f[x]
<1> DEFINE T == S \union {x}
<1>1. IsFiniteSet(T)
  BY FS_AddElement
<1>2. PICK F : IsSum(F, f, T) /\ SumFunctionOnSet(f, T) = F[T]
  BY <1>1, SumIs
<1>3. PICK G : IsSum(G, f, S) /\ SumFunctionOnSet(f, S) = G[S]
  BY SumIs
<1>4. x \in T /\ T \ {x} = S /\ S \subseteq T /\ \A y \in T : f[y] \in Nat
  OBVIOUS
<1> HIDE DEF T
<1>5. F[T] = f[x] + F[S]
  BY <1>1, <1>2, <1>4, SumTake
<1>6. F[S] = G[S] /\ F[S] \in Nat
  <2>1. \A y \in S : f[y] \in Nat
    BY <1>4
  <2> QED BY <1>2, <1>3, <1>4, <2>1, SumUnique
<1>7. f[x] \in Nat
  BY <1>4
<1>8. SumFunctionOnSet(f, T) = SumFunctionOnSet(f, S) + f[x]
  BY <1>2, <1>3, <1>5, <1>6, <1>7
<1> QED BY <1>8 DEF T

\* A set in two parts.
LEMMA SumParts ==
    ASSUME NEW S, IsFiniteSet(S), NEW f, \A y \in S : f[y] \in Nat, NEW V \in SUBSET S
    PROVE  SumFunctionOnSet(f, S) = SumFunctionOnSet(f, V) + SumFunctionOnSet(f, S \ V)
<1> DEFINE Sum(T) == SumFunctionOnSet(f, T)
           c == Cardinality(S)
           N == {n \in 0..c : \A T \in SUBSET S : Cardinality(T) = n => Sum(S) = Sum(T) + Sum(S \ T)}
<1>1. c \in Nat /\ \A T \in SUBSET S : IsFiniteSet(T) /\ Cardinality(T) \in 0..c
  BY FS_CardinalityType, FS_Subset
<1>2. \A T \in SUBSET S : Sum(T) \in Nat
  <2>1. ASSUME NEW T \in SUBSET S PROVE Sum(T) \in Nat
    <3>1. IsFiniteSet(T) /\ \A y \in T : f[y] = f[y] /\ f[y] \in Nat
      BY <1>1
    <3> QED BY <3>1, SumSame
  <2> QED BY <2>1
<1>3. 0 \in N
  <2>1. \A T \in SUBSET S : Cardinality(T) = 0 => T = {}
    BY <1>1, FS_EmptySet
  <2>2. Sum({}) = 0 /\ S \ {} = S /\ Sum(S) \in Nat
    BY <1>2, SumEmpty
  <2> HIDE DEF Sum
  <2> QED BY <1>1, <2>1, <2>2
<1>4. ASSUME NEW n \in 0..(c - 1), n \in N PROVE n + 1 \in N
  <2>1. ASSUME NEW T \in SUBSET S, Cardinality(T) = n + 1
        PROVE  Sum(S) = Sum(T) + Sum(S \ T)
    <3>1. PICK x \in T : TRUE
      BY <1>1, <2>1, FS_EmptySet
    <3> DEFINE U == T \ {x}
               W == S \ T
    <3>2. U \in SUBSET S /\ W \in SUBSET S /\ x \notin U /\ x \notin W
          /\ U \union {x} = T /\ W \union {x} = S \ U
      OBVIOUS
    <3>3. Cardinality(U) = n
      BY <1>1, <2>1, FS_RemoveElement
    <3> HIDE DEF U, W
    <3>4. Sum(T) = Sum(U) + f[x]
      <4>1. IsFiniteSet(U) /\ \A y \in U \union {x} : f[y] \in Nat
        BY <1>1, <3>2
      <4>2. Sum(U \union {x}) = Sum(U) + f[x]
        BY <3>2, <4>1, SumMore
      <4> QED BY <3>2, <4>2
    <3>5. Sum(S \ U) = Sum(W) + f[x]
      <4>1. IsFiniteSet(W) /\ \A y \in W \union {x} : f[y] \in Nat
        BY <1>1, <3>2
      <4>2. Sum(W \union {x}) = Sum(W) + f[x]
        BY <3>2, <4>1, SumMore
      <4> QED BY <3>2, <4>2
    <3>6. Sum(S) = Sum(U) + Sum(S \ U)
      BY <1>4, <3>2, <3>3
    <3>7. Sum(U) \in Nat /\ Sum(W) \in Nat /\ f[x] \in Nat
      BY <1>2, <3>2
    <3> HIDE DEF Sum
    <3>8. Sum(S) = Sum(T) + Sum(W)
      BY <3>4, <3>5, <3>6, <3>7
    <3> QED BY <3>8 DEF W
  <2> HIDE DEF Sum
  <2> QED BY <1>1, <2>1
<1>5. \A n \in 0..c : n \in N
  <2> HIDE DEF N
  <2> QED BY <1>1, <1>3, <1>4, InductTo
<1> HIDE DEF Sum
<1>6. Sum(S) = Sum(V) + Sum(S \ V)
  BY <1>1, <1>5
<1> QED BY <1>6 DEF Sum

\* One element is not above the sum.
LEMMA SumAtLeast ==
    ASSUME NEW S, IsFiniteSet(S), NEW f, \A y \in S : f[y] \in Nat, NEW x \in S
    PROVE  f[x] <= SumFunctionOnSet(f, S)
<1> DEFINE T == S \ {x}
<1>1. IsFiniteSet(T) /\ T \union {x} = S /\ x \notin T
  BY FS_RemoveElement
<1>2. \A y \in T \union {x} : f[y] \in Nat
  OBVIOUS
<1> HIDE DEF T
<1>3. SumFunctionOnSet(f, T \union {x}) = SumFunctionOnSet(f, T) + f[x]
  BY <1>1, <1>2, SumMore
<1>4. SumFunctionOnSet(f, T) \in Nat
  BY <1>1, <1>2, SumSame
<1>5. f[x] \in Nat
  BY <1>2
<1> QED BY <1>1, <1>3, <1>4, <1>5

\* A sum of nothing but zeros.
LEMMA SumZero ==
    ASSUME NEW S, IsFiniteSet(S), NEW f, \A y \in S : f[y] = 0
    PROVE  SumFunctionOnSet(f, S) = 0
<1> DEFINE c == Cardinality(S)
           N == {n \in 0..c : \A T \in SUBSET S : Cardinality(T) = n => SumFunctionOnSet(f, T) = 0}
<1>1. c \in Nat /\ \A T \in SUBSET S : IsFiniteSet(T) /\ Cardinality(T) \in 0..c
  BY FS_CardinalityType, FS_Subset
<1>2. 0 \in N
  <2>1. \A T \in SUBSET S : Cardinality(T) = 0 => T = {}
    BY <1>1, FS_EmptySet
  <2> QED BY <1>1, <2>1, SumEmpty
<1>3. ASSUME NEW n \in 0..(c - 1), n \in N PROVE n + 1 \in N
  <2>1. ASSUME NEW T \in SUBSET S, Cardinality(T) = n + 1
        PROVE  SumFunctionOnSet(f, T) = 0
    <3>1. PICK x \in T : TRUE
      BY <1>1, <2>1, FS_EmptySet
    <3> DEFINE U == T \ {x}
    <3>2. U \in SUBSET S /\ x \notin U /\ U \union {x} = T /\ f[x] = 0
      OBVIOUS
    <3>3. Cardinality(U) = n
      <4>1. IsFiniteSet(T) /\ Cardinality(U) = Cardinality(T) - 1
        BY <1>1, FS_RemoveElement
      <4> QED BY <2>1, <4>1
    <3> HIDE DEF U
    <3>4. IsFiniteSet(U) /\ \A y \in U \union {x} : f[y] \in Nat
      BY <1>1, <3>2
    <3>5. SumFunctionOnSet(f, U \union {x}) = SumFunctionOnSet(f, U) + f[x]
      BY <3>2, <3>4, SumMore
    <3>6. SumFunctionOnSet(f, U) = 0
      BY <1>3, <3>2, <3>3
    <3>7. SumFunctionOnSet(f, U \union {x}) = 0
      BY <3>2, <3>5, <3>6
    <3> QED BY <3>2, <3>7
  <2> QED BY <1>1, <2>1
<1>4. \A n \in 0..c : n \in N
  <2> HIDE DEF N, c
  <2> QED BY <1>1, <1>2, <1>3, InductTo
<1>5. S \in SUBSET S /\ c \in 0..c
  BY <1>1
<1> QED BY <1>4, <1>5

-----------------------------------------------------------------------------
(* One sequence behind the other.                                          *)

\* What is where in two sequences of which one follows the other.
LEMMA ConcatIs ==
    ASSUME NEW S, NEW u \in Seq(S), NEW v \in Seq(S)
    PROVE  /\ u \o v \in Seq(S) /\ Len(u \o v) = Len(u) + Len(v)
           /\ \A i \in 1..Len(u) : (u \o v)[i] = u[i]
           /\ \A i \in 1..Len(v) : (u \o v)[Len(u) + i] = v[i]
OBVIOUS

\* The first n of the sequences of f, one behind the other.
FlattenTo(f, n) == FlattenSeq([k \in 1..n |-> f[k]])

\* Two beginnings of the same sequences are flattened alike.
LEMMA FlattenMore ==
    ASSUME NEW X, NEW N \in Nat, NEW f \in [1..N -> Seq(X)]
    PROVE  /\ FlattenTo(f, 0) = <<>>
           /\ \A n \in 0..N : FlattenTo(f, n) \in Seq(X)
           /\ \A n \in 0..(N - 1) : FlattenTo(f, n + 1) = FlattenTo(f, n) \o f[n + 1]
<1> DEFINE Steps(t, n) == /\ t \in [0..n -> Seq(X)] /\ t[0] = <<>>
                          /\ \A k \in 0..(n - 1) : t[k + 1] = t[k] \o f[k + 1]
                          /\ t[n] = FlattenTo(f, n)
<1>1. ASSUME NEW n \in 0..N PROVE \E t : Steps(t, n)
  <2> DEFINE s == [k \in 1..n |-> f[k]]
  <2>1. s \in [1..n -> Seq(X)] /\ n \in Nat
    OBVIOUS
  <2>2. s \in Seq(Seq(X)) /\ Len(s) = n
    <3> DEFINE Y == Seq(X)
    <3> HIDE DEF s, Y
    <3>1. s \in [1..n -> Y] /\ n \in Nat
      BY <2>1 DEF Y
    <3>2. s \in Seq(Y) /\ Len(s) = n
      BY <3>1
    <3> QED BY <3>2 DEF Y
  <2>3. \A k \in 0..(n - 1) : s[k + 1] = f[k + 1]
    OBVIOUS
  <2>4. FlattenSeq(s) = FlattenTo(f, n)
    BY DEF FlattenTo
  <2> HIDE DEF s
  <2>5. PICK t : /\ t \in [0..Len(s) -> Seq(X)] /\ t[0] = <<>>
                 /\ \A k \in 0..(Len(s) - 1) : t[k + 1] = t[k] \o s[k + 1]
                 /\ t[Len(s)] = FlattenSeq(s)
    BY <2>2, FlattenFold
  <2>6. Steps(t, n)
    BY <2>2, <2>3, <2>4, <2>5
  <2> QED BY <2>6
<1> HIDE DEF Steps
<1>2. ASSUME NEW n \in 0..(N - 1) PROVE FlattenTo(f, n + 1) = FlattenTo(f, n) \o f[n + 1]
  <2>1. n \in 0..N /\ n + 1 \in 0..N /\ n \in Nat
    OBVIOUS
  <2>2. PICK t : Steps(t, n)
    BY <1>1, <2>1
  <2>3. PICK u : Steps(u, n + 1)
    BY <1>1, <2>1
  <2> DEFINE K == {k \in 0..n : t[k] = u[k]}
  <2>4. 0 \in K
    BY <2>1, <2>2, <2>3 DEF Steps
  <2>5. ASSUME NEW k \in 0..(n - 1), k \in K PROVE k + 1 \in K
    <3>1. k + 1 \in 0..n /\ k \in 0..((n + 1) - 1)
      BY <2>1
    <3>2. t[k + 1] = t[k] \o f[k + 1] /\ u[k + 1] = u[k] \o f[k + 1]
      BY <2>2, <2>3, <3>1 DEF Steps
    <3> QED BY <2>5, <3>1, <3>2
  <2> HIDE DEF K
  <2>6. \A k \in 0..n : k \in K
    BY <2>1, <2>4, <2>5, InductTo
  <2>7. t[n] = u[n]
    <3>1. n \in 0..n
      BY <2>1
    <3> QED BY <2>6, <3>1 DEF K
  <2>8. u[n + 1] = u[n] \o f[n + 1]
    <3>1. n \in 0..((n + 1) - 1)
      BY <2>1
    <3> QED BY <2>3, <3>1 DEF Steps
  <2> QED BY <2>2, <2>3, <2>7, <2>8 DEF Steps
<1>3. ASSUME NEW n \in 0..N PROVE FlattenTo(f, n) \in Seq(X)
  <2>1. PICK t : Steps(t, n)
    BY <1>1
  <2>2. n \in 0..n
    OBVIOUS
  <2> QED BY <2>1, <2>2 DEF Steps
<1>4. FlattenTo(f, 0) = <<>>
  <2>1. 0 \in 0..N
    OBVIOUS
  <2>2. PICK t : Steps(t, 0)
    BY <1>1, <2>1
  <2> QED BY <2>2 DEF Steps
<1> QED BY <1>2, <1>3, <1>4

\* A beginning is part of every longer one.
LEMMA FlattenParts ==
    ASSUME NEW X, NEW N \in Nat, NEW f \in [1..N -> Seq(X)], NEW n \in 0..N, NEW m \in n..N
    PROVE  /\ Len(FlattenTo(f, n)) <= Len(FlattenTo(f, m))
           /\ \A i \in 1..Len(FlattenTo(f, n)) : FlattenTo(f, m)[i] = FlattenTo(f, n)[i]
<1> DEFINE p == FlattenTo(f, n)
           In(k) == /\ Len(p) <= Len(FlattenTo(f, n + k))
                    /\ \A i \in 1..Len(p) : FlattenTo(f, n + k)[i] = p[i]
           K == {k \in 0..(m - n) : In(k)}
<1>1. p \in Seq(X) /\ \A k \in 0..(N - n) : FlattenTo(f, n + k) \in Seq(X)
  <2>1. \A k \in 0..(N - n) : n + k \in 0..N
    OBVIOUS
  <2> QED BY <2>1, FlattenMore
<1> HIDE DEF p
<1>2. 0 \in K
  <2>1. n + 0 = n
    OBVIOUS
  <2> QED BY <1>1, <2>1 DEF p
<1>3. ASSUME NEW k \in 0..((m - n) - 1), k \in K PROVE k + 1 \in K
  <2> DEFINE u == FlattenTo(f, n + k)
             v == f[n + k + 1]
             w == FlattenTo(f, n + (k + 1))
  <2>1. n + k \in 0..(N - 1) /\ n + (k + 1) = (n + k) + 1 /\ n + k + 1 \in 1..N /\ k \in 0..(N - n)
        /\ k + 1 \in 0..(m - n)
    OBVIOUS
  <2>2. w = u \o v
    BY <2>1, FlattenMore
  <2>3. u \in Seq(X) /\ v \in Seq(X)
    BY <1>1, <2>1
  <2>4. Len(p) <= Len(u) /\ \A i \in 1..Len(p) : u[i] = p[i]
    BY <1>3
  <2> HIDE DEF u, v, w
  <2>5. Len(p) <= Len(w)
    BY <1>1, <2>2, <2>3, <2>4
  <2>6. ASSUME NEW i \in 1..Len(p) PROVE w[i] = p[i]
    <3>1. i \in 1..Len(u)
      BY <1>1, <2>3, <2>4
    <3> QED BY <2>2, <2>3, <2>4, <3>1, ConcatIs
  <2> QED BY <2>1, <2>5, <2>6 DEF w
<1> HIDE DEF K
<1>4. \A k \in 0..(m - n) : k \in K
  <2>1. m - n \in Nat
    OBVIOUS
  <2> QED BY <1>2, <1>3, <2>1, InductTo
<1>5. m - n \in K
  BY <1>4
<1>6. n + (m - n) = m
  OBVIOUS
<1> QED BY <1>5, <1>6 DEF K, p
=============================================================================
