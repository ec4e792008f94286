---------------------------- MODULE RoutingProofs ----------------------------
(***************************************************************************)
(* Proofs about the way from a key to its server: about Routing, for any   *)
(* groups, policies, keys and tables, any number of workers and any round  *)
(* robin counters; and about KeyHash, for keys of any length at any        *)
(* address.                                                                *)
(***************************************************************************)
EXTENDS Routing, KeyHash, DataLemmas

-----------------------------------------------------------------------------
(* The binary search.                                                      *)

Points == [value : Nat, group : Groups]

Stages == {"idle", "search", "counted", "begin", "look", "bump", "chosen", "refused"}

Sorted(s) == \A a, b \in DOMAIN s : a <= b => s[a].value <= s[b].value

\* The points before left are before h, those from right on are not.
Bracketed(s, left, right, h) ==
    /\ left \in Nat /\ right \in Nat /\ left <= right /\ right <= Len(s)
    /\ \A k \in 1..left : s[k].value < h
    /\ \A k \in (right + 1)..Len(s) : s[k].value >= h

\* The table is one of the configuration's, and a search has still to look at
\* the points between left and right.
SearchInv ==
    /\ m_slots \in Seq(Points) /\ m_slots # <<>>
    /\ m_twemproxyMode => Sorted(m_slots)
    /\ pc \in [Workers -> Stages] /\ DOMAIN job = Workers
    /\ \A w \in Workers : pc[w] = "search" =>
         /\ m_twemproxyMode
         /\ job[w] = [Idle EXCEPT !.key = job[w].key, !.write = job[w].write,
                                  !.left = job[w].left, !.right = job[w].right]
         /\ Hash(job[w].key) \in Nat
         /\ Bracketed(m_slots, job[w].left, job[w].right, Hash(job[w].key))

\* The points of a table.
LEMMA PointTypes ==
    ASSUME NEW s \in Seq(Points)
    PROVE  /\ DOMAIN s = 1..Len(s) /\ Len(s) \in Nat
           /\ \A k \in DOMAIN s : s[k].value \in Nat /\ s[k].group \in Groups
<1>1. DOMAIN s = 1..Len(s) /\ Len(s) \in Nat
  OBVIOUS
<1>2. \A k \in DOMAIN s : s[k] \in Points
  OBVIOUS
<1>3. \A p \in Points : p.value \in Nat /\ p.group \in Groups
  BY DEF Points
<1> QED BY <1>1, <1>2, <1>3

\* A round leaves the bracket narrower but a bracket.
LEMMA Narrowed ==
    ASSUME NEW s \in Seq(Points), Sorted(s), NEW h \in Nat,
           NEW left, NEW right, Bracketed(s, left, right, h), left < right
    PROVE  LET middle == left + (right - left) \div 2 IN
           /\ middle + 1 \in DOMAIN s
           /\ s[middle + 1].value < h => Bracketed(s, middle + 1, right, h)
           /\ ~(s[middle + 1].value < h) => Bracketed(s, left, middle, h)
<1> DEFINE middle == left + (right - left) \div 2
<1>1. /\ middle \in Nat /\ left <= middle /\ middle < right
      /\ left \in Nat /\ right \in Nat /\ right <= Len(s)
  BY DEF Bracketed
<1> HIDE DEF middle
<1>2. /\ DOMAIN s = 1..Len(s) /\ Len(s) \in Nat
      /\ \A k \in DOMAIN s : s[k].value \in Nat
  BY PointTypes
<1>3. middle + 1 \in DOMAIN s
  BY <1>1, <1>2
<1>4. ASSUME s[middle + 1].value < h PROVE Bracketed(s, middle + 1, right, h)
  <2>1. ASSUME NEW k \in 1..(middle + 1) PROVE s[k].value < h
    <3>1. k \in DOMAIN s /\ k <= middle + 1
      BY <1>1, <1>2
    <3>2. s[k].value <= s[middle + 1].value
      BY <3>1, <1>3 DEF Sorted
    <3> QED BY <3>1, <3>2, <1>2, <1>3, <1>4
  <2> QED BY <2>1, <1>1 DEF Bracketed
<1>5. ASSUME ~(s[middle + 1].value < h) PROVE Bracketed(s, left, middle, h)
  <2>1. ASSUME NEW k \in (middle + 1)..Len(s) PROVE s[k].value >= h
    <3>1. k \in DOMAIN s /\ middle + 1 <= k
      BY <1>1, <1>2
    <3>2. s[middle + 1].value <= s[k].value
      BY <3>1, <1>3 DEF Sorted
    <3> QED BY <3>1, <3>2, <1>2, <1>3, <1>5
  <2> QED BY <2>1, <1>1, <1>2 DEF Bracketed
<1> QED BY <1>3, <1>4, <1>5 DEF middle

\* An empty bracket is the place of the successor.
LEMMA SearchEnds ==
    ASSUME NEW left, NEW right, NEW h \in Nat, m_slots \in Seq(Points),
           Bracketed(m_slots, left, right, h), ~(left < right)
    PROVE  m_slots[IF right = Len(m_slots) THEN 1 ELSE right + 1].group = Successor(h)
<1> DEFINE after == {k \in DOMAIN m_slots : m_slots[k].value >= h}
<1>1. /\ DOMAIN m_slots = 1..Len(m_slots) /\ Len(m_slots) \in Nat
      /\ \A k \in DOMAIN m_slots : m_slots[k].value \in Nat
  BY PointTypes
<1>2. left = right /\ right \in Nat /\ right <= Len(m_slots)
  BY <1>1 DEF Bracketed
<1>3. after = (right + 1)..Len(m_slots)
  BY <1>1, <1>2 DEF Bracketed
<1>4. CASE right = Len(m_slots)
  <2>1. after = {}
    BY <1>1, <1>3, <1>4
  <2> QED BY <2>1, <1>4 DEF Successor
<1>5. CASE right # Len(m_slots)
  <2>1. right + 1 \in after /\ \A k \in after : right + 1 <= k
    <3> HIDE DEF after
    <3>1. right \in Nat /\ Len(m_slots) \in Nat /\ right + 1 <= Len(m_slots)
      <4>1. Len(m_slots) \in Nat
        OBVIOUS
      <4> QED BY <4>1, <1>2, <1>5
    <3>2. \A k \in (right + 1)..Len(m_slots) : right + 1 <= k
      BY <3>1
    <3>3. right + 1 \in (right + 1)..Len(m_slots)
      BY <3>1
    <3> QED BY <1>3, <3>2, <3>3
  <2>2. Min(after) = right + 1
    <3>1. \A x \in after : (\A y \in after : x <= y) => x = right + 1
      BY <2>1, <1>1, <1>2
    <3> QED BY <2>1, <3>1 DEF Min
  <2> QED BY <2>1, <2>2, <1>5 DEF Successor
<1> QED BY <1>4, <1>5
-----------------------------------------------------------------------------
(* The invariant.                                                          *)

\* No worker searches at first.
LEMMA SearchInitially == Init => SearchInv
<1> SUFFICES ASSUME Init PROVE SearchInv
  OBVIOUS
<1>1. PICK t \in Tables : m_twemproxyMode = t.twemproxy /\ m_slots = t.slots
  BY DEF Init
<1>2. m_slots \in Seq(Points) /\ m_slots # <<>> /\ (m_twemproxyMode => Sorted(m_slots))
  BY <1>1, TablesAssumption DEF Points, Sorted
<1>3. pc \in [Workers -> Stages] /\ DOMAIN job = Workers /\ \A w \in Workers : pc[w] # "search"
  BY DEF Init, Stages
<1> QED BY <1>2, <1>3 DEF SearchInv

\* What a worker that is not the one that moves is searching stays as it was.
Searching(w) == pc[w] = "search" =>
    /\ m_twemproxyMode
    /\ job[w] = [Idle EXCEPT !.key = job[w].key, !.write = job[w].write,
                             !.left = job[w].left, !.right = job[w].right]
    /\ Hash(job[w].key) \in Nat
    /\ Bracketed(m_slots, job[w].left, job[w].right, Hash(job[w].key))

\* A worker that goes on, to anything but a search or to a search that is in order.
LEMMA Continued ==
    ASSUME SearchInv, NEW w \in Workers, NEW to \in Stages, NEW j, Continue(w, to, j),
           UNCHANGED <<m_twemproxyMode, m_slots>>,
           to = "search" => Searching(w)'
    PROVE  SearchInv'
<1>1. pc' \in [Workers -> Stages] /\ DOMAIN job' = Workers
  BY DEF SearchInv, Continue
<1>2. ASSUME NEW v \in Workers PROVE Searching(v)'
  <2>1. CASE v = w
    BY <2>1 DEF SearchInv, Continue, Searching
  <2>2. CASE v # w
    <3>1. pc'[v] = pc[v] /\ job'[v] = job[v]
      BY <2>2 DEF SearchInv, Continue
    <3>2. Searching(v)
      BY DEF SearchInv, Searching
    <3> QED BY <3>1, <3>2 DEF Searching, Bracketed, Hash
  <2> QED BY <2>1, <2>2
<1>3. m_slots' \in Seq(Points) /\ m_slots' # <<>> /\ (m_twemproxyMode' => Sorted(m_slots)')
  BY DEF SearchInv, Sorted
<1> QED BY <1>1, <1>2, <1>3 DEF SearchInv, Searching

\* A worker that goes anywhere but into the search.
LEMMA Elsewhere ==
    ASSUME SearchInv, NEW w \in Workers, NEW to \in Stages \ {"search"}, NEW j, Continue(w, to, j),
           UNCHANGED <<m_twemproxyMode, m_slots>>
    PROVE  SearchInv'
BY Continued

\* A worker whose request has its group.
LEMMA RoutedStep ==
    ASSUME SearchInv, NEW w \in Workers, NEW j, NEW g, Routed(w, j, g),
           UNCHANGED <<m_twemproxyMode, m_slots>>
    PROVE  SearchInv'
BY Elsewhere DEF Routed, Stages

\* A hash is a number.
LEMMA HashTypes == \A k \in Keys : Hash(k) \in Nat
BY HashAssumption DEF Hash

\* A request begins a search with the whole table between left and right.
LEMMA RequestStep ==
    ASSUME SearchInv, NEW w \in Workers, NEW k \in Keys, NEW write \in BOOLEAN, Request(w, k, write)
    PROVE  SearchInv'
<1> DEFINE j == [Idle EXCEPT !.key = k, !.write = write]
           to == [j EXCEPT !.right = Len(m_slots)]
<1>0. UNCHANGED <<m_twemproxyMode, m_slots>>
  BY DEF Request
<1>1. CASE k \in DOMAIN KeyMapping
  BY <1>0, <1>1, RoutedStep DEF Request
<1>2. CASE k \notin DOMAIN KeyMapping /\ ~m_twemproxyMode
  BY <1>0, <1>2, RoutedStep DEF Request
<1>3. CASE k \notin DOMAIN KeyMapping /\ m_twemproxyMode
  <2>1. Continue(w, "search", to)
    BY <1>3 DEF Request
  <2>2. /\ to.key = k /\ to.write = write /\ to.left = 0 /\ to.right = Len(m_slots)
        /\ to = [Idle EXCEPT !.key = k, !.write = write, !.left = 0, !.right = Len(m_slots)]
    <3>1. [Idle EXCEPT !.left = 0] = Idle
      BY DEF Idle
    <3>2. to = [[Idle EXCEPT !.left = 0] EXCEPT !.key = k, !.write = write, !.right = Len(m_slots)]
      BY <3>1 DEF Idle
    <3>3. to = [Idle EXCEPT !.key = k, !.write = write, !.left = 0, !.right = Len(m_slots)]
      BY <3>2 DEF Idle
    <3>4. to.key = k /\ to.write = write /\ to.left = 0 /\ to.right = Len(m_slots)
      BY <3>3 DEF Idle
    <3> QED BY <3>3, <3>4
  <2>3. job'[w] = to
    BY <2>1 DEF Continue, SearchInv
  <2>4. Bracketed(m_slots, 0, Len(m_slots), Hash(k))
    <3>1. m_slots \in Seq(Points)
      BY DEF SearchInv
    <3>2. Len(m_slots) \in Nat
      BY <3>1
    <3> QED BY <3>2 DEF Bracketed
  <2>5. Searching(w)'
    BY <1>0, <1>3, <2>2, <2>3, <2>4, HashTypes DEF Searching, Bracketed, Hash
  <2> QED BY <1>0, <2>1, <2>5, Continued DEF Stages
<1> QED BY <1>1, <1>2, <1>3

\* A search goes on in a bracket, or ends at the successor of the hash.
LEMMA SearchStep ==
    ASSUME SearchInv, NEW w \in Workers, Search(w)
    PROVE  /\ SearchInv'
           /\ pc'[w] # "search" => job'[w].group = Successor(Hash(job[w].key))
<1> DEFINE j == job[w]
           middle == j.left + (j.right - j.left) \div 2
<1>0. UNCHANGED <<m_twemproxyMode, m_slots>>
  BY DEF Search
<1>1. /\ Searching(w) /\ pc[w] = "search"
      /\ m_slots \in Seq(Points) /\ Sorted(m_slots)
      /\ Hash(j.key) \in Nat /\ Bracketed(m_slots, j.left, j.right, Hash(j.key))
  BY DEF SearchInv, Search, Searching
<1>2. CASE j.left < j.right
  <2> DEFINE to == IF m_slots[middle + 1].value < Hash(j.key)
                   THEN [j EXCEPT !.left = middle + 1] ELSE [j EXCEPT !.right = middle]
  <2>1. Continue(w, "search", to)
    BY <1>2 DEF Search
  <2>2. job'[w] = to /\ pc'[w] = "search"
    BY <2>1 DEF Continue, SearchInv
  <2>3. /\ m_slots[middle + 1].value < Hash(j.key)
             => Bracketed(m_slots, middle + 1, j.right, Hash(j.key))
        /\ ~(m_slots[middle + 1].value < Hash(j.key))
             => Bracketed(m_slots, j.left, middle, Hash(j.key))
    BY <1>1, <1>2, Narrowed
  <2>4. j = [Idle EXCEPT !.key = j.key, !.write = j.write, !.left = j.left, !.right = j.right]
    BY <1>1 DEF Searching
  <2>5. Searching(w)'
    <3> HIDE DEF middle
    <3>1. CASE m_slots[middle + 1].value < Hash(j.key)
      <4>1. /\ to.key = j.key /\ to.write = j.write /\ to.left = middle + 1 /\ to.right = j.right
            /\ to = [Idle EXCEPT !.key = j.key, !.write = j.write, !.left = middle + 1, !.right = j.right]
        BY <3>1, <2>4 DEF Idle
      <4> HIDE DEF to, j
      <4>2. job'[w].key = j.key /\ job'[w].write = j.write
              /\ job'[w].left = middle + 1 /\ job'[w].right = j.right
        BY <2>2, <4>1
      <4>3. Bracketed(m_slots, middle + 1, j.right, Hash(j.key))
        BY <2>3, <3>1
      <4> QED BY <1>0, <1>1, <2>2, <4>1, <4>2, <4>3 DEF Searching, Bracketed, Hash, j
    <3>2. CASE ~(m_slots[middle + 1].value < Hash(j.key))
      <4>1. /\ to.key = j.key /\ to.write = j.write /\ to.left = j.left /\ to.right = middle
            /\ to = [Idle EXCEPT !.key = j.key, !.write = j.write, !.left = j.left, !.right = middle]
        BY <3>2, <2>4 DEF Idle
      <4> HIDE DEF to, j
      <4>2. job'[w].key = j.key /\ job'[w].write = j.write
              /\ job'[w].left = j.left /\ job'[w].right = middle
        BY <2>2, <4>1
      <4>3. Bracketed(m_slots, j.left, middle, Hash(j.key))
        BY <2>3, <3>2
      <4> QED BY <1>0, <1>1, <2>2, <4>1, <4>2, <4>3 DEF Searching, Bracketed, Hash, j
    <3> QED BY <3>1, <3>2
  <2> QED BY <1>0, <2>1, <2>2, <2>5, Continued DEF Stages
<1>3. CASE ~(j.left < j.right)
  <2> DEFINE g == m_slots[IF j.right = Len(m_slots) THEN 1 ELSE j.right + 1].group
  <2>1. Routed(w, j, g)
    BY <1>3 DEF Search
  <2>2. SearchInv'
    BY <1>0, <2>1, RoutedStep
  <2>3. g = Successor(Hash(j.key))
    BY <1>1, <1>3, SearchEnds
  <2>4. job'[w].group = g
    <3> HIDE DEF g
    <3>1. j = [Idle EXCEPT !.key = j.key, !.write = j.write, !.left = j.left, !.right = j.right]
      BY <1>1 DEF Searching
    <3> DEFINE at == [j EXCEPT !.key = "none", !.group = g, !.left = 0, !.right = 0]
    <3>2. at.group = g /\ "callNum" \in DOMAIN at /\ "lists" \in DOMAIN at /\ "group" \in DOMAIN at
      BY <3>1 DEF Idle
    <3>3. CASE Policy[g] = "read_balance" /\ ~j.write
      <4>1. job'[w] = [at EXCEPT !.callNum = m_readCnt[g]]
        BY <2>1, <3>3 DEF Routed, Continue, SearchInv
      <4> HIDE DEF at
      <4> QED BY <3>2, <4>1
    <3>4. CASE ~(Policy[g] = "read_balance" /\ ~j.write)
      <4>1. job'[w] = [at EXCEPT !.callNum = m_callNum[g]["master"], !.lists = <<"master", "slave">>]
        BY <2>1, <3>4 DEF Routed, Continue, SearchInv
      <4> HIDE DEF at
      <4> QED BY <3>2, <4>1
    <3> QED BY <3>3, <3>4
  <2> QED BY <2>2, <2>3, <2>4
<1> QED BY <1>2, <1>3

\* The other steps of a worker leave no search and begin none.
LEMMA OtherStep ==
    ASSUME SearchInv, NEW w \in Workers,
           \/ ReadCounted(w) \/ Begin(w) \/ Look(w) \/ Bump(w) \/ Exhausted(w) \/ Handled(w)
    PROVE  SearchInv' /\ pc[w] # "search"
<1>1. CASE ReadCounted(w)
  BY <1>1, Elsewhere DEF ReadCounted, Stages
<1>2. CASE Begin(w)
  BY <1>2, Elsewhere DEF Begin, Stages
<1>3. CASE Look(w)
  BY <1>3, Elsewhere DEF Look, Stages
<1>4. CASE Bump(w)
  BY <1>4, Elsewhere DEF Bump, Stages
<1>5. CASE Exhausted(w)
  BY <1>5, Elsewhere DEF Exhausted, Stages
<1>6. CASE Handled(w)
  BY <1>6, Elsewhere DEF Handled, Stages
<1> QED BY <1>1, <1>2, <1>3, <1>4, <1>5, <1>6

\* Every step narrows a bracket, or leaves it, or begins one.
LEMMA SearchInductive == SearchInv /\ [Next]_vars => SearchInv'
<1> SUFFICES ASSUME SearchInv, [Next]_vars PROVE SearchInv'
  OBVIOUS
<1>1. ASSUME NEW w \in Workers, NEW k \in Keys, NEW write \in BOOLEAN, Request(w, k, write)
      PROVE  SearchInv'
  BY <1>1, RequestStep
<1>2. ASSUME NEW w \in Workers, Step(w) PROVE SearchInv'
  BY <1>2, SearchStep, OtherStep DEF Step
<1>3. CASE UNCHANGED <<m_twemproxyMode, m_slots, pc, job>>
  BY <1>3 DEF SearchInv, Sorted, Bracketed, Hash
<1>4. ASSUME NEW s \in Servants, Flip(s) PROVE SearchInv'
  BY <1>3, <1>4 DEF Flip
<1>5. CASE UNCHANGED vars
  BY <1>3, <1>5 DEF vars
<1> QED BY <1>1, <1>2, <1>4, <1>5 DEF Next

\* Only the search itself ends a search.
LEMMA SearchEndsRight ==
    ASSUME SearchInv, [Next]_vars, NEW w \in Workers, pc[w] = "search", pc'[w] # "search"
    PROVE  job'[w].group = Successor(Hash(job[w].key))
<1>1. ASSUME NEW v \in Workers, v # w, NEW to, NEW j, Continue(v, to, j) PROVE FALSE
  BY <1>1 DEF Continue, SearchInv
<1>2. ASSUME NEW v \in Workers, NEW k \in Keys, NEW write \in BOOLEAN, Request(v, k, write)
      PROVE  FALSE
  <2>1. v # w
    BY <1>2 DEF Request
  <2> QED BY <1>1, <1>2, <2>1 DEF Request, Routed
<1>3. ASSUME NEW v \in Workers, Step(v) PROVE job'[w].group = Successor(Hash(job[w].key))
  <2>1. CASE v = w
    BY <1>3, <2>1, SearchStep, OtherStep DEF Step
  <2>2. CASE v # w
    BY <1>1, <1>3, <2>2
       DEF Step, Search, Routed, ReadCounted, Begin, Look, Bump, Exhausted, Handled
  <2> QED BY <2>1, <2>2
<1>4. ASSUME NEW s \in Servants, Flip(s) PROVE FALSE
  BY <1>4 DEF Flip
<1>5. ~UNCHANGED vars
  BY DEF vars
<1> QED BY <1>2, <1>3, <1>4, <1>5 DEF Next

\* mapToGroup in twemproxy mode (redisproxy.cpp:249-267) finds, for every continuum
\* and every hash, the first point that is not before the hash, or else the first
\* of all, whatever the other workers do meanwhile.
THEOREM SearchIsExact == Spec => SearchExact
<1> DEFINE Found == \A w \in Workers : pc[w] = "search" /\ pc'[w] # "search" =>
                      job'[w].group = Successor(Hash(job[w].key))
<1>1. SearchInv /\ [Next]_vars => [Found]_vars
  BY SearchEndsRight
<1>2. Spec => []SearchInv
  BY SearchInitially, SearchInductive, PTL DEF Spec
<1> QED BY <1>1, <1>2, PTL DEF Spec, SearchExact

-----------------------------------------------------------------------------
(* The round robin.                                                        *)

\* n consecutive counters fall on every place of a list of n servers.
LEMMA RoundRobinCovers ==
    ASSUME NEW n \in Nat \ {0}, NEW c \in Nat, NEW k \in 1..n
    PROVE  \E d \in 0..(n - 1) : (c - d) % n = k - 1
<1> DEFINE d == (c - (k - 1)) % n
           q == (c - (k - 1)) \div n
<1>1. c - (k - 1) \in Int
  OBVIOUS
<1>2. c - (k - 1) = n * q + d /\ d \in 0..(n - 1) /\ q \in Int
  BY <1>1, Quotient
<1> HIDE DEF d, q
<1>3. c - d = n * q + (k - 1) /\ k - 1 \in 0..(n - 1) /\ c - d \in Int
  BY <1>2
<1>4. (c - d) % n = k - 1
  BY <1>2, <1>3, RemainderUnique
<1> QED BY <1>2, <1>4

\* The lists a request has still to go through.
Kinds == {"master", "slave"}
ListsLeft == {<<>>, <<"master">>, <<"slave">>, <<"master", "slave">>, <<"slave", "master">>}
MasterFirst == {<<>>, <<"slave">>, <<"master", "slave">>}

Jobs ==
    [key : Keys \union {"none"}, write : BOOLEAN, group : Groups \union {"none"},
     left : Nat, right : Nat, lists : ListsLeft, callNum : Nat, i : Nat,
     servant : Servants \union {"none"}, seen : SUBSET Servants, wrapped : BOOLEAN]

\* The servers before the counter, one for each turn of the loop, were seen
\* inactive; all of them once the loop is over.
Progress(j, list) ==
    IF j.i = Len(list) THEN Members(list) \subseteq j.seen
    ELSE \A d \in 1..j.i : list[((j.callNum - d) % Len(list)) + 1] \in j.seen

\* A request that has its group has seen all servers of the lists it has left,
\* and the slaves are the last resort of a write.
Looked(j) ==
    /\ j.group \in Groups
    /\ j.seen \subseteq Members(Masters[j.group]) \union Members(Slaves[j.group])
    /\ ~j.wrapped => \A kind \in Kinds \ Members(j.lists) :
                        Members(List(j.group, kind)) \subseteq j.seen
    /\ j.write \/ Policy[j.group] # "read_balance" => j.lists \in MasterFirst

\* No server has been looked at yet.
Fresh(j) == j.i = 0 /\ j.seen = {} /\ ~j.wrapped

WorkerInv(at, j) ==
    /\ j \in Jobs
    /\ at = "idle" => j = Idle
    /\ at = "search" => j.key \in Keys /\ Fresh(j)
    /\ at = "counted" => Fresh(j) /\ j.group \in Groups /\ ~j.write
                           /\ Policy[j.group] = "read_balance"
    /\ at \in {"begin", "look", "bump", "chosen", "refused"} => Looked(j)
    /\ at = "begin" => j.i = 0 /\ j.lists # <<>>
    /\ at = "look" =>
         /\ j.lists # <<>> /\ j.callNum \in 0..(Modulus - 1)
         /\ j.i \in 0..Len(List(j.group, Head(j.lists)))
         /\ ~j.wrapped => Progress(j, List(j.group, Head(j.lists)))
    /\ at \in {"bump", "chosen"} =>
         j.lists # <<>> /\ j.servant \in Members(List(j.group, Head(j.lists)))
    /\ at = "refused" => j.lists = <<>>

CountersInv ==
    /\ m_callNum \in [Groups -> [Kinds -> 0..(Modulus - 1)]]
    /\ m_readCnt \in [Groups -> 0..1]
    /\ active \in [Servants -> BOOLEAN] /\ flips \in 0..MaxFlips

RouteInv ==
    /\ SearchInv
    /\ CountersInv
    /\ \A w \in Workers : WorkerInv(pc[w], job[w])

\* The step of a worker, as what it says of this worker and of the others.
LEMMA WorkerMoves ==
    ASSUME RouteInv, NEW w \in Workers, NEW to, NEW j, Continue(w, to, j), WorkerInv(to, j)
    PROVE  \A v \in Workers : WorkerInv(pc'[v], job'[v])
<1>1. pc'[w] = to /\ job'[w] = j
  BY DEF RouteInv, SearchInv, Continue
<1>2. \A v \in Workers : v # w => pc'[v] = pc[v] /\ job'[v] = job[v]
  BY DEF RouteInv, SearchInv, Continue
<1> QED BY <1>1, <1>2 DEF RouteInv

\* What is left of the lists after the first of them.
LEMMA ListsTypes ==
    ASSUME NEW l \in ListsLeft, l # <<>>
    PROVE  /\ Head(l) \in Kinds /\ Tail(l) \in ListsLeft
           /\ Kinds \ Members(Tail(l)) = (Kinds \ Members(l)) \union {Head(l)}
           /\ l \in MasterFirst => /\ Tail(l) \in MasterFirst
                                   /\ Head(l) = "slave" => "master" \in Kinds \ Members(l)
<1>1. Members(<<>>) = {} /\ Members(<<"master">>) = {"master"}
        /\ Members(<<"slave">>) = {"slave"}
  BY DEF Members
<1>2. /\ Members(<<"master", "slave">>) = {"master", "slave"}
      /\ Members(<<"slave", "master">>) = {"slave", "master"}
  <2>1. DOMAIN <<"master", "slave">> = {1, 2} /\ DOMAIN <<"slave", "master">> = {1, 2}
    OBVIOUS
  <2>2. <<"master", "slave">>[1] = "master" /\ <<"master", "slave">>[2] = "slave"
    OBVIOUS
  <2>3. <<"slave", "master">>[1] = "slave" /\ <<"slave", "master">>[2] = "master"
    OBVIOUS
  <2> QED BY <2>1, <2>2, <2>3 DEF Members
<1>3. CASE l = <<"master">>
  <2>1. Head(l) = "master" /\ Tail(l) = <<>>
    BY <1>3
  <2> QED BY <1>1, <1>3, <2>1 DEF ListsLeft, Kinds, MasterFirst
<1>4. CASE l = <<"slave">>
  <2>1. Head(l) = "slave" /\ Tail(l) = <<>>
    BY <1>4
  <2> QED BY <1>1, <1>4, <2>1 DEF ListsLeft, Kinds, MasterFirst
<1>5. CASE l = <<"master", "slave">>
  <2>1. Head(l) = "master" /\ Tail(l) = <<"slave">>
    BY <1>5
  <2> QED BY <1>1, <1>2, <1>5, <2>1 DEF ListsLeft, Kinds, MasterFirst
<1>6. CASE l = <<"slave", "master">>
  <2>1. Head(l) = "slave" /\ Tail(l) = <<"master">>
    BY <1>6
  <2> QED BY <1>1, <1>2, <1>6, <2>1 DEF ListsLeft, Kinds, MasterFirst
<1> QED BY <1>3, <1>4, <1>5, <1>6 DEF ListsLeft

\* A list of servers.
LEMMA ServerLists ==
    ASSUME NEW g \in Groups, NEW kind \in Kinds
    PROVE  LET list == List(g, kind) IN
           /\ list \in Seq(Servants) /\ Len(list) \in Nat /\ DOMAIN list = 1..Len(list)
           /\ Members(list) \subseteq Servants
           /\ Members(list) \subseteq Members(Masters[g]) \union Members(Slaves[g])
<1>1. List(g, kind) \in Seq(Servants)
  BY GroupsAssumption DEF List, Kinds
<1>2. List(g, kind) \in {Masters[g], Slaves[g]}
  BY DEF List, Kinds
<1> QED BY <1>1, <1>2 DEF Members

\* A request that has found its group goes to the policy's first list.
LEMMA RoutedInv ==
    ASSUME RouteInv, NEW w \in Workers, NEW j \in Jobs, Fresh(j), NEW g \in Groups,
           Routed(w, j, g)
    PROVE  \A v \in Workers : WorkerInv(pc'[v], job'[v])
<1> DEFINE at == [j EXCEPT !.key = "none", !.group = g, !.left = 0, !.right = 0]
<1>1. at \in Jobs /\ Fresh(at) /\ at.group = g /\ at.write = j.write
  BY DEF Jobs, Fresh
<1>2. CASE Policy[g] = "read_balance" /\ ~j.write
  <2> DEFINE to == [at EXCEPT !.callNum = m_readCnt[g]]
  <2>1. Continue(w, "counted", to)
    BY <1>2 DEF Routed
  <2>2. m_readCnt[g] \in Nat
    BY DEF RouteInv, CountersInv
  <2> HIDE DEF at
  <2>3. to \in Jobs /\ Fresh(to) /\ to.group = g /\ to.write = j.write
    BY <1>1, <2>2 DEF Jobs, Fresh
  <2>4. WorkerInv("counted", to)
    BY <1>2, <2>3 DEF WorkerInv
  <2> QED BY <2>1, <2>4, WorkerMoves
<1>3. CASE ~(Policy[g] = "read_balance" /\ ~j.write)
  <2> DEFINE to == [at EXCEPT !.callNum = m_callNum[g]["master"],
                              !.lists = <<"master", "slave">>]
  <2>1. Continue(w, "look", to)
    BY <1>3 DEF Routed
  <2>2. m_callNum[g]["master"] \in 0..(Modulus - 1)
    BY DEF RouteInv, CountersInv, Kinds
  <2> HIDE DEF at
  <2>3. /\ to \in Jobs /\ Fresh(to) /\ to.group = g
        /\ to.lists = <<"master", "slave">> /\ to.callNum \in 0..(Modulus - 1)
    <3> DEFINE c == m_callNum[g]["master"]
               l == <<"master", "slave">>
    <3>1. c \in 0..(Modulus - 1) /\ c \in Nat /\ l \in ListsLeft
      BY <2>2, BoundsAssumption DEF ListsLeft
    <3>2. to = [at EXCEPT !.callNum = c, !.lists = l]
      OBVIOUS
    <3>3. l = <<"master", "slave">>
      OBVIOUS
    <3> HIDE DEF to, c, l
    <3>4. to \in Jobs
      BY <1>1, <3>1, <3>2 DEF Jobs
    <3>5. to.callNum = c /\ to.lists = l /\ to.group = g
      BY <1>1, <3>2 DEF Jobs
    <3>6. Fresh(to)
      BY <1>1, <3>2 DEF Jobs, Fresh
    <3> QED BY <3>1, <3>3, <3>4, <3>5, <3>6
  <2> HIDE DEF to
  <2>4. Kinds \ Members(to.lists) = {} /\ Head(to.lists) = "master" /\ to.lists # <<>>
    <3>1. DOMAIN <<"master", "slave">> = {1, 2}
      OBVIOUS
    <3>2. Members(<<"master", "slave">>) = {"master", "slave"}
      BY <3>1 DEF Members
    <3> QED BY <2>3, <3>2 DEF Kinds
  <2>5. Looked(to)
    BY <2>3, <2>4 DEF Looked, Fresh, MasterFirst
  <2>6. Progress(to, List(g, "master"))
    <3>1. Len(List(g, "master")) \in Nat /\ DOMAIN List(g, "master") = 1..Len(List(g, "master"))
      BY ServerLists DEF Kinds
    <3> QED BY <2>3, <3>1 DEF Progress, Fresh, Members
  <2>7. to.i \in 0..Len(List(g, "master"))
    <3>1. Len(List(g, "master")) \in Nat
      BY ServerLists DEF Kinds
    <3> QED BY <2>3, <3>1 DEF Fresh
  <2>8. WorkerInv("look", to)
    BY <2>3, <2>4, <2>5, <2>6, <2>7 DEF WorkerInv
  <2> QED BY <2>1, <2>8, WorkerMoves
<1> QED BY <1>2, <1>3

\* A counter moves on by one, or comes back to zero.
LEMMA NextCount ==
    ASSUME NEW c \in 0..(Modulus - 1)
    PROVE  /\ (c + 1) % Modulus \in 0..(Modulus - 1)
           /\ (c + 1) % Modulus = (IF c + 1 = Modulus THEN 0 ELSE c + 1)
<1>0. Modulus \in Nat \ {0} /\ c \in Nat
  BY BoundsAssumption
<1>1. CASE c + 1 = Modulus
  <2>1. c + 1 = Modulus * 1 + 0 /\ 0 \in 0..(Modulus - 1)
    BY <1>0, <1>1
  <2>2. (c + 1) % Modulus = 0
    BY <1>0, <2>1, RemainderUnique
  <2> QED BY <1>0, <1>1, <2>2
<1>2. CASE c + 1 # Modulus
  <2>1. c + 1 = Modulus * 0 + (c + 1) /\ c + 1 \in 0..(Modulus - 1)
    BY <1>0, <1>2
  <2>2. (c + 1) % Modulus = c + 1
    BY <1>0, <2>1, RemainderUnique
  <2> QED BY <2>1, <2>2, <1>2
<1> QED BY <1>1, <1>2

\* A turn of the loop: the server at the counter joins those seen.  The places
\* before the counter stay the same, also when the counter comes back to zero,
\* unless the number of servers does not divide Modulus.
LEMMA LookOn ==
    ASSUME NEW list \in Seq(Servants), NEW c \in 0..(Modulus - 1), NEW n \in Nat, n < Len(list),
           NEW seen, \A d \in 1..n : list[((c - d) % Len(list)) + 1] \in seen,
           NEW seen2, seen2 = seen \union {list[(c % Len(list)) + 1]}
    PROVE  /\ n + 1 = Len(list) => Members(list) \subseteq seen2
           /\ \/ c + 1 # Modulus
              \/ Modulus % Len(list) = 0
              => \A d \in 1..(n + 1) :
                     list[((((c + 1) % Modulus) - d) % Len(list)) + 1] \in seen2
<1> DEFINE size == Len(list)
           At(a) == list[(a % size) + 1]
<1>0. /\ size \in Nat \ {0} /\ DOMAIN list = 1..size
      /\ c \in Nat /\ Modulus \in Nat \ {0} /\ c <= Modulus - 1
  BY BoundsAssumption
<1>1. \A d \in 0..n : At(c - d) \in seen2
  <2> TAKE d \in 0..n
  <2>1. CASE d = 0
    <3>1. c - d = c
      BY <1>0, <2>1
    <3> QED BY <3>1
  <2>2. CASE d # 0
    <3>1. d \in 1..n
      BY <2>2
    <3> QED BY <3>1
  <2> QED BY <2>1, <2>2
<1> HIDE DEF size
<1>2. ASSUME n + 1 = size PROVE Members(list) \subseteq seen2
  <2> SUFFICES ASSUME NEW k \in 1..size PROVE list[k] \in seen2
    BY <1>0 DEF Members
  <2>1. PICK d \in 0..(size - 1) : (c - d) % size = k - 1
    BY <1>0, RoundRobinCovers
  <2>2. d \in 0..n
    BY <1>0, <1>2
  <2>3. At(c - d) = list[k]
    BY <1>0, <2>1
  <2> QED BY <1>1, <2>2, <2>3
<1>3. ASSUME c + 1 # Modulus \/ Modulus % size = 0, NEW d \in 1..(n + 1)
      PROVE  At(((c + 1) % Modulus) - d) \in seen2
  <2>1. d - 1 \in 0..n /\ d \in Int /\ c - (d - 1) \in Int
    BY <1>0
  <2>2. (((c + 1) % Modulus) - d) % size = (c - (d - 1)) % size
    <3>1. CASE c + 1 # Modulus
      <4>1. ((c + 1) % Modulus) - d = c - (d - 1)
        <5>1. (c + 1) % Modulus = c + 1
          BY <3>1, NextCount
        <5>2. (c + 1) - d = c - (d - 1)
          BY <1>0, <2>1
        <5> QED BY <5>1, <5>2
      <4> QED BY <4>1
    <3>2. CASE c + 1 = Modulus
      <4>1. Modulus % size = 0
        BY <1>3, <3>2
      <4> DEFINE q == Modulus \div size
      <4>2. Modulus = size * q + 0 /\ q \in Int
        BY <1>0, <4>1, Quotient
      <4> HIDE DEF q
      <4>3. size * (0 - q) = 0 - size * q /\ size * q \in Int
        BY <1>0, <4>2
      <4>4. ((c + 1) % Modulus) - d = (c - (d - 1)) + size * (0 - q)
        <5>1. (c + 1) % Modulus = 0
          BY <3>2, NextCount
        <5> QED BY <1>0, <2>1, <3>2, <4>2, <4>3, <5>1
      <4>5. ((c - (d - 1)) + size * (0 - q)) % size = (c - (d - 1)) % size
        <5>1. 0 - q \in Int
          BY <4>2
        <5> QED BY <1>0, <2>1, <5>1, RemainderShift
      <4> QED BY <4>4, <4>5
    <3> QED BY <3>1, <3>2
  <2> QED BY <1>1, <2>1, <2>2
<1> QED BY <1>2, <1>3 DEF size

-----------------------------------------------------------------------------
(* Every step keeps what a worker has seen.                                *)

LEMMA IdleType == Idle \in Jobs /\ Fresh(Idle)
BY DEF Idle, Jobs, Fresh, ListsLeft

LEMMA RequestInv ==
    ASSUME RouteInv, NEW w \in Workers, NEW k \in Keys, NEW write \in BOOLEAN,
           Request(w, k, write)
    PROVE  \A v \in Workers : WorkerInv(pc'[v], job'[v])
<1> DEFINE j == [Idle EXCEPT !.key = k, !.write = write]
<1>1. j \in Jobs /\ Fresh(j) /\ j.key = k
  BY IdleType DEF Jobs, Fresh
<1>2. m_slots \in Seq(Points) /\ m_slots # <<>>
  BY DEF RouteInv, SearchInv
<1>3. DOMAIN m_slots = 1..Len(m_slots) /\ Len(m_slots) \in Nat \ {0}
        /\ \A n \in DOMAIN m_slots : m_slots[n].group \in Groups
  BY <1>2, PointTypes
<1>4. CASE k \in DOMAIN KeyMapping
  <2>1. Routed(w, j, KeyMapping[k])
    BY <1>4 DEF Request
  <2> HIDE DEF j
  <2> QED BY <1>1, <1>4, <2>1, KeyMappingAssumption, RoutedInv
<1>5. CASE k \notin DOMAIN KeyMapping /\ ~m_twemproxyMode
  <2> DEFINE n == (HashOf[k] % Len(m_slots)) + 1
  <2>1. Routed(w, j, m_slots[n].group)
    BY <1>5 DEF Request
  <2>2. n \in DOMAIN m_slots
    BY <1>3, HashAssumption
  <2> HIDE DEF j, n
  <2> QED BY <1>1, <1>3, <2>1, <2>2, RoutedInv
<1>6. CASE k \notin DOMAIN KeyMapping /\ m_twemproxyMode
  <2> DEFINE to == [j EXCEPT !.right = Len(m_slots)]
  <2>1. Continue(w, "search", to)
    BY <1>6 DEF Request
  <2> HIDE DEF j
  <2>2. to \in Jobs /\ Fresh(to) /\ to.key = k
    BY <1>1, <1>3 DEF Jobs, Fresh
  <2>3. WorkerInv("search", to)
    BY <2>2 DEF WorkerInv
  <2> QED BY <2>1, <2>3, WorkerMoves
<1> QED BY <1>4, <1>5, <1>6

LEMMA SearchKeeps ==
    ASSUME RouteInv, NEW w \in Workers, Search(w)
    PROVE  \A v \in Workers : WorkerInv(pc'[v], job'[v])
<1> DEFINE j == job[w]
           middle == j.left + (j.right - j.left) \div 2
<1>1. j \in Jobs /\ j.key \in Keys /\ Fresh(j)
  BY DEF RouteInv, WorkerInv, Search
<1>2. /\ m_slots \in Seq(Points) /\ Sorted(m_slots) /\ m_slots # <<>>
      /\ Hash(j.key) \in Nat /\ Bracketed(m_slots, j.left, j.right, Hash(j.key))
  BY DEF RouteInv, SearchInv, Search
<1>3. CASE j.left < j.right
  <2> DEFINE to == IF m_slots[middle + 1].value < Hash(j.key)
                   THEN [j EXCEPT !.left = middle + 1] ELSE [j EXCEPT !.right = middle]
  <2>1. Continue(w, "search", to)
    BY <1>3 DEF Search
  <2>2. middle \in Nat /\ middle + 1 \in Nat
    <3>1. j.left \in Nat /\ j.right \in Nat
      BY <1>2 DEF Bracketed
    <3> QED BY <3>1, <1>3
  <2> HIDE DEF middle, j
  <2>3. to \in Jobs /\ Fresh(to) /\ to.key \in Keys
    BY <1>1, <2>2 DEF Jobs, Fresh
  <2>4. WorkerInv("search", to)
    BY <2>3 DEF WorkerInv
  <2> QED BY <2>1, <2>4, WorkerMoves
<1>4. CASE ~(j.left < j.right)
  <2> DEFINE n == IF j.right = Len(m_slots) THEN 1 ELSE j.right + 1
  <2>1. Routed(w, j, m_slots[n].group)
    BY <1>4 DEF Search
  <2>2. /\ DOMAIN m_slots = 1..Len(m_slots) /\ Len(m_slots) \in Nat \ {0}
        /\ \A a \in DOMAIN m_slots : m_slots[a].group \in Groups
    BY <1>2, PointTypes
  <2>3. n \in DOMAIN m_slots
    BY <1>2, <2>2 DEF Bracketed
  <2> HIDE DEF n, j
  <2> QED BY <1>1, <2>1, <2>2, <2>3, RoutedInv
<1> QED BY <1>3, <1>4

LEMMA ReadCountedInv ==
    ASSUME RouteInv, NEW w \in Workers, ReadCounted(w)
    PROVE  /\ \A v \in Workers : WorkerInv(pc'[v], job'[v])
           /\ CountersInv'
<1> DEFINE j == job[w]
           n == (j.callNum + 1) % 2
           l == IF n = 0 THEN <<"slave", "master">> ELSE <<"master", "slave">>
           to == [j EXCEPT !.callNum = 0, !.lists = l]
<1>1. /\ j \in Jobs /\ Fresh(j) /\ j.group \in Groups /\ ~j.write
      /\ Policy[j.group] = "read_balance"
  BY DEF RouteInv, WorkerInv, ReadCounted
<1>2. Continue(w, "begin", to)
  BY DEF ReadCounted
<1>3. l \in ListsLeft /\ l # <<>> /\ Kinds \ Members(l) = {}
  <2>1. DOMAIN <<"master", "slave">> = {1, 2} /\ DOMAIN <<"slave", "master">> = {1, 2}
    OBVIOUS
  <2>2. /\ Members(<<"master", "slave">>) = {"master", "slave"}
        /\ Members(<<"slave", "master">>) = {"master", "slave"}
    BY <2>1 DEF Members
  <2> QED BY <2>2 DEF ListsLeft, Kinds
<1>4. CountersInv'
  <2>1. n \in 0..1
    <3>1. j.callNum \in Nat
      BY <1>1 DEF Jobs
    <3> QED BY <3>1
  <2>2. m_readCnt' = [m_readCnt EXCEPT ![j.group] = n]
    BY DEF ReadCounted
  <2> HIDE DEF n, j
  <2>3. m_readCnt' \in [Groups -> 0..1]
    BY <2>1, <2>2 DEF RouteInv, CountersInv
  <2> QED BY <2>3 DEF ReadCounted, RouteInv, CountersInv
<1> HIDE DEF l, j, n
<1>5. to \in Jobs /\ Fresh(to) /\ to.lists = l /\ to.group = j.group /\ ~to.write
  BY <1>1, <1>3 DEF Jobs, Fresh
<1>6. WorkerInv("begin", to)
  <2>1. Looked(to)
    BY <1>1, <1>3, <1>5 DEF Looked, Fresh
  <2> QED BY <1>3, <1>5, <2>1 DEF WorkerInv, Fresh
<1> QED BY <1>2, <1>4, <1>6, WorkerMoves

LEMMA BeginInv ==
    ASSUME RouteInv, NEW w \in Workers, Begin(w)
    PROVE  \A v \in Workers : WorkerInv(pc'[v], job'[v])
<1> DEFINE j == job[w]
           c == m_callNum[j.group][Head(j.lists)]
           to == [j EXCEPT !.callNum = c]
           list == List(j.group, Head(j.lists))
<1>1. j \in Jobs /\ Looked(j) /\ j.i = 0 /\ j.lists # <<>> /\ j.group \in Groups
  BY DEF RouteInv, WorkerInv, Begin, Looked
<1>2. Continue(w, "look", to)
  BY DEF Begin
<1>3. Head(j.lists) \in Kinds
  BY <1>1, ListsTypes DEF Jobs
<1>4. c \in 0..(Modulus - 1) /\ c \in Nat
  BY <1>1, <1>3, BoundsAssumption DEF RouteInv, CountersInv
<1>5. Len(list) \in Nat /\ DOMAIN list = 1..Len(list)
  BY <1>1, <1>3, ServerLists
<1> HIDE DEF j, c
<1>6. /\ to \in Jobs /\ to.callNum = c /\ to.i = 0
      /\ to.lists = j.lists /\ to.group = j.group /\ to.seen = j.seen
      /\ to.write = j.write /\ to.wrapped = j.wrapped
  BY <1>1, <1>4 DEF Jobs
<1> HIDE DEF to
<1>7. Looked(to)
  BY <1>1, <1>6 DEF Looked
<1>8. Progress(to, list)
  BY <1>5, <1>6 DEF Progress, Members
<1>9. WorkerInv("look", to)
  BY <1>1, <1>4, <1>5, <1>6, <1>7, <1>8 DEF WorkerInv
<1> QED BY <1>2, <1>9, WorkerMoves

\* A turn of the loop finds an active server, or counts one as seen.
LEMMA LookInv ==
    ASSUME RouteInv, NEW w \in Workers, Look(w)
    PROVE  \A v \in Workers : WorkerInv(pc'[v], job'[v])
<1> DEFINE j == job[w]
           kind == Head(j.lists)
           list == List(j.group, kind)
           place == (j.callNum % Len(list)) + 1
           s == list[place]
           next == (j.callNum + 1) % Modulus
<1>1. /\ j \in Jobs /\ Looked(j) /\ j.lists # <<>> /\ j.group \in Groups
      /\ j.callNum \in 0..(Modulus - 1)
      /\ ~j.wrapped => Progress(j, list)
  BY DEF RouteInv, WorkerInv, Look, Looked
<1>2. kind \in Kinds
  BY <1>1, ListsTypes DEF Jobs
<1>3. j.i \in Nat /\ j.i < Len(list)
  BY <1>1 DEF Look, Jobs
<1>4. /\ list \in Seq(Servants) /\ Len(list) \in Nat \ {0} /\ DOMAIN list = 1..Len(list)
      /\ Members(list) \subseteq Servants
      /\ Members(list) \subseteq Members(Masters[j.group]) \union Members(Slaves[j.group])
  <2>1. Len(list) \in Nat /\ Len(list) # 0
    BY <1>1, <1>2, <1>3, ServerLists
  <2> QED BY <1>1, <1>2, <2>1, ServerLists
<1>5. place \in 1..Len(list)
  BY <1>1, <1>4
<1>6. s \in Members(list) /\ s \in Servants
  BY <1>4, <1>5 DEF Members
<1>7. CASE active[s]
  <2> DEFINE at == IF kind = "slave" THEN "bump" ELSE "chosen"
             c == IF kind = "slave" THEN m_callNum[j.group]["slave"] ELSE 0
             to == [j EXCEPT !.servant = s, !.i = 0, !.callNum = c]
  <2>1. Continue(w, at, to)
    BY <1>7 DEF Look
  <2>2. c \in Nat
    BY <1>1, BoundsAssumption DEF RouteInv, CountersInv, Kinds
  <2>3. at \in {"bump", "chosen"}
    OBVIOUS
  <2> HIDE DEF c, s, j
  <2>4. /\ to \in Jobs /\ to.servant = s /\ to.i = 0
        /\ to.lists = j.lists /\ to.group = j.group /\ to.seen = j.seen
        /\ to.write = j.write /\ to.wrapped = j.wrapped
    BY <1>1, <1>6, <2>2 DEF Jobs
  <2> HIDE DEF to, at
  <2>5. Looked(to)
    BY <1>1, <2>4 DEF Looked
  <2>6. WorkerInv(at, to)
    BY <1>1, <1>6, <2>3, <2>4, <2>5 DEF WorkerInv
  <2> QED BY <2>1, <2>6, WorkerMoves
<1>8. CASE ~active[s]
  <2> DEFINE wrap == j.wrapped \/ (next = 0 /\ j.i + 1 < Len(list) /\ Modulus % Len(list) # 0)
             seen == j.seen \union {s}
             n == j.i + 1
             to == [j EXCEPT !.callNum = next, !.i = n, !.seen = seen, !.wrapped = wrap]
  <2>1. Continue(w, "look", to)
    BY <1>8 DEF Look
  <2>2. next \in 0..(Modulus - 1) /\ next \in Nat /\ n \in Nat /\ n \in 0..Len(list)
    <3>1. next \in 0..(Modulus - 1)
      BY <1>1, NextCount
    <3>2. n \in 0..Len(list)
      BY <1>3, <1>4
    <3> QED BY <3>1, <3>2, BoundsAssumption
  <2>3. wrap \in BOOLEAN
    BY <1>1 DEF Jobs
  <2>4. seen \in SUBSET Servants
    BY <1>1, <1>6 DEF Jobs
  <2>5. ASSUME ~wrap
        PROVE  IF n = Len(list) THEN Members(list) \subseteq seen
               ELSE \A d \in 1..n : list[((next - d) % Len(list)) + 1] \in seen
    <3>1. \A d \in 1..j.i : list[((j.callNum - d) % Len(list)) + 1] \in j.seen
      BY <1>1, <1>3, <2>5 DEF Progress
    <3>2. n # Len(list) => j.i + 1 < Len(list)
      BY <1>3, <1>4
    <3>3. n # Len(list) => j.callNum + 1 # Modulus \/ Modulus % Len(list) = 0
      <4> SUFFICES ASSUME n # Len(list), j.callNum + 1 = Modulus
                   PROVE  Modulus % Len(list) = 0
        OBVIOUS
      <4>1. next = 0
        BY <1>1, NextCount
      <4> QED BY <2>5, <3>2, <4>1
    <3> HIDE DEF list, j
    <3>4. /\ n = Len(list) => Members(list) \subseteq seen
          /\ j.callNum + 1 # Modulus \/ Modulus % Len(list) = 0
              => \A d \in 1..n : list[((next - d) % Len(list)) + 1] \in seen
      BY <1>1, <1>3, <1>4, <3>1, LookOn
    <3> QED BY <3>3, <3>4
  <2> HIDE DEF next, wrap, seen, n, j
  <2>6. to \in Jobs
    BY <1>1, <2>2, <2>3, <2>4 DEF Jobs
  <2>7. /\ to.callNum = next /\ to.i = n /\ to.seen = seen /\ to.wrapped = wrap
        /\ to.lists = j.lists /\ to.group = j.group /\ to.write = j.write
    BY <1>1 DEF Jobs
  <2> HIDE DEF to
  <2>8. Looked(to)
    <3>1. j.seen \subseteq seen /\ (~wrap => ~j.wrapped)
      BY DEF seen, wrap
    <3>2. seen \subseteq Members(Masters[j.group]) \union Members(Slaves[j.group])
      BY <1>1, <1>4, <1>6 DEF seen, Looked
    <3> QED BY <1>1, <2>7, <3>1, <3>2 DEF Looked
  <2>9. ~to.wrapped => Progress(to, list)
    BY <2>5, <2>7 DEF Progress
  <2>10. WorkerInv("look", to)
    BY <1>1, <2>2, <2>6, <2>7, <2>8, <2>9 DEF WorkerInv
  <2> QED BY <2>1, <2>10, WorkerMoves
<1> QED BY <1>7, <1>8

LEMMA BumpInv ==
    ASSUME RouteInv, NEW w \in Workers, Bump(w)
    PROVE  /\ \A v \in Workers : WorkerInv(pc'[v], job'[v])
           /\ CountersInv'
<1> DEFINE j == job[w]
           to == [j EXCEPT !.callNum = 0]
           c == (j.callNum + 1) % Modulus
<1>1. /\ j \in Jobs /\ Looked(j) /\ j.lists # <<>> /\ j.group \in Groups
      /\ j.servant \in Members(List(j.group, Head(j.lists)))
  BY DEF RouteInv, WorkerInv, Bump, Looked
<1>2. Continue(w, "chosen", to)
  BY DEF Bump
<1>3. c \in 0..(Modulus - 1)
  <2>1. j.callNum \in Nat
    BY <1>1 DEF Jobs
  <2> QED BY <2>1, BoundsAssumption
<1>4. CountersInv'
  <2>1. m_callNum' = [m_callNum EXCEPT ![j.group]["slave"] = c]
    BY DEF Bump
  <2> HIDE DEF j, c
  <2>2. m_callNum' \in [Groups -> [Kinds -> 0..(Modulus - 1)]]
    BY <1>1, <1>3, <2>1 DEF RouteInv, CountersInv, Kinds
  <2> QED BY <2>2 DEF Bump, RouteInv, CountersInv
<1> HIDE DEF j
<1>5. /\ to \in Jobs /\ to.servant = j.servant
      /\ to.lists = j.lists /\ to.group = j.group /\ to.seen = j.seen
      /\ to.write = j.write /\ to.wrapped = j.wrapped
  BY <1>1 DEF Jobs
<1> HIDE DEF to
<1>6. Looked(to)
  BY <1>1, <1>5 DEF Looked
<1>7. WorkerInv("chosen", to)
  BY <1>1, <1>5, <1>6 DEF WorkerInv
<1> QED BY <1>2, <1>4, <1>7, WorkerMoves

\* A list that is exhausted has been seen whole.
LEMMA ExhaustedInv ==
    ASSUME RouteInv, NEW w \in Workers, Exhausted(w)
    PROVE  /\ \A v \in Workers : WorkerInv(pc'[v], job'[v])
           /\ CountersInv'
<1> DEFINE j == job[w]
           kind == Head(j.lists)
           rest == Tail(j.lists)
           list == List(j.group, kind)
           at == IF rest = <<>> THEN "refused" ELSE "begin"
           to == [j EXCEPT !.lists = rest, !.callNum = 0, !.i = 0]
<1>1. /\ j \in Jobs /\ Looked(j) /\ j.lists # <<>> /\ j.group \in Groups
      /\ j.callNum \in 0..(Modulus - 1) /\ j.i = Len(list)
      /\ ~j.wrapped => Progress(j, list)
  BY DEF RouteInv, WorkerInv, Exhausted, Looked
<1>2. Continue(w, at, to)
  BY DEF Exhausted
<1>3. /\ kind \in Kinds /\ rest \in ListsLeft
      /\ Kinds \ Members(rest) = (Kinds \ Members(j.lists)) \union {kind}
      /\ j.lists \in MasterFirst => rest \in MasterFirst
  BY <1>1, ListsTypes DEF Jobs
<1>4. CountersInv'
  <2>1. m_callNum' = [m_callNum EXCEPT ![j.group][kind] = j.callNum]
    BY DEF Exhausted
  <2> HIDE DEF j, kind
  <2>2. m_callNum' \in [Groups -> [Kinds -> 0..(Modulus - 1)]]
    BY <1>1, <1>3, <2>1 DEF RouteInv, CountersInv
  <2> QED BY <2>2 DEF Exhausted, RouteInv, CountersInv
<1>5. ~j.wrapped => Members(list) \subseteq j.seen
  BY <1>1 DEF Progress
<1>6. at \in {"begin", "refused"} /\ (at = "begin" <=> rest # <<>>)
  OBVIOUS
<1> HIDE DEF j, rest, kind, at
<1>7. /\ to \in Jobs /\ to.lists = rest /\ to.i = 0
      /\ to.group = j.group /\ to.seen = j.seen
      /\ to.write = j.write /\ to.wrapped = j.wrapped
  BY <1>1, <1>3 DEF Jobs
<1> HIDE DEF to
<1>8. Looked(to)
  BY <1>1, <1>3, <1>5, <1>7 DEF Looked
<1>9. WorkerInv(at, to)
  BY <1>6, <1>7, <1>8 DEF WorkerInv
<1> QED BY <1>2, <1>4, <1>9, WorkerMoves

LEMMA HandledInv ==
    ASSUME RouteInv, NEW w \in Workers, Handled(w)
    PROVE  \A v \in Workers : WorkerInv(pc'[v], job'[v])
<1>1. Continue(w, "idle", Idle)
  BY DEF Handled
<1>2. WorkerInv("idle", Idle)
  BY IdleType DEF WorkerInv
<1> QED BY <1>1, <1>2, WorkerMoves

LEMMA RouteInitially == Init => RouteInv
<1> SUFFICES ASSUME Init PROVE RouteInv
  OBVIOUS
<1>1. CountersInv
  <2>1. PICK down \in DownAtFirst : active = [s \in Servants |-> s \notin down]
    BY DEF Init
  <2>2. active \in [Servants -> BOOLEAN]
    BY <2>1
  <2> QED BY <2>2, BoundsAssumption DEF Init, CountersInv, Kinds
<1>2. \A w \in Workers : WorkerInv(pc[w], job[w])
  BY IdleType DEF Init, WorkerInv
<1> QED BY <1>1, <1>2, SearchInitially DEF RouteInv

LEMMA RouteInductive == RouteInv /\ [Next]_vars => RouteInv'
<1> SUFFICES ASSUME RouteInv, [Next]_vars
             PROVE  CountersInv' /\ \A w \in Workers : WorkerInv(pc'[w], job'[w])
  BY SearchInductive DEF RouteInv
<1>1. ASSUME NEW w \in Workers, NEW k \in Keys, NEW write \in BOOLEAN, Request(w, k, write)
      PROVE  CountersInv' /\ \A v \in Workers : WorkerInv(pc'[v], job'[v])
  BY <1>1, RequestInv DEF Request, RouteInv, CountersInv
<1>2. ASSUME NEW w \in Workers, Step(w)
      PROVE  CountersInv' /\ \A v \in Workers : WorkerInv(pc'[v], job'[v])
  <2>1. CASE Search(w)
    BY <2>1, SearchKeeps DEF Search, RouteInv, CountersInv
  <2>2. CASE ReadCounted(w)
    BY <2>2, ReadCountedInv
  <2>3. CASE Begin(w)
    BY <2>3, BeginInv DEF Begin, RouteInv, CountersInv
  <2>4. CASE Look(w)
    BY <2>4, LookInv DEF Look, RouteInv, CountersInv
  <2>5. CASE Bump(w)
    BY <2>5, BumpInv
  <2>6. CASE Exhausted(w)
    BY <2>6, ExhaustedInv
  <2>7. CASE Handled(w)
    BY <2>7, HandledInv DEF Handled, RouteInv, CountersInv
  <2> QED BY <1>2, <2>1, <2>2, <2>3, <2>4, <2>5, <2>6, <2>7 DEF Step
<1>3. ASSUME NEW s \in Servants, Flip(s)
      PROVE  CountersInv' /\ \A v \in Workers : WorkerInv(pc'[v], job'[v])
  <2>1. active' \in [Servants -> BOOLEAN] /\ flips' \in 0..MaxFlips
    BY <1>3, BoundsAssumption DEF Flip, RouteInv, CountersInv
  <2> QED BY <1>3, <2>1 DEF Flip, RouteInv, CountersInv
<1>4. CASE UNCHANGED vars
  BY <1>4 DEF vars, RouteInv, CountersInv
<1> QED BY <1>1, <1>2, <1>3, <1>4 DEF Next

\* What the invariant says of a request that is refused, or that ends at a slave.
LEMMA RouteImplies == RouteInv => RefusedByAll
<1> SUFFICES ASSUME RouteInv PROVE RefusedByAll
  OBVIOUS
<1>1. TypeOK
  <2>1. ASSUME NEW w \in Workers PROVE pc[w] = "idle" <=> job[w] = Idle
    <3>1. CASE pc[w] = "search"
      BY <3>1, GroupsAssumption DEF RouteInv, WorkerInv, Idle
    <3>2. CASE pc[w] \notin {"idle", "search"}
      <4>1. job[w].group \in Groups
        BY <3>2 DEF RouteInv, SearchInv, Stages, WorkerInv, Looked
      <4> QED BY <3>2, <4>1, GroupsAssumption DEF Idle
    <3>3. CASE pc[w] = "idle"
      BY <3>3 DEF RouteInv, WorkerInv
    <3> QED BY <3>1, <3>2, <3>3
  <2>2. ASSUME NEW w \in Workers, pc[w] = "search"
        PROVE  0 <= job[w].left /\ job[w].left <= job[w].right /\ job[w].right <= Len(m_slots)
    <3>1. Bracketed(m_slots, job[w].left, job[w].right, Hash(job[w].key))
      BY <2>2 DEF RouteInv, SearchInv
    <3>2. job[w].left \in Nat /\ job[w].left <= job[w].right /\ job[w].right <= Len(m_slots)
      BY <3>1 DEF Bracketed
    <3> QED BY <3>2
  <2>3. ASSUME NEW w \in Workers, pc[w] \notin {"idle", "search"} PROVE job[w].group \in Groups
    BY <2>3 DEF RouteInv, SearchInv, Stages, WorkerInv, Looked
  <2>4. ASSUME NEW w \in Workers, pc[w] = "look"
        PROVE  job[w].i \in 0..Len(List(job[w].group, Head(job[w].lists)))
    BY <2>4 DEF RouteInv, WorkerInv
  <2>5. ASSUME NEW w \in Workers, pc[w] \in {"bump", "chosen"} PROVE job[w].servant \in Servants
    <3> DEFINE j == job[w]
    <3>1. /\ j \in Jobs /\ j.lists # <<>> /\ j.group \in Groups
          /\ j.servant \in Members(List(j.group, Head(j.lists)))
      BY <2>5 DEF RouteInv, WorkerInv, Looked
    <3>2. Head(j.lists) \in Kinds
      BY <3>1, ListsTypes DEF Jobs
    <3>3. Members(List(j.group, Head(j.lists))) \subseteq Servants
      BY <3>1, <3>2, ServerLists
    <3> QED BY <3>1, <3>3
  <2> QED BY <2>1, <2>2, <2>3, <2>4, <2>5 DEF TypeOK, RouteInv, CountersInv, SearchInv, Stages, Kinds
<1>2. ASSUME NEW w \in Workers, pc[w] = "refused", ~job[w].wrapped
      PROVE  job[w].seen = Members(Masters[job[w].group]) \union Members(Slaves[job[w].group])
  <2> DEFINE j == job[w]
  <2>1. Looked(j) /\ j.lists = <<>>
    BY <1>2 DEF RouteInv, WorkerInv
  <2>2. Kinds \ Members(<<>>) = Kinds
    BY DEF Members
  <2>3. List(j.group, "master") = Masters[j.group] /\ List(j.group, "slave") = Slaves[j.group]
    BY DEF List
  <2>4. /\ Members(List(j.group, "master")) \subseteq j.seen
        /\ Members(List(j.group, "slave")) \subseteq j.seen
    BY <1>2, <2>1, <2>2 DEF Looked, Kinds
  <2> QED BY <2>1, <2>3, <2>4 DEF Looked
<1>3. ASSUME NEW w \in Workers, pc[w] = "chosen", ~job[w].wrapped,
             job[w].servant \in Members(Slaves[job[w].group]),
             job[w].write \/ Policy[job[w].group] = "master_only"
      PROVE  Members(Masters[job[w].group]) \subseteq job[w].seen
  <2> DEFINE j == job[w]
  <2>1. /\ j \in Jobs /\ Looked(j) /\ j.lists # <<>> /\ j.group \in Groups
        /\ j.servant \in Members(List(j.group, Head(j.lists)))
    BY <1>3 DEF RouteInv, WorkerInv, Looked
  <2>2. j.lists \in MasterFirst
    BY <1>3, <2>1 DEF Looked
  <2>3. Head(j.lists) = "slave"
    <3>1. Head(j.lists) \in Kinds
      BY <2>1, ListsTypes DEF Jobs
    <3>2. List(j.group, "master") = Masters[j.group]
      BY DEF List
    <3>3. Members(Masters[j.group]) \cap Members(Slaves[j.group]) = {}
      BY <2>1, GroupsAssumption
    <3>4. Head(j.lists) # "master"
      BY <1>3, <2>1, <3>2, <3>3
    <3> QED BY <3>1, <3>4 DEF Kinds
  <2>4. "master" \in Kinds \ Members(j.lists)
    BY <2>1, <2>2, <2>3, ListsTypes DEF Jobs
  <2>5. Members(List(j.group, "master")) \subseteq j.seen
    BY <1>3, <2>1, <2>4 DEF Looked
  <2> QED BY <2>5 DEF List
<1> QED BY <1>1, <1>2, <1>3 DEF RefusedByAll

\* For any groups of servers and any number of workers: a request is refused only
\* when each server of its group was found inactive, and the policies give a write
\* to a slave only when each master was (redis-servant-select.cpp).
THEOREM RefusedOnlyByAll == Spec => []RefusedByAll
BY RouteInitially, RouteInductive, RouteImplies, PTL DEF Spec

-----------------------------------------------------------------------------
(* The hash functions.  Bytes p to q, each in its place of the words of four.*)

Place(p) == <<p, p \div 4, 8 * (p % 4)>>
Span(p, q) == {Place(n) : n \in p..q}

\* Within a word.
LEMMA WordArithmetic ==
    ASSUME NEW p \in Nat, NEW i \in Nat, (p % 4) + i < 4
    PROVE  (p + i) \div 4 = p \div 4 /\ (p + i) % 4 = (p % 4) + i
OBVIOUS

\* A load that stays in a word fills the places of its bytes.
LEMMA LoadSpan ==
    ASSUME NEW p \in Nat, NEW n \in Nat, (p % 4) + n <= 4
    PROVE  Load(p, n, p \div 4, 8 * (p % 4)) = Span(p, p + n - 1)
<1>1. \A i \in 0..(n - 1) : Place(p + i) = <<p + i, p \div 4, 8 * (p % 4) + 8 * i>>
  <2> SUFFICES ASSUME NEW i \in 0..(n - 1)
               PROVE  Place(p + i) = <<p + i, p \div 4, 8 * (p % 4) + 8 * i>>
    OBVIOUS
  <2>1. (p + i) \div 4 = p \div 4 /\ (p + i) % 4 = (p % 4) + i
    BY WordArithmetic
  <2> QED BY <2>1 DEF Place
<1>2. \A q \in p..(p + n - 1) : q - p \in 0..(n - 1) /\ q = p + (q - p)
  OBVIOUS
<1>3. \A i \in 0..(n - 1) : p + i \in p..(p + n - 1)
  OBVIOUS
<1>4. Load(p, n, p \div 4, 8 * (p % 4)) = {Place(p + i) : i \in 0..(n - 1)}
  BY <1>1, Zenon DEF Load
<1>5. {Place(p + i) : i \in 0..(n - 1)} = Span(p, p + n - 1)
  BY <1>2, <1>3, Zenon DEF Span
<1> QED BY <1>4, <1>5

\* Two spans that meet are one.
LEMMA SpanJoin ==
    ASSUME NEW p \in Nat, NEW q \in Nat, NEW r \in Int, p <= q, q <= r + 1
    PROVE  Span(p, q - 1) \union Span(q, r) = Span(p, r)
<1>1. \A n : n \in p..r <=> n \in p..(q - 1) \/ n \in q..r
  OBVIOUS
<1> QED BY <1>1 DEF Span

\* Pieces of m bytes one after the other.
LEMMA SpanUnion ==
    ASSUME NEW p \in Nat, NEW m \in {1, 2, 4}, NEW k \in Nat
    PROVE  UNION {Span(p + m * i, p + m * i + (m - 1)) : i \in 0..(k - 1)} = Span(p, p + m * k - 1)
<1>1. ASSUME NEW i \in 0..(k - 1), NEW n \in (p + m * i)..(p + m * i + (m - 1))
      PROVE  n \in p..(p + m * k - 1)
  OBVIOUS
<1>2. ASSUME NEW n \in p..(p + m * k - 1)
      PROVE  \E i \in 0..(k - 1) : n \in (p + m * i)..(p + m * i + (m - 1))
  <2>1. (n - p) \div m \in 0..(k - 1)
    OBVIOUS
  <2>2. n \in (p + m * ((n - p) \div m))..(p + m * ((n - p) \div m) + (m - 1))
    OBVIOUS
  <2> QED BY <2>1, <2>2
<1> QED BY <1>1, <1>2 DEF Span

-----------------------------------------------------------------------------
(* The loads of the hash functions of words.                               *)

\* Words, beginning on one of the key.
LEMMA Words4 ==
    ASSUME NEW k \in Nat, k % 4 = 0, NEW m \in Nat
    PROVE  UNION {Load(k + 4 * i, 4, k \div 4 + i, 0) : i \in 0..(m - 1)} = Span(k, k + 4 * m - 1)
<1>1. ASSUME NEW i \in 0..(m - 1)
      PROVE  Load(k + 4 * i, 4, k \div 4 + i, 0) = Span(k + 4 * i, k + 4 * i + 3)
  <2>1. (k + 4 * i) % 4 = 0 /\ (k + 4 * i) \div 4 = k \div 4 + i
    OBVIOUS
  <2>2. /\ k + 4 * i \in Nat /\ k + 4 * i + 4 - 1 = k + 4 * i + 3
        /\ ((k + 4 * i) % 4) + 4 <= 4 /\ 8 * ((k + 4 * i) % 4) = 0
    BY <2>1
  <2> QED BY <2>1, <2>2, LoadSpan
<1>2. UNION {Load(k + 4 * i, 4, k \div 4 + i, 0) : i \in 0..(m - 1)}
        = UNION {Span(k + 4 * i, k + 4 * i + 3) : i \in 0..(m - 1)}
  BY <1>1, Zenon
<1> QED BY <1>2, SpanUnion

\* Halves.
LEMMA Words2 ==
    ASSUME NEW k \in Nat, k % 4 = 0, NEW m \in Nat
    PROVE  UNION {Load(k + 2 * i, 2, k \div 4 + i \div 2, 16 * (i % 2)) : i \in 0..(m - 1)}
             = Span(k, k + 2 * m - 1)
<1>1. ASSUME NEW i \in 0..(m - 1)
      PROVE  Load(k + 2 * i, 2, k \div 4 + i \div 2, 16 * (i % 2)) = Span(k + 2 * i, k + 2 * i + 1)
  <2>1. (k + 2 * i) % 4 = 2 * (i % 2) /\ (k + 2 * i) \div 4 = k \div 4 + i \div 2
    OBVIOUS
  <2>2. /\ k + 2 * i \in Nat /\ k + 2 * i + 2 - 1 = k + 2 * i + 1
        /\ ((k + 2 * i) % 4) + 2 <= 4 /\ 8 * ((k + 2 * i) % 4) = 16 * (i % 2)
    BY <2>1
  <2> QED BY <2>1, <2>2, LoadSpan
<1>2. UNION {Load(k + 2 * i, 2, k \div 4 + i \div 2, 16 * (i % 2)) : i \in 0..(m - 1)}
        = UNION {Span(k + 2 * i, k + 2 * i + 1) : i \in 0..(m - 1)}
  BY <1>1, Zenon
<1> QED BY <1>2, SpanUnion

\* Single bytes.
LEMMA Words1 ==
    ASSUME NEW k \in Nat, k % 4 = 0, NEW m \in Nat
    PROVE  UNION {Load(k + i, 1, k \div 4 + i \div 4, 8 * (i % 4)) : i \in 0..(m - 1)}
             = Span(k, k + m - 1)
<1>1. ASSUME NEW i \in 0..(m - 1)
      PROVE  Load(k + i, 1, k \div 4 + i \div 4, 8 * (i % 4)) = Span(k + 1 * i, k + 1 * i + 0)
  <2>1. (k + i) % 4 = i % 4 /\ (k + i) \div 4 = k \div 4 + i \div 4
    OBVIOUS
  <2>2. /\ k + i \in Nat /\ k + i + 1 - 1 = k + i /\ ((k + i) % 4) + 1 <= 4
        /\ k + 1 * i = k + i /\ k + 1 * i + 0 = k + i
    BY <2>1
  <2> QED BY <2>1, <2>2, LoadSpan
<1>2. UNION {Load(k + i, 1, k \div 4 + i \div 4, 8 * (i % 4)) : i \in 0..(m - 1)}
        = UNION {Span(k + 1 * i, k + 1 * i + 0) : i \in 0..(m - 1)}
  BY <1>1, Zenon
<1>3. 1 * m = m
  OBVIOUS
<1>4. UNION {Span(k + 1 * i, k + 1 * i + (1 - 1)) : i \in 0..(m - 1)} = Span(k, k + 1 * m - 1)
  BY SpanUnion
<1>5. 1 - 1 = 0
  OBVIOUS
<1> QED BY <1>2, <1>3, <1>4, <1>5

-----------------------------------------------------------------------------
(* The invariant: the bytes before key have been taken, each in its place. *)

Single(p) == <<p, p, 0>>
Singles(n) == {Single(p) : p \in 0..(n - 1)}

WholeKey == 0..(len - 1)
Readable(p) == \/ p \in WholeKey
               \/ align % 4 = 0 /\ \E q \in WholeKey : p \div 4 = q \div 4

CallTypes ==
    /\ stage \in {"idle", "loop", "tail", "final", "done"}
    /\ func \in Functions
    /\ len \in Nat /\ align \in Nat /\ key \in 0..len /\ length \in Nat
    /\ stage = "idle" => key = 0 /\ length = 0 /\ len = 0 /\ taken = {} /\ read = {}
    /\ \A t \in taken : t[1] \in WholeKey /\ t[3] \in 0..24
    /\ \A p \in read : Readable(p)

IsBlocks(s) ==
    /\ s \in Seq({s[b] : b \in DOMAIN s})
    /\ \A b \in DOMAIN s : DOMAIN s[b] = 0..63
BlockTypes == IsBlocks(blocks)

\* murmur, hashForBytes, jenkins.
WordsInv ==
    func \in Words \union {"jenkins"} =>
        /\ length = len - key
        /\ stage \in {"loop", "tail"} => key % 4 = 0 /\ taken = Span(0, key - 1)
        /\ stage = "tail" /\ func \in Words => length < 4
        /\ stage = "done" => taken = Span(0, len - 1)

\* crc16 to fnv1a_32.
BytesInv ==
    func \in Bytes =>
        /\ length = len - key
        /\ stage = "loop" => taken = Singles(key)
        /\ stage = "done" => taken = Singles(len)

\* hsieh advances by half of what it reads.
HsiehInv ==
    func = "hsieh" /\ stage \in {"loop", "tail"} =>
        /\ length <= len \div 4 /\ key = 2 * (len \div 4 - length)
        /\ stage = "tail" => length = 0

MD5Inv ==
    /\ func = "md5" /\ stage = "loop" => length = len
    /\ stage = "final" => func = "md5"

HashInv == CallTypes /\ BlockTypes /\ WordsInv /\ BytesInv /\ HsiehInv /\ MD5Inv

\* At the end all bytes have been taken: the invariant implies the property.
LEMMA HashSafe == HashInv => SameAtEveryAlignment
<1> SUFFICES ASSUME HashInv PROVE SameAtEveryAlignment
  OBVIOUS
<1>1. HashTypeOK
  BY DEF HashInv, CallTypes, BlockTypes, WordsInv, BytesInv, IsBlocks, HashTypeOK, WholeKey, Functions
<1>2. ASSUME stage = "done", func \in Words \union {"jenkins"}
      PROVE  taken = {<<p, p \div 4, 8 * (p % 4)>> : p \in 0..(len - 1)}
  BY <1>2 DEF HashInv, WordsInv, Span, Place
<1>3. ASSUME stage = "done", func \in Bytes
      PROVE  taken = {<<p, p, 0>> : p \in 0..(len - 1)}
  BY <1>3 DEF HashInv, BytesInv, Singles, Single
<1>4. \A p \in read : \/ p \in 0..(len - 1)
                      \/ align % 4 = 0 /\ \E q \in 0..(len - 1) : p \div 4 = q \div 4
  BY DEF HashInv, CallTypes, Readable, WholeKey
<1> QED BY <1>1, <1>2, <1>3, <1>4 DEF SameAtEveryAlignment

\* A call begins with no block digested.
LEMMA NoBlocks == IsBlocks(<<>>)
BY DEF IsBlocks

\* Nothing has been taken before the first call.
LEMMA HashInitially == HashInit => HashInv
BY NoBlocks DEF HashInit, HashInv, CallTypes, BlockTypes, WordsInv, BytesInv, HsiehInv, MD5Inv,
                Functions, Words, Bytes

\* The places of a span or of single bytes of the key are in it.
LEMMA SpanTypes ==
    ASSUME NEW p \in Nat, NEW q \in Int, NEW t \in Span(p, q)
    PROVE  t[1] \in p..q /\ t[3] \in 0..24
BY DEF Span, Place

\* A call begins at the first byte of its key.
LEMMA CallStep ==
    ASSUME HashInv, NEW name \in Names, NEW n \in Lengths, NEW a \in Alignments, Call(name, n, a)
    PROVE  HashInv'
<1>1. func' \in Functions
  BY DEF Call, hashfuncFromName, Functions, Words
<1>2. /\ stage' = "loop" /\ len' = n /\ align' = a /\ key' = 0 /\ taken' = {} /\ read' = {}
      /\ length' = (IF func' = "hsieh" THEN n \div 4 ELSE n) /\ blocks' = blocks
  BY DEF Call, HashInv, CallTypes
<1>3. n \in Nat /\ a \in Nat
  BY LengthsAssumption
<1>4. CallTypes'
  BY <1>1, <1>2, <1>3 DEF CallTypes
<1>5. WordsInv' /\ BytesInv'
  BY <1>2, <1>3 DEF WordsInv, BytesInv, Words, Bytes, Span, Singles
<1>6. HsiehInv' /\ MD5Inv'
  BY <1>2, <1>3 DEF HsiehInv, MD5Inv
<1>7. BlockTypes'
  BY <1>2 DEF HashInv, BlockTypes
<1> QED BY <1>4, <1>5, <1>6, <1>7 DEF HashInv

\* What a step that is not a call or a return has to show of taken and read.
LEMMA TakeTypes ==
    ASSUME HashInv, NEW places, NEW bytes, Take(places, bytes), stage' # "idle",
           stage' \in {"loop", "tail", "done"}, key' \in 0..len, length' \in Nat,
           \A t \in places : t[1] \in WholeKey /\ t[3] \in 0..24,
           \A p \in bytes : Readable(p)
    PROVE  CallTypes' /\ BlockTypes'
<1>1. /\ func' = func /\ len' = len /\ align' = align /\ blocks' = blocks
      /\ taken' = taken \union places /\ read' = read \union bytes
  BY DEF Take, call
<1>2. WholeKey' = WholeKey /\ \A p : Readable(p)' = Readable(p)
  BY <1>1 DEF WholeKey, Readable
<1>3. \A t \in taken' : t[1] \in WholeKey' /\ t[3] \in 0..24
  BY <1>1, <1>2 DEF HashInv, CallTypes
<1>4. \A p \in read' : Readable(p)'
  BY <1>1, <1>2 DEF HashInv, CallTypes
<1>5. CallTypes'
  BY <1>1, <1>3, <1>4 DEF HashInv, CallTypes
<1> QED BY <1>1, <1>5 DEF HashInv, BlockTypes

\* A step that only leaves the loop.
LEMMA EndTypes ==
    ASSUME HashInv, stage' \in {"tail", "done"}, UNCHANGED <<call, key, length, taken, read, blocks>>
    PROVE  CallTypes' /\ BlockTypes'
BY DEF HashInv, CallTypes, BlockTypes, call, WholeKey, Readable

\* One byte more, as crc and fnv take it.
LEMMA Bytewise ==
    ASSUME NEW k \in Nat
    PROVE  /\ Load(k, 1, k, 0) = {Single(k)}
           /\ Singles(k) \union {Single(k)} = Singles(k + 1)
<1>1. 0..(1 - 1) = {0} /\ k + 0 = k /\ 0 + 8 * 0 = 0
  OBVIOUS
<1>2. Load(k, 1, k, 0) = {<<k + i, k, 0 + 8 * i>> : i \in {0}}
  BY <1>1 DEF Load
<1>3. Load(k, 1, k, 0) = {Single(k)}
  BY <1>1, <1>2 DEF Single
<1>4. \A p : p \in 0..(k + 1 - 1) <=> p \in 0..(k - 1) \/ p = k
  OBVIOUS
<1> QED BY <1>3, <1>4 DEF Singles

\* crc16, crc32, fnv: one byte, or the end of the key.
LEMMA ByteStepKeeps == ASSUME HashInv, ByteStep PROVE HashInv'
<1> USE DEF Bytes, Words
<1>0. stage = "loop" /\ func \in Bytes /\ key \in 0..len /\ len \in Nat /\ length = len - key
      /\ taken = Singles(key)
  BY DEF ByteStep, HashInv, CallTypes, BytesInv
<1>1. CASE length > 0
  <2>1. /\ Take(Load(key, 1, key, 0), {key}) /\ key' = key + 1 /\ length' = length - 1
        /\ stage' = "loop" /\ func' = func /\ len' = len
    BY <1>0, <1>1 DEF ByteStep, Advance, Take, call
  <2>2. key \in WholeKey /\ Load(key, 1, key, 0) = {Single(key)} /\ key + 1 \in 0..len /\ length - 1 \in Nat
    BY <1>0, <1>1, Bytewise DEF WholeKey
  <2>3. Single(key)[1] \in WholeKey /\ Single(key)[3] \in 0..24
    BY <2>2 DEF Single
  <2>4. CallTypes' /\ BlockTypes'
    BY <2>1, <2>2, <2>3, TakeTypes DEF Readable
  <2>5. taken' = Singles(key')
    BY <1>0, <2>1, <2>2, Bytewise DEF Take
  <2>6. WordsInv' /\ BytesInv' /\ HsiehInv' /\ MD5Inv'
    BY <1>0, <2>1, <2>5 DEF WordsInv, BytesInv, HsiehInv, MD5Inv
  <2> QED BY <2>4, <2>6 DEF HashInv
<1>2. CASE ~(length > 0)
  <2>1. stage' = "done" /\ UNCHANGED <<call, key, length, taken, read, blocks>>
    BY <1>0, <1>2 DEF ByteStep
  <2>2. func' = func /\ len' = len /\ key' = key /\ length' = length /\ taken' = taken
    BY <2>1 DEF call
  <2>3. key = len
    BY <1>0, <1>2
  <2>4. WordsInv' /\ BytesInv' /\ HsiehInv' /\ MD5Inv'
    BY <1>0, <2>1, <2>2, <2>3 DEF WordsInv, BytesInv, HsiehInv, MD5Inv
  <2> QED BY <2>1, <2>4, EndTypes DEF HashInv
<1> QED BY <1>1, <1>2

\* After a call everything is as before the first.
LEMMA ReturnKeeps == ASSUME HashInv, Return PROVE HashInv'
<1>1. /\ stage' = "idle" /\ func' = "hashForBytes" /\ len' = 0 /\ align' = 0 /\ key' = 0
      /\ length' = 0 /\ taken' = {} /\ read' = {} /\ blocks' = <<>>
  BY DEF Return
<1> QED BY <1>1, NoBlocks DEF HashInv, CallTypes, BlockTypes, WordsInv, BytesInv, HsiehInv, MD5Inv,
                           Functions, Words, Bytes

\* The bytes and shifts of a load.
LEMMA LoadTypes ==
    ASSUME NEW p \in Nat, NEW n \in Nat, NEW w, NEW s \in Nat, NEW t \in Load(p, n, w, s)
    PROVE  t[1] \in p..(p + n - 1) /\ t[3] = s + 8 * (t[1] - p)
<1>1. PICK i \in 0..(n - 1) : t = <<p + i, w, s + 8 * i>>
  BY DEF Load
<1>2. t[1] = p + i /\ t[3] = s + 8 * i
  BY <1>1
<1> QED BY <1>2

\* A step of murmur, hashForBytes or jenkins that takes the next n bytes.
LEMMA SpanStep ==
    ASSUME HashInv, func \in Words \union {"jenkins"}, stage \in {"loop", "tail"},
           NEW n \in Nat, n <= length,
           NEW bytes, \A p \in bytes : Readable(p), Take(Span(key, key + n - 1), bytes),
           \/ stage' = "loop" /\ key' = key + n /\ length' = length - n /\ n % 4 = 0
           \/ stage' = "done" /\ key' = key /\ length' = length /\ n = length
    PROVE  HashInv'
<1>1. /\ key \in Nat /\ key <= len /\ len \in Nat /\ length = len - key /\ key % 4 = 0
      /\ taken = Span(0, key - 1)
  BY DEF HashInv, CallTypes, WordsInv
<1>2. func' = func /\ len' = len /\ taken' = taken \union Span(key, key + n - 1)
  BY DEF Take, call
<1>3. \A t \in Span(key, key + n - 1) : t[1] \in WholeKey /\ t[3] \in 0..24
  <2> SUFFICES ASSUME NEW t \in Span(key, key + n - 1)
               PROVE  t[1] \in WholeKey /\ t[3] \in 0..24
    OBVIOUS
  <2>1. t[1] \in key..(key + n - 1) /\ t[3] \in 0..24
    BY <1>1, SpanTypes
  <2> QED BY <1>1, <2>1 DEF WholeKey
<1>4. key' \in 0..len /\ length' \in Nat /\ stage' \in {"loop", "done"}
  BY <1>1
<1>5. CallTypes' /\ BlockTypes'
  BY <1>3, <1>4, TakeTypes
<1>6. taken' = Span(0, key + n - 1)
  BY <1>1, <1>2, SpanJoin
<1>7. WordsInv'
  <2>1. CASE stage' = "loop"
    <3>1. (key + n) % 4 = 0 /\ length - n = len - (key + n)
      BY <1>1, <2>1
    <3>2. key' = key + n /\ length' = length - n
      BY <2>1
    <3>3. key' - 1 = key + n - 1 /\ length' = len' - key'
      BY <1>1, <1>2, <3>1, <3>2
    <3>4. taken' = Span(0, key' - 1) /\ key' % 4 = 0
      BY <1>6, <3>1, <3>2, <3>3
    <3> QED BY <2>1, <3>3, <3>4 DEF WordsInv
  <2>2. CASE stage' = "done"
    <3>1. key + n = len
      BY <1>1, <2>2
    <3> QED BY <1>1, <1>2, <1>6, <2>2, <3>1 DEF WordsInv
  <2> QED BY <1>4, <2>1, <2>2
<1>8. BytesInv' /\ HsiehInv' /\ MD5Inv'
  BY <1>2, <1>4 DEF BytesInv, HsiehInv, MD5Inv, Words, Bytes
<1> QED BY <1>5, <1>7, <1>8 DEF HashInv

\* The step from the loop to the tail.
LEMMA ToTail ==
    ASSUME HashInv, stage = "loop", stage' = "tail", func \notin Bytes, func # "md5",
           func \in Words => length < 4, func = "hsieh" => length = 0,
           UNCHANGED <<call, key, length, taken, read, blocks>>
    PROVE  HashInv'
<1>1. func' = func /\ len' = len /\ key' = key /\ length' = length /\ taken' = taken
  BY DEF call
<1>2. WordsInv' /\ BytesInv' /\ HsiehInv' /\ MD5Inv'
  BY <1>1 DEF HashInv, WordsInv, BytesInv, HsiehInv, MD5Inv
<1> QED BY <1>2, EndTypes DEF HashInv

\* The bytes of a span.
LEMMA SpanBytes ==
    ASSUME NEW p \in Nat, NEW q \in Int
    PROVE  PlacesOf(Span(p, q)) = p..q
<1>1. \A n : Place(n)[1] = n
  BY DEF Place
<1> QED BY <1>1, Zenon DEF PlacesOf, Span

\* In a step of the loop or the tail, the bytes from key to the end.
LEMMA InKey ==
    ASSUME HashInv, NEW n \in Nat, key + n <= len
    PROVE  \A p \in PlacesOf(Span(key, key + n - 1)) : Readable(p)
<1>1. key \in Nat /\ len \in Nat
  BY DEF HashInv, CallTypes
<1>2. PlacesOf(Span(key, key + n - 1)) = key..(key + n - 1)
  BY <1>1, SpanBytes
<1> QED BY <1>1, <1>2 DEF Readable, WholeKey

\* murmur and hashForBytes: four bytes, or the end of the loop.
LEMMA WordStepKeeps == ASSUME HashInv, WordStep PROVE HashInv'
<1>1. stage = "loop" /\ func \in Words /\ func \notin Bytes /\ func \notin {"hsieh", "md5"}
  BY DEF WordStep, Words, Bytes
<1>2. key \in Nat /\ length \in Nat /\ len \in Nat /\ length = len - key /\ key % 4 = 0
  BY <1>1 DEF HashInv, CallTypes, WordsInv
<1>3. CASE length >= 4
  <2>1. /\ Take(Load(key, 4, key \div 4, 0), key..(key + 3)) /\ stage' = "loop"
        /\ key' = key + 4 /\ length' = length - 4
    BY <1>1, <1>3 DEF WordStep, Advance
  <2>2. Load(key, 4, key \div 4, 0) = Span(key, key + 4 - 1)
    <3>1. (key % 4) + 4 <= 4 /\ 8 * (key % 4) = 0
      BY <1>2
    <3> QED BY <1>2, <3>1, LoadSpan
  <2>3. \A p \in key..(key + 3) : Readable(p)
    <3>1. key + 4 <= len /\ key + 4 - 1 = key + 3
      BY <1>2, <1>3
    <3>2. PlacesOf(Span(key, key + 4 - 1)) = key..(key + 4 - 1)
      BY <1>2, SpanBytes
    <3>3. \A p \in PlacesOf(Span(key, key + 4 - 1)) : Readable(p)
      BY <3>1, InKey
    <3> QED BY <3>1, <3>2, <3>3
  <2> QED BY <1>1, <1>2, <1>3, <2>1, <2>2, <2>3, SpanStep
<1>4. CASE ~(length >= 4)
  <2>1. length < 4
    BY <1>2, <1>4
  <2>2. stage' = "tail" /\ UNCHANGED <<call, key, length, taken, read, blocks>>
    BY <1>1, <1>4 DEF WordStep
  <2> QED BY <1>1, <2>1, <2>2, ToTail
<1> QED BY <1>3, <1>4

\* Their last three bytes at most, which fill the word that begins at key.
LEMMA WordTailKeeps == ASSUME HashInv, WordTail PROVE HashInv'
<1> DEFINE w == key \div 4
           places == UNION {Load(key + i, 1, w, 8 * i) : i \in 0..(length - 1)}
<1>1. /\ stage = "tail" /\ func \in Words /\ Take(places, PlacesOf(places)) /\ stage' = "done"
      /\ key' = key /\ length' = length
  BY DEF WordTail
<1>2. /\ key \in Nat /\ length \in Nat /\ len \in Nat /\ length = len - key /\ key % 4 = 0
      /\ length < 4
  BY <1>1 DEF HashInv, CallTypes, WordsInv
<1>3. \A i \in 0..(length - 1) : i \div 4 = 0 /\ i % 4 = i /\ w + 0 = w
  BY <1>2
<1>4. places = UNION {Load(key + i, 1, w + i \div 4, 8 * (i % 4)) : i \in 0..(length - 1)}
  BY <1>3
<1>5. places = Span(key, key + length - 1)
  BY <1>2, <1>4, Words1
<1> HIDE DEF places
<1>6. key + length <= len /\ length <= length
  BY <1>2
<1>7. \A p \in PlacesOf(places) : Readable(p)
  BY <1>2, <1>5, <1>6, InKey
<1>8. Take(Span(key, key + length - 1), PlacesOf(places))
  BY <1>1, <1>5
<1> QED BY <1>1, <1>2, <1>6, <1>7, <1>8, SpanStep

\* A block of twelve bytes, the same on each of the three code paths.
LEMMA JenkinsStepKeeps == ASSUME HashInv, JenkinsStep PROVE HashInv'
<1> DEFINE w == key \div 4
           fours == UNION {Load(key + 4 * k, 4, w + k, 0) : k \in 0..2}
           twos == UNION {Load(key + 2 * k, 2, w + k \div 2, 16 * (k % 2)) : k \in 0..5}
           ones == UNION {Load(key + k, 1, w + k \div 4, 8 * (k % 4)) : k \in 0..11}
           places == IF Aligned4 THEN fours ELSE IF Aligned2 THEN twos ELSE ones
<1>1. stage = "loop" /\ func = "jenkins" /\ func \notin Bytes /\ func \notin Words
  BY DEF JenkinsStep, Words, Bytes
<1>2. key \in Nat /\ length \in Nat /\ len \in Nat /\ length = len - key /\ key % 4 = 0
  BY <1>1 DEF HashInv, CallTypes, WordsInv
<1>3. CASE length > 12
  <2>1. /\ Take(places, PlacesOf(places)) /\ stage' = "loop"
        /\ key' = key + 12 /\ length' = length - 12
    BY <1>1, <1>3 DEF JenkinsStep, Advance
  <2>2. fours = Span(key, key + 12 - 1)
    <3>1. 3 - 1 = 2 /\ key + 4 * 3 - 1 = key + 12 - 1
      BY <1>2
    <3> QED BY <1>2, <3>1, Words4
  <2>3. twos = Span(key, key + 12 - 1)
    <3>1. 6 - 1 = 5 /\ key + 2 * 6 - 1 = key + 12 - 1
      BY <1>2
    <3> QED BY <1>2, <3>1, Words2
  <2>4. ones = Span(key, key + 12 - 1)
    <3>1. 12 - 1 = 11
      OBVIOUS
    <3> QED BY <1>2, <3>1, Words1
  <2> HIDE DEF fours, twos, ones
  <2>5. places = Span(key, key + 12 - 1)
    BY <2>2, <2>3, <2>4
  <2> HIDE DEF places
  <2>6. key + 12 <= len
    BY <1>2, <1>3
  <2>7. \A p \in PlacesOf(places) : Readable(p)
    BY <2>5, <2>6, InKey
  <2> QED BY <1>1, <1>2, <1>3, <2>1, <2>5, <2>7, SpanStep
<1>4. CASE ~(length > 12)
  <2>1. stage' = "tail" /\ UNCHANGED <<call, key, length, taken, read, blocks>>
    BY <1>1, <1>4 DEF JenkinsStep
  <2> QED BY <1>1, <2>1, ToTail
<1> QED BY <1>3, <1>4

\* The last block on each path; only the one of aligned words reads beyond the
\* key, within the word its last byte is in.
LEMMA JenkinsTailKeeps == ASSUME HashInv, JenkinsTail PROVE HashInv'
<1> DEFINE tail == IF Aligned4 THEN Tail4 ELSE IF Aligned2 THEN Tail2 ELSE Tail1
           whole == Span(key, key + length - 1)
<1>1. /\ stage = "tail" /\ func = "jenkins" /\ Take(tail.places, tail.bytes) /\ stage' = "done"
      /\ key' = key /\ length' = length
  BY DEF JenkinsTail
<1>2. key \in Nat /\ length \in Nat /\ len \in Nat /\ length = len - key /\ key % 4 = 0
  BY <1>1 DEF HashInv, CallTypes, WordsInv
<1>3. key + length <= len /\ length <= length
  BY <1>2
<1>4. \A p \in PlacesOf(whole) : Readable(p)
  BY <1>2, <1>3, InKey
<1>5. CASE Aligned4
  <2> DEFINE full == length \div 4
             part == length % 4
             words == UNION {Load(key + 4 * k, 4, key \div 4 + k, 0) : k \in 0..(full - 1)}
             rest == Load(key + 4 * full, part, key \div 4 + full, 0)
             read4 == key..(key + 4 * full + (IF part > 0 THEN 3 ELSE -1))
  <2>1. /\ full \in Nat /\ part \in 0..3 /\ length = 4 * full + part
        /\ (key + 4 * full) % 4 = 0 /\ (key + 4 * full) \div 4 = key \div 4 + full
        /\ key + 4 * full \in Nat
    BY <1>2
  <2>2. Tail4.places = words \union rest /\ Tail4.bytes = read4
    BY DEF Tail4
  <2>3. words = Span(key, key + 4 * full - 1)
    BY <1>2, <2>1, Words4
  <2>4. rest = Span(key + 4 * full, key + 4 * full + part - 1)
    <3> HIDE DEF full, part
    <3>1. ((key + 4 * full) % 4) + part <= 4 /\ 8 * ((key + 4 * full) % 4) = 0 /\ part \in Nat
      BY <2>1
    <3> QED BY <2>1, <3>1, LoadSpan
  <2>5. words \union rest = whole
    <3> HIDE DEF full, part, words, rest
    <3>1. /\ key <= key + 4 * full /\ key + 4 * full <= key + length - 1 + 1
          /\ key + 4 * full + part - 1 = key + length - 1 /\ key + length - 1 \in Int
      BY <1>2, <2>1
    <3> QED BY <1>2, <2>1, <2>3, <2>4, <3>1, SpanJoin
  <2>6. \A p \in read4 : Readable(p)
    <3> SUFFICES ASSUME NEW p \in read4 PROVE Readable(p)
      OBVIOUS
    <3>1. CASE p < len
      BY <1>2, <3>1 DEF Readable, WholeKey
    <3>2. CASE p >= len
      <4>1. part > 0 /\ key + 4 * full \in WholeKey /\ p \div 4 = (key + 4 * full) \div 4
        BY <1>2, <2>1, <3>2 DEF WholeKey
      <4> QED BY <1>5, <4>1 DEF Readable, Aligned4
    <3> QED BY <1>2, <3>1, <3>2
  <2>7. tail.places = whole /\ tail.bytes = read4
    BY <1>5, <2>2, <2>5
  <2> HIDE DEF read4, tail
  <2>8. Take(whole, read4)
    BY <1>1, <2>7
  <2> QED BY <1>1, <1>2, <1>3, <2>6, <2>8, SpanStep
<1>6. CASE ~Aligned4 /\ Aligned2
  <2> DEFINE halves == length \div 2
             twos == UNION {Load(key + 2 * k, 2, key \div 4 + k \div 2, 16 * (k % 2)) : k \in 0..(halves - 1)}
             odd == IF length % 2 = 1
                    THEN Load(key + 2 * halves, 1, key \div 4 + halves \div 2, 16 * (halves % 2))
                    ELSE {}
  <2>1. Tail2.places = twos \union odd /\ Tail2.bytes = PlacesOf(twos \union odd)
    BY DEF Tail2
  <2>2. halves \in Nat /\ length = 2 * halves + (length % 2) /\ length % 2 \in 0..1
    BY <1>2
  <2>3. twos = Span(key, key + 2 * halves - 1)
    BY <1>2, <2>2, Words2
  <2>4. ASSUME length % 2 = 1 PROVE twos \union odd = whole
    <3>1. /\ (key + 2 * halves) % 4 = 2 * (halves % 2)
          /\ (key + 2 * halves) \div 4 = key \div 4 + halves \div 2
      <4> HIDE DEF halves
      <4> QED BY <1>2, <2>2
    <3>2. odd = Span(key + 2 * halves, key + 2 * halves + 1 - 1)
      <4> HIDE DEF halves
      <4>1. /\ ((key + 2 * halves) % 4) + 1 <= 4 /\ 8 * ((key + 2 * halves) % 4) = 16 * (halves % 2)
            /\ key + 2 * halves \in Nat
        BY <1>2, <2>2, <3>1
      <4> QED BY <2>4, <3>1, <4>1, LoadSpan
    <3>3. twos \union odd = whole
      <4> HIDE DEF halves, twos, odd
      <4>1. /\ key <= key + 2 * halves /\ key + 2 * halves <= key + length - 1 + 1
            /\ key + 2 * halves + 1 - 1 = key + length - 1 /\ key + length - 1 \in Int
            /\ key + 2 * halves \in Nat
        BY <1>2, <2>2, <2>4
      <4>2. odd = Span(key + 2 * halves, key + length - 1)
        BY <3>2, <4>1
      <4>3. length - 1 \in Int /\ key + length - 1 = key + (length - 1)
        BY <1>2
      <4> QED BY <1>2, <2>2, <2>3, <4>1, <4>2, <4>3, SpanJoin
    <3> QED BY <3>3
  <2>5. ASSUME length % 2 = 0 PROVE twos \union odd = whole
    <3>1. odd = {} /\ length = 2 * halves
      BY <1>2, <2>5
    <3> HIDE DEF halves, twos, odd
    <3> QED BY <2>3, <3>1
  <2>6. twos \union odd = whole
    BY <2>2, <2>4, <2>5
  <2>7. tail.places = whole /\ tail.bytes = PlacesOf(whole)
    BY <1>6, <2>1, <2>6
  <2> HIDE DEF tail
  <2>8. Take(whole, PlacesOf(whole))
    BY <1>1, <2>7
  <2> QED BY <1>1, <1>2, <1>3, <1>4, <2>8, SpanStep
<1>7. CASE ~Aligned4 /\ ~Aligned2
  <2> DEFINE ones == UNION {Load(key + k, 1, key \div 4 + k \div 4, 8 * (k % 4)) : k \in 0..(length - 1)}
  <2>1. Tail1.places = ones /\ Tail1.bytes = PlacesOf(ones)
    BY DEF Tail1
  <2>2. ones = whole
    BY <1>2, Words1
  <2>3. tail.places = whole /\ tail.bytes = PlacesOf(whole)
    BY <1>7, <2>1, <2>2
  <2> HIDE DEF tail
  <2>4. Take(whole, PlacesOf(whole))
    BY <1>1, <2>3
  <2> QED BY <1>1, <1>2, <1>3, <1>4, <2>4, SpanStep
<1> QED BY <1>5, <1>6, <1>7

\* hsieh reads four bytes and advances by two: it stays within the key.
LEMMA HsiehStepKeeps == ASSUME HashInv, HsiehStep PROVE HashInv'
<1> DEFINE round == key \div 2
           first == Load(key, 2, round, 0)
           second == Load(key + 2, 2, round, 11)
           places == first \union second
<1>1. stage = "loop" /\ func = "hsieh" /\ func \notin Words /\ func \notin Bytes /\ func # "md5"
  BY DEF HsiehStep, Words, Bytes
<1>2. /\ key \in Nat /\ length \in Nat /\ len \in Nat /\ round \in Nat
      /\ length <= len \div 4 /\ key = 2 * (len \div 4 - length)
  BY <1>1 DEF HashInv, CallTypes, HsiehInv
<1>3. CASE length > 0
  <2>1. /\ Take(places, PlacesOf(places)) /\ stage' = "loop"
        /\ key' = key + 2 /\ length' = length - 1
    BY <1>1, <1>3 DEF HsiehStep
  <2>2. key + 3 < len /\ key + 2 <= len /\ length - 1 \in Nat /\ key + 2 \in Nat
    BY <1>2, <1>3
  <2>3. \A t \in places : t[1] \in WholeKey /\ t[3] \in 0..24
    <3> SUFFICES ASSUME NEW t \in places PROVE t[1] \in WholeKey /\ t[3] \in 0..24
      OBVIOUS
    <3>1. CASE t \in first
      <4> HIDE DEF first, round
      <4>1. t \in Load(key, 2, round, 0)
        BY <3>1 DEF first
      <4>2. t[1] \in key..(key + 2 - 1) /\ t[3] = 0 + 8 * (t[1] - key)
        BY <1>2, <4>1, LoadTypes
      <4> QED BY <1>2, <2>2, <4>2 DEF WholeKey
    <3>2. CASE t \in second
      <4> HIDE DEF second, round
      <4>1. t \in Load(key + 2, 2, round, 11)
        BY <3>2 DEF second
      <4>2. t[1] \in (key + 2)..(key + 2 + 2 - 1) /\ t[3] = 11 + 8 * (t[1] - (key + 2))
        BY <1>2, <4>1, LoadTypes
      <4> QED BY <1>2, <2>2, <4>2 DEF WholeKey
    <3> QED BY <3>1, <3>2
  <2> HIDE DEF places
  <2>4. \A p \in PlacesOf(places) : Readable(p)
    BY <2>3 DEF PlacesOf, Readable
  <2>5. key' \in 0..len /\ length' \in Nat
    BY <1>2, <2>1, <2>2
  <2>6. CallTypes' /\ BlockTypes'
    BY <2>1, <2>3, <2>4, <2>5, TakeTypes
  <2>7. func' = func /\ len' = len
    BY <2>1 DEF Take, call
  <2>8. length - 1 <= len \div 4 /\ key + 2 = 2 * (len \div 4 - (length - 1))
    BY <1>2, <1>3
  <2>9. HsiehInv'
    BY <2>1, <2>7, <2>8 DEF HsiehInv
  <2>10. WordsInv' /\ BytesInv' /\ MD5Inv'
    BY <1>1, <2>1, <2>7 DEF WordsInv, BytesInv, MD5Inv
  <2> QED BY <2>6, <2>9, <2>10 DEF HashInv
<1>4. CASE ~(length > 0)
  <2>1. stage' = "tail" /\ UNCHANGED <<call, key, length, taken, read, blocks>>
    BY <1>1, <1>4 DEF HsiehStep
  <2>2. length = 0
    BY <1>2, <1>4
  <2> QED BY <1>1, <2>1, <2>2, ToTail
<1> QED BY <1>3, <1>4

\* What hsieh reads after its loop is in the key as well.
LEMMA HsiehTailKeeps == ASSUME HashInv, HsiehTail PROVE HashInv'
<1> DEFINE rem == len % 4
           w == len \div 4
           places == CASE rem = 3 -> Load(key, 2, w, 0) \union Load(key + 2, 1, w, 18)
                       [] rem = 2 -> Load(key, 2, w, 0)
                       [] rem = 1 -> Load(key, 1, w, 0)
                       [] OTHER -> {}
<1>1. /\ stage = "tail" /\ func = "hsieh" /\ func \notin Words /\ func \notin Bytes /\ func # "md5"
      /\ Take(places, PlacesOf(places)) /\ stage' = "done" /\ key' = key /\ length' = length
  BY DEF HsiehTail, Words, Bytes
<1>2. /\ key \in Nat /\ length \in Nat /\ len \in Nat /\ w \in Nat /\ rem \in 0..3
      /\ length = 0 /\ key = 2 * w /\ len = 4 * w + rem
  <2>1. key \in Nat /\ length \in Nat /\ len \in Nat /\ length = 0 /\ key = 2 * (len \div 4 - length)
    BY <1>1 DEF HashInv, CallTypes, HsiehInv
  <2> QED BY <2>1
<1> HIDE DEF w, rem
<1>0. \A t \in places : \/ rem \in {2, 3} /\ t \in Load(key, 2, w, 0)
                        \/ rem = 3 /\ t \in Load(key + 2, 1, w, 18)
                        \/ rem = 1 /\ t \in Load(key, 1, w, 0)
  BY <1>2
<1> HIDE DEF places
<1>3. \A t \in places : t[1] \in WholeKey /\ t[3] \in 0..24
  <2> SUFFICES ASSUME NEW t \in places PROVE t[1] \in WholeKey /\ t[3] \in 0..24
    OBVIOUS
  <2>1. \/ rem \in {2, 3} /\ t \in Load(key, 2, w, 0)
        \/ rem = 3 /\ t \in Load(key + 2, 1, w, 18)
        \/ rem = 1 /\ t \in Load(key, 1, w, 0)
    BY <1>0
  <2>2. CASE rem \in {2, 3} /\ t \in Load(key, 2, w, 0)
    <3>1. t[1] \in key..(key + 2 - 1) /\ t[3] = 0 + 8 * (t[1] - key)
      BY <1>2, <2>2, LoadTypes
    <3> QED BY <1>2, <2>2, <3>1 DEF WholeKey
  <2>3. CASE rem = 3 /\ t \in Load(key + 2, 1, w, 18)
    <3>1. t[1] \in (key + 2)..(key + 2 + 1 - 1) /\ t[3] = 18 + 8 * (t[1] - (key + 2))
      BY <1>2, <2>3, LoadTypes
    <3> QED BY <1>2, <2>3, <3>1 DEF WholeKey
  <2>4. CASE rem = 1 /\ t \in Load(key, 1, w, 0)
    <3>1. t[1] \in key..(key + 1 - 1) /\ t[3] = 0 + 8 * (t[1] - key)
      BY <1>2, <2>4, LoadTypes
    <3> QED BY <1>2, <2>4, <3>1 DEF WholeKey
  <2> QED BY <2>1, <2>2, <2>3, <2>4
<1>4. \A p \in PlacesOf(places) : Readable(p)
  BY <1>3 DEF PlacesOf, Readable
<1>5. key' \in 0..len /\ length' \in Nat
  BY <1>1, <1>2
<1>6. CallTypes' /\ BlockTypes'
  BY <1>1, <1>3, <1>4, <1>5, TakeTypes
<1>7. func' = func /\ len' = len
  BY <1>1 DEF Take, call
<1>8. WordsInv' /\ BytesInv' /\ HsiehInv' /\ MD5Inv'
  BY <1>1, <1>7 DEF WordsInv, BytesInv, HsiehInv, MD5Inv
<1> QED BY <1>6, <1>8 DEF HashInv

\* MD5 reads the whole key, in blocks and into its buffer.
LEMMA MD5UpdateKeeps == ASSUME HashInv, MD5_Update PROVE HashInv'
<1> DEFINE whole == length \div 64
           cut == [b \in 1..whole |-> [n \in 0..63 |-> Byte(64 * (b - 1) + n)]]
<1>1. /\ stage = "loop" /\ func = "md5" /\ func \notin Words /\ func \notin Bytes
      /\ length = len /\ len \in Nat /\ key \in 0..len
      /\ stage' = "final" /\ func' = func /\ len' = len /\ align' = align
      /\ key' = key /\ length' = length /\ taken' = taken
      /\ blocks' = cut /\ read' = 0..(length - 1)
  BY DEF MD5_Update, HashInv, CallTypes, MD5Inv, Words, Bytes, call
<1>2. BlockTypes'
  <2>1. whole \in Nat
    BY <1>1
  <2> HIDE DEF whole
  <2>2. DOMAIN cut = 1..whole /\ \A b \in 1..whole : DOMAIN cut[b] = 0..63
    OBVIOUS
  <2>3. cut \in Seq({cut[b] : b \in DOMAIN cut})
    <3>1. cut = [b \in 1..whole |-> cut[b]]
      OBVIOUS
    <3> HIDE DEF cut
    <3> QED BY <2>1, <2>2, <3>1
  <2> HIDE DEF cut
  <2> QED BY <1>1, <2>2, <2>3 DEF BlockTypes, IsBlocks
<1>3. CallTypes'
  BY <1>1 DEF HashInv, CallTypes, WholeKey, Readable
<1>4. WordsInv' /\ BytesInv' /\ HsiehInv' /\ MD5Inv'
  BY <1>1 DEF WordsInv, BytesInv, HsiehInv, MD5Inv
<1> QED BY <1>2, <1>3, <1>4 DEF HashInv


\* One block more.
LEMMA BlocksJoin ==
    ASSUME NEW s, IsBlocks(s), NEW t, DOMAIN t = 0..63
    PROVE  IsBlocks(s \o <<t>>)
<1> DEFINE A == {s[b] : b \in DOMAIN s}
           u == s \o <<t>>
<1>1. s \in Seq(A)
  BY DEF IsBlocks
<1>2. <<t>> \in Seq({t}) /\ Len(<<t>>) = 1 /\ <<t>>[1] = t
  OBVIOUS
<1>3. /\ u \in Seq(A \union {t}) /\ Len(s) \in Nat /\ DOMAIN s = 1..Len(s)
      /\ DOMAIN u = 1..(Len(s) + 1)
      /\ \A b \in 1..Len(s) : u[b] = s[b]
      /\ u[Len(s) + 1] = t
  <2> HIDE DEF A
  <2> QED BY <1>1
<1>4. \A b \in DOMAIN u : DOMAIN u[b] = 0..63
  <2> HIDE DEF u
  <2> SUFFICES ASSUME NEW b \in DOMAIN u PROVE DOMAIN u[b] = 0..63
    OBVIOUS
  <2>1. b \in DOMAIN s \/ b = Len(s) + 1
    BY <1>3
  <2> QED BY <1>3, <2>1 DEF IsBlocks
<1>5. u \in Seq({u[b] : b \in DOMAIN u})
  <2> HIDE DEF u, A
  <2>1. u = [b \in 1..(Len(s) + 1) |-> u[b]] /\ Len(s) + 1 \in Nat
    BY <1>3
  <2>2. DOMAIN u = 1..(Len(s) + 1)
    BY <1>3
  <2> QED BY <2>1, <2>2
<1> HIDE DEF u
<1>6. IsBlocks(u)
  BY <1>4, <1>5 DEF IsBlocks
<1> QED BY <1>6 DEF u

\* MD5 appends one or two blocks and reads nothing.
LEMMA MD5FinalKeeps == ASSUME HashInv, MD5_Final PROVE HashInv'
<1> DEFINE used == (ctx.lo % 64) + 1
           marked == [ctx.buffer EXCEPT ![used - 1] = Value(128)]
           spill == 64 - used < 8
           padded == IF spill THEN Filled(marked, 0, 55) ELSE Filled(marked, used, 55)
           last == [n \in 0..63 |-> IF n \in 56..59 THEN ByteOf(8 * ctx.lo, n - 56)
                                    ELSE IF n \in 60..63 THEN ByteOf(ctx.hi, n - 60) ELSE padded[n]]
           full == Filled(marked, used, 63)
           more == IF spill THEN <<full>> ELSE <<>>
<1>1. /\ stage = "final" /\ stage' = "done" /\ func = "md5" /\ func \notin Words /\ func \notin Bytes
      /\ func' = func /\ len' = len /\ align' = align /\ key' = key /\ length' = length
      /\ taken' = taken /\ read' = read
  BY DEF MD5_Final, HashInv, MD5Inv, call, Words, Bytes
<1>2. blocks' = blocks \o more \o <<last>>
  BY DEF MD5_Final
<1>3. DOMAIN last = 0..63 /\ DOMAIN full = 0..63
  BY DEF Filled
<1> HIDE DEF last, full, spill
<1>4. IsBlocks(blocks \o more)
  <2>1. CASE spill
    BY <1>3, <2>1, BlocksJoin DEF HashInv, BlockTypes
  <2>2. CASE ~spill
    <3>1. blocks \o <<>> = blocks
      BY DEF HashInv, BlockTypes, IsBlocks
    <3> QED BY <2>2, <3>1 DEF HashInv, BlockTypes
  <2> QED BY <2>1, <2>2
<1> HIDE DEF more
<1>5. BlockTypes'
  BY <1>2, <1>3, <1>4, BlocksJoin DEF BlockTypes
<1>6. CallTypes'
  BY <1>1 DEF HashInv, CallTypes, WholeKey, Readable
<1>7. WordsInv' /\ BytesInv' /\ HsiehInv' /\ MD5Inv'
  BY <1>1 DEF WordsInv, BytesInv, HsiehInv, MD5Inv
<1> QED BY <1>5, <1>6, <1>7 DEF HashInv

-----------------------------------------------------------------------------

\* Every step of a call keeps the invariant.
LEMMA HashInductive == HashInv /\ [HashNext]_hashVars => HashInv'
<1> SUFFICES ASSUME HashInv, [HashNext]_hashVars PROVE HashInv'
  OBVIOUS
<1>1. ASSUME NEW name \in Names, NEW n \in Lengths, NEW a \in Alignments, Call(name, n, a)
      PROVE  HashInv'
  BY <1>1, CallStep
<1>2. CASE UNCHANGED hashVars
  BY <1>2 DEF hashVars, call, HashInv, CallTypes, BlockTypes, WordsInv, BytesInv, HsiehInv, MD5Inv,
              WholeKey, Readable
<1> QED BY <1>1, <1>2, ByteStepKeeps, WordStepKeeps, WordTailKeeps, HsiehStepKeeps, HsiehTailKeeps,
           JenkinsStepKeeps, JenkinsTailKeeps, MD5UpdateKeeps, MD5FinalKeeps, ReturnKeeps DEF HashNext

\* Whatever the length of a key and wherever in the buffer it lies, the words
\* and bytes hashed are those of the key, each once and in its place, and no
\* call reads beyond the key but for the rest of an aligned word.
THEOREM HashedAlike == HashSpec => []SameAtEveryAlignment
<1>1. HashInit => HashInv
  BY HashInitially
<1>2. HashInv /\ [HashNext]_hashVars => HashInv'
  BY HashInductive
<1>3. HashInv => SameAtEveryAlignment
  BY HashSafe
<1> QED BY <1>1, <1>2, <1>3, PTL DEF HashSpec

-----------------------------------------------------------------------------
(* The message MD5 digests.                                                *)

\* Block b has the bytes of the message from 64 * (b - 1) on.
IsMessageBlock(s, b) == \A n \in 0..63 : s[b][n] = Message[64 * (b - 1) + n]

\* The two words of the length, and the message they end.
Low(n) == n % 2^29
High(n) == n \div 2^29

\* Before MD5_Final the whole blocks of the key have been digested and the buffer has the
\* rest; after it the blocks are those of the message.
DigestInv ==
    func = "md5" =>
        /\ stage = "final" =>
             /\ ctx = [lo |-> Low(len), hi |-> High(len), buffer |-> ctx.buffer]
             /\ ctx.buffer = [n \in 0..63 |-> IF n < len % 64 THEN Byte(64 * (len \div 64) + n)
                                              ELSE Junk]
             /\ Len(blocks) = len \div 64
             /\ \A b \in 1..(len \div 64) : \A n \in 0..63 : blocks[b][n] = Byte(64 * (b - 1) + n)
        /\ stage = "done" =>
             /\ Len(blocks) = ((len + 8) \div 64) + 1
             /\ \A b \in 1..Len(blocks) : IsMessageBlock(blocks, b)

\* What the message of w whole blocks and r bytes has at place n of its blocks.
Parts(w, r, n) ==
    /\ \A b \in 1..w : Message[64 * (b - 1) + n] = Byte(64 * (b - 1) + n)
    /\ n < r => Message[64 * w + n] = Byte(64 * w + n)
    /\ n = r => Message[64 * w + n] = Value(128)
    /\ r > 55 => /\ ((len + 8) \div 64) + 1 = w + 2
                 /\ n > r => Message[64 * w + n] = Value(0)
                 /\ n < 56 => Message[64 * (w + 1) + n] = Value(0)
                 /\ n \in 56..59 =>
                      Message[64 * (w + 1) + n] = ByteOf(8 * Low(len), n - 56)
                 /\ n \in 60..63 =>
                      Message[64 * (w + 1) + n] = ByteOf(High(len), n - 60)
    /\ r <= 55 => /\ ((len + 8) \div 64) + 1 = w + 1
                  /\ n > r /\ n < 56 => Message[64 * w + n] = Value(0)
                  /\ n \in 56..59 =>
                       Message[64 * w + n] = ByteOf(8 * Low(len), n - 56)
                  /\ n \in 60..63 =>
                       Message[64 * w + n] = ByteOf(High(len), n - 60)

\* The definition of the message, cut into blocks.
LEMMA MessageParts ==
    ASSUME len \in Nat, NEW w \in Nat, NEW r \in 0..63, len = 64 * w + r, NEW n \in 0..63
    PROVE  Parts(w, r, n)
<1> DEFINE size == 64 * (((len + 8) \div 64) + 1)
           lo == 8 * Low(len)
           hi == High(len)
           at(m) == IF m < len THEN Byte(m)
                    ELSE IF m = len THEN Value(128)
                    ELSE IF m < size - 8 THEN Value(0)
                    ELSE IF m < size - 4 THEN ByteOf(lo, m - (size - 8))
                    ELSE ByteOf(hi, m - (size - 4))
<1>1. Message = [m \in 0..(size - 1) |-> at(m)]
  BY DEF Message, Low, High
<1>2. /\ r > 55 => ((len + 8) \div 64) + 1 = w + 2
      /\ r <= 55 => ((len + 8) \div 64) + 1 = w + 1
  OBVIOUS
<1>3. /\ r > 55 => size = 64 * w + 128
      /\ r <= 55 => size = 64 * w + 64
  BY <1>2
<1> HIDE DEF lo, hi, size
<1>4. \A m \in 0..(size - 1) : Message[m] = at(m)
  BY <1>1
<1>5. ASSUME NEW b \in 1..w PROVE Message[64 * (b - 1) + n] = Byte(64 * (b - 1) + n)
  <2>1. 64 * (b - 1) + n \in 0..(size - 1) /\ 64 * (b - 1) + n < len
    BY <1>3
  <2> QED BY <2>1, <1>4
<1>6. 64 * w + n \in 0..(size - 1)
  BY <1>3
<1>7. Message[64 * w + n] = at(64 * w + n)
  BY <1>4, <1>6
<1>8. n < r => Message[64 * w + n] = Byte(64 * w + n)
  BY <1>7
<1>9. n = r => Message[64 * w + n] = Value(128)
  BY <1>7
<1>10. ASSUME r > 55
       PROVE  /\ n > r => Message[64 * w + n] = Value(0)
              /\ n < 56 => Message[64 * (w + 1) + n] = Value(0)
              /\ n \in 56..59 => Message[64 * (w + 1) + n] = ByteOf(lo, n - 56)
              /\ n \in 60..63 => Message[64 * (w + 1) + n] = ByteOf(hi, n - 60)
  <2>1. 64 * (w + 1) + n \in 0..(size - 1) /\ size = 64 * w + 128
    BY <1>3, <1>10
  <2>2. Message[64 * (w + 1) + n] = at(64 * (w + 1) + n)
    BY <2>1, <1>4
  <2>3. n > r => Message[64 * w + n] = Value(0)
    BY <1>7, <2>1
  <2>4. n < 56 => Message[64 * (w + 1) + n] = Value(0)
    BY <2>2, <2>1, <1>10
  <2>5. n \in 56..59 => Message[64 * (w + 1) + n] = ByteOf(lo, n - 56)
    <3>1. 64 * (w + 1) + n - (size - 8) = n - 56
      BY <2>1
    <3> QED BY <2>2, <2>1, <3>1, <1>10
  <2>6. n \in 60..63 => Message[64 * (w + 1) + n] = ByteOf(hi, n - 60)
    <3>1. 64 * (w + 1) + n - (size - 4) = n - 60
      BY <2>1
    <3> QED BY <2>2, <2>1, <3>1, <1>10
  <2> QED BY <2>3, <2>4, <2>5, <2>6
<1>11. ASSUME r <= 55
       PROVE  /\ n > r /\ n < 56 => Message[64 * w + n] = Value(0)
              /\ n \in 56..59 => Message[64 * w + n] = ByteOf(lo, n - 56)
              /\ n \in 60..63 => Message[64 * w + n] = ByteOf(hi, n - 60)
  <2>1. size = 64 * w + 64
    BY <1>3, <1>11
  <2>2. n > r /\ n < 56 => Message[64 * w + n] = Value(0)
    BY <1>7, <2>1
  <2>3. n \in 56..59 => Message[64 * w + n] = ByteOf(lo, n - 56)
    <3>1. 64 * w + n - (size - 8) = n - 56
      BY <2>1
    <3> QED BY <1>7, <2>1, <3>1, <1>11
  <2>4. n \in 60..63 => Message[64 * w + n] = ByteOf(hi, n - 60)
    <3>1. 64 * w + n - (size - 4) = n - 60
      BY <2>1
    <3> QED BY <1>7, <2>1, <3>1, <1>11
  <2> QED BY <2>2, <2>3, <2>4
<1> QED BY <1>2, <1>5, <1>8, <1>9, <1>10, <1>11 DEF lo, hi, Parts

\* A key is cut into whole blocks and a rest.
LEMMA WholeBlocks ==
    ASSUME NEW n \in Nat
    PROVE  /\ n \div 64 \in Nat /\ n % 64 \in 0..63
           /\ n = 64 * (n \div 64) + (n % 64)
           /\ Low(n) % 64 = n % 64
<1>1. n \div 64 \in Nat /\ n % 64 \in 0..63 /\ n = 64 * (n \div 64) + (n % 64)
  BY SMT
<1> DEFINE m == 2^29
           k == 2^23
           q == n \div m
           r == n % m
<1>2. m = 64 * k /\ m \in Nat /\ m > 0 /\ k \in Nat
  BY SMT
<1>3. n = m * q + r /\ q \in Nat /\ r \in Nat
  <2> HIDE DEF m, k
  <2> QED BY <1>2, SMT
<1> HIDE DEF m, k, q, r
<1> DEFINE j == k * q
<1>4. n = 64 * j + r /\ j \in Nat
  BY <1>2, <1>3, SMT
<1> HIDE DEF j
<1>5. r % 64 = n % 64
  BY <1>3, <1>4, SMT
<1> QED BY <1>1, <1>5 DEF r, m, Low

\* One block at the end.
LEMMA OneMore ==
    ASSUME NEW A, NEW s \in Seq(A), NEW x
    PROVE  /\ s \o <<x>> \in Seq(A \union {x})
           /\ Len(s \o <<x>>) = Len(s) + 1 /\ Len(s) \in Nat
           /\ (s \o <<x>>)[Len(s) + 1] = x
           /\ \A b \in 1..Len(s) : (s \o <<x>>)[b] = s[b]
OBVIOUS

\* MD5_Update digests the whole blocks and keeps the rest.
LEMMA UpdateDigests == ASSUME HashInv, MD5_Update PROVE DigestInv'
<1> DEFINE whole == length \div 64
           cut == [b \in 1..whole |-> [n \in 0..63 |-> Byte(64 * (b - 1) + n)]]
           kept == [n \in 0..63 |-> IF n < length % 64 THEN Byte(64 * whole + n) ELSE Junk]
<1>1. /\ func = "md5" /\ length = len /\ len \in Nat
      /\ stage' = "final" /\ func' = func /\ len' = len
      /\ blocks' = cut
      /\ ctx' = [lo |-> Low(len), hi |-> High(len), buffer |-> kept]
  BY DEF Low, High, MD5_Update, HashInv, CallTypes, MD5Inv, call
<1>2. whole \in Nat
  BY <1>1
<1>3. DOMAIN cut = 1..whole /\ \A b \in 1..whole : \A n \in 0..63 : cut[b][n] = Byte(64 * (b - 1) + n)
  OBVIOUS
<1>4. Len(cut) = whole
  <2>1. cut \in Seq({cut[b] : b \in 1..whole})
    <3>1. cut = [b \in 1..whole |-> cut[b]]
      OBVIOUS
    <3> HIDE DEF cut
    <3> QED BY <1>2, <1>3, <3>1
  <2> HIDE DEF cut
  <2> QED BY <1>2, <1>3, <2>1
<1>5. ctx'.buffer = kept /\ ctx' = [lo |-> Low(len), hi |-> High(len), buffer |-> ctx'.buffer]
  <2> HIDE DEF kept
  <2> QED BY <1>1
<1>6. ctx'.buffer = [n \in 0..63 |-> IF n < len' % 64 THEN Byte(64 * (len' \div 64) + n) ELSE Junk]
  BY <1>1, <1>5
<1> HIDE DEF cut, kept
<1>7. /\ Len(blocks') = len' \div 64
      /\ \A b \in 1..(len' \div 64) : \A n \in 0..63 : blocks'[b][n] = Byte(64 * (b - 1) + n)
  BY <1>1, <1>3, <1>4
<1>8. stage' = "final" /\ len' = len
  BY <1>1
<1> QED BY <1>5, <1>6, <1>7, <1>8 DEF DigestInv

\* MD5_Final appends the rest of the message.
LEMMA FinalDigests == ASSUME HashInv, DigestInv, MD5_Final PROVE DigestInv'
<1> DEFINE w == len \div 64
           r == len % 64
           used == (ctx.lo % 64) + 1
           marked == [ctx.buffer EXCEPT ![used - 1] = Value(128)]
           spill == 64 - used < 8
           padded == IF spill THEN Filled(marked, 0, 55) ELSE Filled(marked, used, 55)
           last == [n \in 0..63 |-> IF n \in 56..59 THEN ByteOf(8 * ctx.lo, n - 56)
                                    ELSE IF n \in 60..63 THEN ByteOf(ctx.hi, n - 60) ELSE padded[n]]
           full == Filled(marked, used, 63)
           more == IF spill THEN <<full>> ELSE <<>>
<1>1. /\ stage = "final" /\ stage' = "done" /\ func = "md5" /\ func' = func /\ len' = len /\ len \in Nat
  BY DEF MD5_Final, HashInv, MD5Inv, CallTypes, call
<1>2. blocks' = blocks \o more \o <<last>>
  BY DEF MD5_Final
<1>3. /\ ctx.lo = Low(len) /\ ctx.hi = High(len)
      /\ ctx.buffer = [n \in 0..63 |-> IF n < r THEN Byte(64 * w + n) ELSE Junk]
      /\ Len(blocks) = w
      /\ \A b \in 1..w : \A n \in 0..63 : blocks[b][n] = Byte(64 * (b - 1) + n)
  <2>1. ctx = [lo |-> Low(len), hi |-> High(len), buffer |-> ctx.buffer]
    BY <1>1 DEF DigestInv
  <2>2. ctx.lo = Low(len) /\ ctx.hi = High(len)
    BY <2>1
  <2> QED BY <1>1, <2>2 DEF DigestInv
<1>4. w \in Nat /\ r \in 0..63 /\ len = 64 * w + r /\ used = r + 1
  BY <1>1, <1>3, WholeBlocks
<1>5. spill <=> r > 55
  BY <1>4
<1>0. \A n \in 0..63 : marked[n] = IF n < r THEN Byte(64 * w + n)
                               ELSE IF n = r THEN Value(128) ELSE Junk
  <2> DEFINE buffer == ctx.buffer
  <2>1. marked = [buffer EXCEPT ![r] = Value(128)]
    <3>1. used - 1 = r
      BY <1>4
    <3> HIDE DEF used, r
    <3> QED BY <3>1
  <2>2. buffer = [n \in 0..63 |-> IF n < r THEN Byte(64 * w + n) ELSE Junk]
    BY <1>3
  <2> HIDE DEF marked, used, r, w, buffer
  <2>3. marked = [n \in 0..63 |-> IF n = r THEN Value(128) ELSE buffer[n]]
    BY <1>4, <2>1, <2>2
  <2> QED BY <1>4, <2>2, <2>3
<1>6. /\ \A n \in 0..63 : n < r => full[n] = Byte(64 * w + n)
      /\ \A n \in 0..63 : n = r => full[n] = Value(128)
      /\ \A n \in 0..63 : n > r => full[n] = Value(0)
  <2> HIDE DEF marked, used, r, w
  <2> QED BY <1>0, <1>4 DEF Filled
<1>7. /\ ~spill => /\ \A n \in 0..55 : n < r => padded[n] = Byte(64 * w + n)
                   /\ \A n \in 0..55 : n = r => padded[n] = Value(128)
                   /\ \A n \in 0..55 : n > r => padded[n] = Value(0)
      /\ spill => \A n \in 0..55 : padded[n] = Value(0)
  <2> HIDE DEF marked, used, r, w
  <2> QED BY <1>0, <1>4 DEF Filled
<1>8. /\ \A n \in 0..55 : last[n] = padded[n]
      /\ \A n \in 56..59 : last[n] = ByteOf(8 * Low(len), n - 56)
      /\ \A n \in 60..63 : last[n] = ByteOf(High(len), n - 60)
  BY <1>3
<1>9. blocks \in Seq({blocks[b] : b \in DOMAIN blocks})
  BY DEF HashInv, BlockTypes, IsBlocks
<1> HIDE DEF w, r, used, marked, last, padded, full, spill
<1>15. Message' = Message
  BY <1>1 DEF Message
<1>10. ASSUME spill
       PROVE  /\ Len(blocks') = w + 2 /\ blocks'[w + 1] = full /\ blocks'[w + 2] = last
              /\ \A b \in 1..w : blocks'[b] = blocks[b]
  <2> DEFINE A == {blocks[b] : b \in DOMAIN blocks}
             j == blocks \o <<full>>
             B == A \union {full}
  <2>1. blocks' = j \o <<last>>
    BY <1>2, <1>10
  <2> HIDE DEF A
  <2>2. blocks \in Seq(A)
    BY <1>9 DEF A
  <2>3. /\ j \in Seq(B) /\ Len(j) = w + 1 /\ j[w + 1] = full
        /\ \A b \in 1..w : j[b] = blocks[b]
    <3>1. /\ j \in Seq(B) /\ Len(j) = Len(blocks) + 1 /\ j[Len(blocks) + 1] = full
          /\ \A b \in 1..Len(blocks) : j[b] = blocks[b]
      BY <2>2, OneMore
    <3> HIDE DEF j, B
    <3> QED BY <1>3, <3>1
  <2> HIDE DEF j, B
  <2>4. /\ Len(j \o <<last>>) = Len(j) + 1 /\ (j \o <<last>>)[Len(j) + 1] = last
        /\ \A b \in 1..Len(j) : (j \o <<last>>)[b] = j[b]
    BY <2>3, OneMore
  <2>5. (w + 1) + 1 = w + 2 /\ w + 1 \in 1..(w + 1) /\ \A b \in 1..w : b \in 1..(w + 1)
    BY <1>4
  <2> QED BY <2>1, <2>3, <2>4, <2>5
<1>11. ASSUME ~spill
       PROVE  /\ Len(blocks') = w + 1 /\ blocks'[w + 1] = last
              /\ \A b \in 1..w : blocks'[b] = blocks[b]
  <2> DEFINE A == {blocks[b] : b \in DOMAIN blocks}
  <2> HIDE DEF A
  <2>1. blocks \in Seq(A)
    BY <1>9 DEF A
  <2>2. blocks' = blocks \o <<last>>
    <3>1. blocks' = blocks \o <<>> \o <<last>>
      BY <1>2, <1>11
    <3>2. blocks \o <<>> = blocks
      BY <2>1
    <3> QED BY <3>1, <3>2
  <2>3. /\ Len(blocks \o <<last>>) = Len(blocks) + 1
        /\ (blocks \o <<last>>)[Len(blocks) + 1] = last
        /\ \A b \in 1..Len(blocks) : (blocks \o <<last>>)[b] = blocks[b]
    BY <2>1, OneMore
  <2> QED BY <1>3, <2>2, <2>3
<1>16. ASSUME NEW n \in 0..63 PROVE Parts(w, r, n)
  BY <1>1, <1>4, MessageParts
<1>12. \A b \in 1..w : IsMessageBlock(blocks', b)
  <2> SUFFICES ASSUME NEW b \in 1..w, NEW n \in 0..63
               PROVE  blocks'[b][n] = Message[64 * (b - 1) + n]
    BY DEF IsMessageBlock
  <2>1. Message[64 * (b - 1) + n] = Byte(64 * (b - 1) + n)
    BY <1>16 DEF Parts
  <2> QED BY <2>1, <1>3, <1>10, <1>11
<1>17. \A b : IsMessageBlock(blocks, b)' <=> IsMessageBlock(blocks', b)
  BY <1>15 DEF IsMessageBlock
<1>13. CASE spill
  <2>1. r > 55
    BY <1>5, <1>13
  <2>2. IsMessageBlock(blocks', w + 1)
    <3> SUFFICES ASSUME NEW n \in 0..63 PROVE full[n] = Message[64 * w + n]
      <4>1. 64 * ((w + 1) - 1) = 64 * w
        BY <1>4
      <4> QED BY <4>1, <1>10, <1>13 DEF IsMessageBlock
    <3>1. n < r \/ n = r \/ n > r
      BY <1>4
    <3> QED BY <1>4, <1>16, <1>6, <2>1, <3>1 DEF Parts
  <2>3. IsMessageBlock(blocks', w + 2)
    <3> SUFFICES ASSUME NEW n \in 0..63 PROVE last[n] = Message[64 * (w + 1) + n]
      <4>1. 64 * ((w + 2) - 1) = 64 * (w + 1)
        BY <1>4
      <4> QED BY <4>1, <1>10, <1>13 DEF IsMessageBlock
    <3>1. n \in 0..55 \/ n \in 56..59 \/ n \in 60..63
      OBVIOUS
    <3>2. n \in 0..55 => n < 56
      OBVIOUS
    <3> QED BY <1>4, <1>16, <1>7, <1>8, <1>13, <2>1, <3>1, <3>2 DEF Parts
  <2>4. ((len + 8) \div 64) + 1 = w + 2
    <3>1. 0 \in 0..63
      OBVIOUS
    <3> QED BY <1>4, <1>16, <2>1, <3>1 DEF Parts
  <2>5. \A b \in 1..(w + 2) : b \in 1..w \/ b = w + 1 \/ b = w + 2
    BY <1>4
  <2>6. \A b \in 1..(w + 2) : IsMessageBlock(blocks', b)
    BY <1>12, <2>2, <2>3, <2>5
  <2> QED BY <1>1, <1>10, <1>13, <2>4, <2>6, <1>17 DEF DigestInv
<1>14. CASE ~spill
  <2>1. r <= 55
    BY <1>4, <1>5, <1>14
  <2>2. IsMessageBlock(blocks', w + 1)
    <3> SUFFICES ASSUME NEW n \in 0..63 PROVE last[n] = Message[64 * w + n]
      <4>1. 64 * ((w + 1) - 1) = 64 * w
        BY <1>4
      <4> QED BY <4>1, <1>11, <1>14 DEF IsMessageBlock
    <3>1. CASE n \in 0..55
      <4>1. n < 56 /\ (n < r \/ n = r \/ n > r)
        BY <3>1, <1>4
      <4> QED BY <1>4, <1>16, <1>7, <1>8, <1>14, <2>1, <3>1, <4>1 DEF Parts
    <3>2. CASE n \in 56..63
      <4>1. n \in 56..59 \/ n \in 60..63
        BY <3>2
      <4> QED BY <1>4, <1>16, <1>8, <2>1, <4>1 DEF Parts
    <3>3. n \in 0..55 \/ n \in 56..63
      OBVIOUS
    <3> QED BY <3>1, <3>2, <3>3
  <2>3. ((len + 8) \div 64) + 1 = w + 1
    <3>1. 0 \in 0..63
      OBVIOUS
    <3> QED BY <1>4, <1>16, <2>1, <3>1 DEF Parts
  <2>4. \A b \in 1..(w + 1) : b \in 1..w \/ b = w + 1
    BY <1>4
  <2>5. \A b \in 1..(w + 1) : IsMessageBlock(blocks', b)
    BY <1>12, <2>2, <2>4
  <2> QED BY <1>1, <1>11, <1>14, <2>3, <2>5, <1>17 DEF DigestInv
<1> QED BY <1>13, <1>14

\* Every step keeps the invariant: only two of them touch the blocks.
LEMMA DigestInductive ==
    ASSUME HashInv, DigestInv, [HashNext]_hashVars PROVE DigestInv'
<1>1. CASE MD5_Update
  BY <1>1, UpdateDigests
<1>2. CASE MD5_Final
  BY <1>2, FinalDigests
<1>3. ASSUME NEW name \in Names, NEW n \in Lengths, NEW a \in Alignments, Call(name, n, a)
      PROVE  DigestInv'
  <2>1. stage' = "loop"
    BY <1>3 DEF Call
  <2> QED BY <2>1 DEF DigestInv
<1>4. CASE Return
  <2>1. stage' = "idle"
    BY <1>4 DEF Return
  <2> QED BY <2>1 DEF DigestInv
<1>5. CASE ByteStep \/ WordStep \/ WordTail \/ HsiehStep \/ HsiehTail \/ JenkinsStep \/ JenkinsTail
  <2>1. func # "md5" /\ func' = func
    BY <1>5 DEF ByteStep, WordStep, WordTail, HsiehStep, HsiehTail, JenkinsStep, JenkinsTail, Take,
                call, Bytes, Words
  <2> QED BY <2>1 DEF DigestInv
<1>6. CASE UNCHANGED hashVars
  <2>1. stage' = stage /\ func' = func /\ len' = len /\ ctx' = ctx /\ blocks' = blocks
    BY <1>6 DEF hashVars, call
  <2>2. Message' = Message
    BY <2>1 DEF Message
  <2> QED BY <2>1, <2>2 DEF DigestInv, IsMessageBlock
<1> QED BY <1>1, <1>2, <1>3, <1>4, <1>5, <1>6 DEF HashNext

\* Each of the four rounds goes through all sixteen words.
LEMMA OrderIsOnto ==
    ASSUME NEW round \in 1..4
    PROVE  /\ \A i \in 0..15 : Order(round, i) \in 0..15
           /\ \A w \in 0..15 : \E i \in 0..15 : Order(round, i) = w
<1>1. CASE round = 1
  BY <1>1 DEF Order
<1>2. CASE round = 2
  <2>1. \A i : Order(round, i) = (1 + 5 * i) % 16
    BY <1>2 DEF Order
  <2>2. \A w \in 0..15 : \E i \in 0..15 : (1 + 5 * i) % 16 = w
    OBVIOUS
  <2> QED BY <2>1, <2>2
<1>3. CASE round = 3
  <2>1. \A i : Order(round, i) = (5 + 3 * i) % 16
    BY <1>3 DEF Order
  <2>2. \A w \in 0..15 : \E i \in 0..15 : (5 + 3 * i) % 16 = w
    OBVIOUS
  <2> QED BY <2>1, <2>2
<1>4. CASE round = 4
  <2>1. \A i : Order(round, i) = (7 * i) % 16
    BY <1>4 DEF Order
  <2>2. \A w \in 0..15 : \E i \in 0..15 : (7 * i) % 16 = w
    OBVIOUS
  <2> QED BY <2>1, <2>2
<1> QED BY <1>1, <1>2, <1>3, <1>4

\* What body() reads of a block of the message is the words of that block.
LEMMA RoundReadsBlock ==
    ASSUME NEW s, NEW b \in Nat, IsMessageBlock(s, b), NEW round \in 1..4
    PROVE  {body(s[b])[round][i] : i \in 0..15} = WordsOf(b)
<1> DEFINE word(w) == <<w, [n \in 0..3 |-> Message[64 * (b - 1) + 4 * w + n]]>>
<1>1. ASSUME NEW w \in 0..15
      PROVE  [n \in 0..3 |-> s[b][4 * w + n]] = [n \in 0..3 |-> Message[64 * (b - 1) + 4 * w + n]]
  <2> SUFFICES ASSUME NEW n \in 0..3 PROVE s[b][4 * w + n] = Message[64 * (b - 1) + 4 * w + n]
    OBVIOUS
  <2>1. 4 * w + n \in 0..63 /\ 64 * (b - 1) + (4 * w + n) = 64 * (b - 1) + 4 * w + n
    OBVIOUS
  <2> QED BY <2>1 DEF IsMessageBlock
<1>2. \A i \in 0..15 : body(s[b])[round][i] = <<Order(round, i), [n \in 0..3 |-> s[b][4 * Order(round, i) + n]]>>
  BY DEF body
<1>3. \A i \in 0..15 : body(s[b])[round][i] = word(Order(round, i))
  BY <1>1, <1>2, OrderIsOnto
<1>4. WordsOf(b) = {word(w) : w \in 0..15}
  BY DEF WordsOf
<1> HIDE DEF word
<1>5. {body(s[b])[round][i] : i \in 0..15} = {word(w) : w \in 0..15}
  BY <1>3, OrderIsOnto
<1> QED BY <1>4, <1>5

\* The invariant implies the property.
LEMMA DigestSafe == HashInv /\ DigestInv => DigestsMessage
<1> SUFFICES ASSUME HashInv, DigestInv, stage = "done", func = "md5"
             PROVE  /\ Len(blocks) = ((len + 8) \div 64) + 1
                    /\ \A b \in DOMAIN blocks, round \in 1..4 :
                         {body(blocks[b])[round][i] : i \in 0..15} = WordsOf(b)
  BY DEF DigestsMessage
<1>1. /\ Len(blocks) = ((len + 8) \div 64) + 1
      /\ \A b \in 1..Len(blocks) : IsMessageBlock(blocks, b)
  BY DEF DigestInv
<1>2. DOMAIN blocks = 1..Len(blocks) /\ Len(blocks) \in Nat
  BY DEF HashInv, BlockTypes, IsBlocks
<1>3. ASSUME NEW b \in DOMAIN blocks, NEW round \in 1..4
      PROVE  {body(blocks[b])[round][i] : i \in 0..15} = WordsOf(b)
  <2>1. b \in Nat /\ IsMessageBlock(blocks, b)
    BY <1>1, <1>2
  <2> QED BY <2>1, RoundReadsBlock
<1> QED BY <1>1, <1>3

\* Whatever the length of a key, MD5 digests the padded message of RFC 1321, block
\* by block, each of its four rounds all the words of a block: no byte the buffer held
\* before, no mark overwritten by the length, no block too many or too few.
THEOREM MessageIsDigested == HashSpec => []DigestsMessage
<1>1. HashInit => HashInv /\ DigestInv
  <2>1. HashInit => DigestInv
    BY DEF HashInit, DigestInv
  <2> QED BY <2>1, HashInitially
<1>2. HashInv /\ DigestInv /\ [HashNext]_hashVars => (HashInv /\ DigestInv)'
  BY HashInductive, DigestInductive
<1>3. HashInv /\ DigestInv => DigestsMessage
  BY DigestSafe
<1> QED BY <1>1, <1>2, <1>3, PTL DEF HashSpec

=============================================================================
