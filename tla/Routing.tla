------------------------------- MODULE Routing -------------------------------
(***************************************************************************)
(* From a key to a server: RedisProxy::mapToGroup, handleClientPacket, and *)
(* the policies of a group (redis-servant-select.cpp), run by several      *)
(* workers at once.  The counters of the round robin are shared by the     *)
(* workers and not locked: a load and a store are steps of their own.      *)
(*                                                                         *)
(* Whether a server answers (isActived) changes under the loops that look  *)
(* for one; RedisServant says when.  What becomes of the slots and of the  *)
(* key mappings at run time is in GroupEject and Startup.                  *)
(***************************************************************************)
EXTENDS Integers, Sequences, FiniteSets, FiniteSetsExt

CONSTANTS
    Workers,
    Groups,         \* the groups of servers
    Masters,        \* [Groups -> sequence of servers]: m_master
    Slaves,         \* [Groups -> sequence of servers]: m_slaver
    Policy,         \* [Groups -> {"master_only", "read_balance"}]
    Keys,
    HashOf,         \* [Keys -> Nat]: m_hashFunc
    KeyMapping,     \* [SUBSET Keys -> Groups]: m_keyMapping
    Tables,         \* the slot tables the proxy may have, see Init
    DownAtFirst,    \* the sets of servers that may be inactive at first
    Modulus,        \* an unsigned int counts modulo this
    MaxFlips        \* bound: changes of isActived

\* main.cpp sorts the points of the continuum (238-243).  A proxy without a slot
\* is left to Startup.
ASSUME HashAssumption == HashOf \in [Keys -> Nat]
ASSUME TablesAssumption ==
    \A t \in Tables :
        /\ t.slots \in Seq([value : Nat, group : Groups]) \ {<<>>}
        /\ t.twemproxy \in BOOLEAN
        /\ t.twemproxy =>
             \A a, b \in DOMAIN t.slots : a <= b => t.slots[a].value <= t.slots[b].value

Servants == UNION {{Masters[g][k] : k \in DOMAIN Masters[g]}
                     \union {Slaves[g][k] : k \in DOMAIN Slaves[g]} : g \in Groups}

List(g, kind) == IF kind = "master" THEN Masters[g] ELSE Slaves[g]
Members(list) == {list[k] : k \in DOMAIN list}

\* main.cpp (190-209) makes a servant of every host and adds it to one list of
\* its group.  "none" is no name, but the value of a field that is not used.
ASSUME GroupsAssumption ==
    /\ Masters \in [Groups -> Seq(Servants)] /\ Slaves \in [Groups -> Seq(Servants)]
    /\ \A g \in Groups : Members(Masters[g]) \cap Members(Slaves[g]) = {}
    /\ "none" \notin Groups /\ "none" \notin Keys
ASSUME KeyMappingAssumption == \A k \in DOMAIN KeyMapping : KeyMapping[k] \in Groups
ASSUME BoundsAssumption == Modulus \in Nat \ {0} /\ MaxFlips \in Nat

VARIABLES
    m_twemproxyMode,
    m_slots,            \* sequence of [value, group]
    active,             \* [Servants -> BOOLEAN]: isActived
    flips,
    m_callNum,          \* [Groups -> [{"master", "slave"} -> 0..Modulus-1]]:
                        \* m_masterCallNum, m_slaveCallNum
    m_readCnt,          \* [Groups -> {0, 1}]: used modulo 2 only
    pc,
    job                 \* what each worker is doing, see Job

vars == <<m_twemproxyMode, m_slots, active, flips, m_callNum, m_readCnt, pc, job>>

\* A worker's request and the local variables of the functions it runs.
\* seen and wrapped are histories: the servers seen inactive for this request,
\* and whether a counter went through zero under a loop over a number of
\* servers that does not divide Modulus.
Idle == [key |-> "none", write |-> FALSE, group |-> "none", left |-> 0, right |-> 0,
         lists |-> <<>>, callNum |-> 0, i |-> 0, servant |-> "none", seen |-> {},
         wrapped |-> FALSE]

TypeOK ==
    /\ m_callNum \in [Groups -> [{"master", "slave"} -> 0..(Modulus - 1)]]
    /\ m_readCnt \in [Groups -> 0..1]
    /\ active \in [Servants -> BOOLEAN] /\ flips \in 0..MaxFlips
    /\ pc \in [Workers -> {"idle", "search", "counted", "begin", "look",
                           "bump", "chosen", "refused"}]
    /\ \A w \in Workers :
         /\ pc[w] = "idle" <=> job[w] = Idle
         /\ pc[w] = "search" => 0 <= job[w].left /\ job[w].left <= job[w].right
                                  /\ job[w].right <= Len(m_slots)
         /\ pc[w] \notin {"idle", "search"} => job[w].group \in Groups
         /\ pc[w] = "look" =>
              job[w].i \in 0..Len(List(job[w].group, Head(job[w].lists)))
         /\ pc[w] \in {"bump", "chosen"} => job[w].servant \in Servants

\* A table is [twemproxy, slots]: in twemproxy mode the points of the continuum
\* in ascending order, otherwise one slot per hash value.
Init ==
    /\ \E t \in Tables : m_twemproxyMode = t.twemproxy /\ m_slots = t.slots
    /\ \E down \in DownAtFirst : active = [s \in Servants |-> s \notin down]
    /\ flips = 0
    /\ m_callNum = [g \in Groups |-> [kind \in {"master", "slave"} |-> 0]]
    /\ m_readCnt = [g \in Groups |-> 0]
    /\ pc = [w \in Workers |-> "idle"]
    /\ job = [w \in Workers |-> Idle]

-----------------------------------------------------------------------------
Continue(w, to, j) ==
    /\ pc' = [pc EXCEPT ![w] = to]
    /\ job' = [job EXCEPT ![w] = j]

Hash(k) == IF Cardinality(Groups) = 1 THEN 0 ELSE HashOf[k]

\* The group is found, and the policy's first access to a shared counter made:
\* a read of a read_balance group is counted (++m_readCnt, of which this is the
\* load), any other request turns to the masters, from their counter on.
Routed(w, j, g) ==
    LET at == [j EXCEPT !.key = "none", !.group = g, !.left = 0, !.right = 0] IN
    IF Policy[g] = "read_balance" /\ ~j.write
    THEN Continue(w, "counted", [at EXCEPT !.callNum = m_readCnt[g]])
    ELSE Continue(w, "look", [at EXCEPT !.callNum = m_callNum[g]["master"],
                                        !.lists = <<"master", "slave">>])

\* mapToGroup: the key's own mapping, or the slot of its hash.
Request(w, k, write) ==
    LET j == [Idle EXCEPT !.key = k, !.write = write] IN
    /\ pc[w] = "idle"
    /\ IF k \in DOMAIN KeyMapping
       THEN Routed(w, j, KeyMapping[k])
       ELSE IF ~m_twemproxyMode
       THEN Routed(w, j, m_slots[(HashOf[k] % Len(m_slots)) + 1].group)
       ELSE Continue(w, "search", [j EXCEPT !.right = Len(m_slots)])
    /\ UNCHANGED <<m_twemproxyMode, m_slots, active, flips, m_callNum, m_readCnt>>

\* Fault: the last point of the continuum is not considered.
Search_ShortByOne(w) ==
    LET j == job[w]
        middle == j.left + (j.right - j.left) \div 2
    IN /\ pc[w] = "search"
       /\ IF j.left < j.right
          THEN Continue(w, "search",
                  IF m_slots[middle + 1].value < Hash(j.key)
                  THEN [j EXCEPT !.left = middle + 1] ELSE [j EXCEPT !.right = middle])
          ELSE Routed(w, j, m_slots[IF j.right >= Len(m_slots) - 1 THEN 1
                                    ELSE j.right + 1].group)
       /\ UNCHANGED <<m_twemproxyMode, m_slots, active, flips, m_callNum, m_readCnt>>

\* mapToGroup in twemproxy mode: one round of the binary search, or its end.
Search(w) ==
    LET j == job[w]
        middle == j.left + (j.right - j.left) \div 2
    IN /\ pc[w] = "search"
       /\ IF j.left < j.right
          THEN Continue(w, "search",
                  IF m_slots[middle + 1].value < Hash(j.key)
                  THEN [j EXCEPT !.left = middle + 1] ELSE [j EXCEPT !.right = middle])
          ELSE Routed(w, j, m_slots[IF j.right = Len(m_slots) THEN 1
                                    ELSE j.right + 1].group)
       /\ UNCHANGED <<m_twemproxyMode, m_slots, active, flips, m_callNum, m_readCnt>>

-----------------------------------------------------------------------------
\* ReadBalancePolicy::selectServant: ++m_readCnt, the store.  Every second read
\* prefers the slaves.
ReadCounted(w) ==
    LET g == job[w].group
        n == (job[w].callNum + 1) % 2
    IN /\ pc[w] = "counted"
       /\ m_readCnt' = [m_readCnt EXCEPT ![g] = n]
       /\ Continue(w, "begin", [job[w] EXCEPT !.callNum = 0,
             !.lists = IF n = 0 THEN <<"slave", "master">> ELSE <<"master", "slave">>])
       /\ UNCHANGED <<m_twemproxyMode, m_slots, active, flips, m_callNum>>

\* oneMaster, oneSlave: the counter is copied ...
Begin(w) ==
    /\ pc[w] = "begin"
    /\ Continue(w, "look",
          [job[w] EXCEPT !.callNum = m_callNum[job[w].group][Head(job[w].lists)]])
    /\ UNCHANGED <<m_twemproxyMode, m_slots, active, flips, m_callNum, m_readCnt>>

\* Fault: the same server is looked at every time.
Look_NoAdvance(w) ==
    LET j == job[w]
        list == List(j.group, Head(j.lists))
        s == list[(j.callNum % Len(list)) + 1]
    IN /\ pc[w] = "look" /\ j.i < Len(list)
       /\ IF active[s]
          THEN Continue(w, IF Head(j.lists) = "slave" THEN "bump" ELSE "chosen",
                        [j EXCEPT !.servant = s, !.i = 0,
                           !.callNum = IF Head(j.lists) = "slave"
                                       THEN m_callNum[j.group]["slave"] ELSE 0])
          ELSE Continue(w, "look", [j EXCEPT !.i = @ + 1, !.seen = @ \union {s}])
       /\ UNCHANGED <<m_twemproxyMode, m_slots, active, flips, m_callNum, m_readCnt>>

\* ... and the servers are looked at from there on, every one once.  A slave
\* that is found moves the shared counter on: it is loaded here and stored by
\* Bump.  A master does not.
Look(w) ==
    LET j == job[w]
        list == List(j.group, Head(j.lists))
        s == list[(j.callNum % Len(list)) + 1]
        next == (j.callNum + 1) % Modulus
    IN /\ pc[w] = "look" /\ j.i < Len(list)
       /\ IF active[s]
          THEN Continue(w, IF Head(j.lists) = "slave" THEN "bump" ELSE "chosen",
                        [j EXCEPT !.servant = s, !.i = 0,
                           !.callNum = IF Head(j.lists) = "slave"
                                       THEN m_callNum[j.group]["slave"] ELSE 0])
          ELSE Continue(w, "look",
                        [j EXCEPT !.callNum = next, !.i = @ + 1, !.seen = @ \union {s},
                           !.wrapped = @ \/ (next = 0 /\ j.i + 1 < Len(list)
                                               /\ Modulus % Len(list) # 0)])
       /\ UNCHANGED <<m_twemproxyMode, m_slots, active, flips, m_callNum, m_readCnt>>

Bump(w) ==
    /\ pc[w] = "bump"
    /\ m_callNum' = [m_callNum EXCEPT ![job[w].group]["slave"] = (job[w].callNum + 1) % Modulus]
    /\ Continue(w, "chosen", [job[w] EXCEPT !.callNum = 0])
    /\ UNCHANGED <<m_twemproxyMode, m_slots, active, flips, m_readCnt>>

\* None of the list: its counter is stored, and selectMaster or selectSlave
\* turns to the other list, or gives up.
Exhausted(w) ==
    LET j == job[w]
        kind == Head(j.lists)
        rest == Tail(j.lists)
    IN /\ pc[w] = "look" /\ j.i = Len(List(j.group, kind))
       /\ m_callNum' = [m_callNum EXCEPT ![j.group][kind] = j.callNum]
       /\ Continue(w, IF rest = <<>> THEN "refused" ELSE "begin",
                   [j EXCEPT !.lists = rest, !.callNum = 0, !.i = 0])
       /\ UNCHANGED <<m_twemproxyMode, m_slots, active, flips, m_readCnt>>

\* handleClientPacket goes on: the request is queued at the servant, or refused
\* with "backend is not available".
Handled(w) ==
    /\ pc[w] \in {"chosen", "refused"}
    /\ Continue(w, "idle", Idle)
    /\ UNCHANGED <<m_twemproxyMode, m_slots, active, flips, m_callNum, m_readCnt>>

\* A server is lost or found again.
Flip(s) ==
    /\ flips < MaxFlips
    /\ flips' = flips + 1
    /\ active' = [active EXCEPT ![s] = ~@]
    /\ UNCHANGED <<m_twemproxyMode, m_slots, m_callNum, m_readCnt, pc, job>>

Step(w) == Search(w) \/ ReadCounted(w) \/ Begin(w) \/ Look(w)
             \/ Bump(w) \/ Exhausted(w) \/ Handled(w)

Next ==
    \/ \E w \in Workers, k \in Keys, write \in BOOLEAN : Request(w, k, write)
    \/ \E w \in Workers : Step(w)
    \/ \E s \in Servants : Flip(s)

Spec == Init /\ [][Next]_vars

-----------------------------------------------------------------------------
\* A request is refused only when every server of its group was found inactive,
\* whatever the other workers did to the counters meanwhile.
\* A write, and any request of a master_only group, reaches a slave only when
\* every master was found inactive.
RefusedByAll ==
    /\ TypeOK
    /\ \A w \in Workers :
        LET j == job[w] IN
        /\ pc[w] = "refused" /\ ~j.wrapped =>
             j.seen = Members(Masters[j.group]) \union Members(Slaves[j.group])
        /\ /\ pc[w] = "chosen" /\ ~j.wrapped
           /\ j.servant \in Members(Slaves[j.group])
           /\ j.write \/ Policy[j.group] = "master_only"
           => Members(Masters[j.group]) \subseteq j.seen

\* The continuum is a circle: a hash belongs to the first point that is not
\* before it, and behind the last point to the first.
Successor(h) ==
    LET after == {k \in DOMAIN m_slots : m_slots[k].value >= h}
    IN m_slots[IF after = {} THEN 1 ELSE Min(after)].group

SearchExact ==
    [][\A w \in Workers : pc[w] = "search" /\ pc'[w] # "search" =>
         job'[w].group = Successor(Hash(job[w].key))]_vars
=============================================================================
