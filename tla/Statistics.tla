----------------------------- MODULE Statistics -----------------------------
(***************************************************************************)
(* The statistics (monitor.cpp, top-key.cpp): workers that have written a  *)
(* reply hand the request's key to the thread that counts keys, and count  *)
(* the request for its client and its server; a client may ask for the     *)
(* keys counted most (TOPKEY, TOPVALUE).                                   *)
(*                                                                         *)
(* Keys are copied into buffers that change hands: from the worker to the  *)
(* queue, to the recorder, to the map of the keys counted.  Buffers and    *)
(* nodes of the list are numbered, so that one freed is told from one in   *)
(* use.  Pushing to and popping from the queue, and an insertion into the  *)
(* maps of clients and servers, are taken to be atomic.                    *)
(***************************************************************************)
EXTENDS Integers, SequencesExt, FiniteSetsExt, Functions

CONSTANTS
    Workers, Keys, Servants, None,
    m_maxKeyCnt,
    Slack,          \* 500: so many of the list may be given up
    MaxReplies,     \* bound: replies in all
    MaxReports      \* bound: TOPKEY commands in all

ASSUME NoneAssumption == None \notin Nat /\ None \notin Workers /\ None \notin Servants
ASSUME FiniteAssumption == IsFiniteSet(Workers) /\ IsFiniteSet(Servants)
\* The recorder is made for 5000000 keys (top-key.h:80).
ASSUME LimitAssumption == m_maxKeyCnt \in Nat /\ Slack \in 1..m_maxKeyCnt
ASSUME BoundsAssumption == MaxReplies \in Nat /\ MaxReports \in Nat

midSize == m_maxKeyCnt - Slack

VARIABLES
    (* the recorder *)
    m_processTopKey,
    m_allKeys,      \* the queue: buffers
    recorder,       \* "sleep", "drain", "record"
    inHand,         \* the buffer the recorder has popped, or None
    buffers,        \* [buffer -> key]: the buffers allocated
    m_keyCntList,   \* nodes, the last recorded first
    nodes,          \* [node -> count]: the nodes of the list
    m_keyCntMap,    \* [key -> [buf, node]]
    m_lock,         \* None or the worker that has it
    (* the workers *)
    pc, request,    \* [Workers -> ...]
    m_topKeyLock, m_clientLock,
    report,         \* [Workers -> what TOPKEY has copied]
    (* the counters *)
    request_num, m_AllRequestTimes,
    (* history *)
    replies, reports, finished, owed, recent

recorderVars == <<m_processTopKey, recorder, inHand, m_keyCntList, nodes, m_keyCntMap,
                  recent>>
counterVars == <<request_num, m_AllRequestTimes, finished>>
lockVars == <<m_topKeyLock, m_clientLock>>
vars == <<recorderVars, counterVars, lockVars, m_allKeys, buffers, m_lock, pc, request, report,
          replies, reports, owed>>

NoRequest == [buf |-> None, servant |-> None, count |-> 0, busy |-> FALSE]
EmptyMap == [k \in {} |-> None]

Unused(f) == Min((1..(MaxReplies + 1)) \ DOMAIN f)
Without(f, S) == Restrict(f, DOMAIN f \ S)
With(f, x, v) == [y \in DOMAIN f \union {x} |-> IF y = x THEN v ELSE f[y]]

\* What is left of the sequence s without the elements of S.
Spared(s, S) == FoldLeft(LAMBDA kept, x : IF x \in S THEN kept ELSE Append(kept, x), <<>>, s)

TypeOK ==
    /\ m_allKeys \in Seq(DOMAIN buffers)
    /\ recorder \in {"sleep", "drain", "record"}
    /\ m_processTopKey = (recorder # "sleep")
    /\ inHand # None <=> recorder = "record"
    /\ DOMAIN m_keyCntMap \subseteq Keys
    /\ m_keyCntList \in Seq(DOMAIN nodes)
    /\ \A w \in Workers :
         /\ pc[w] \in {"idle", "push", "client", "clientWrite", "backend",
                       "copy"}
         /\ request[w].buf # None => request[w].buf \in DOMAIN buffers
    /\ m_lock \in Workers \union {None}
    /\ \A n \in DOMAIN nodes : nodes[n] \in 1..MaxReplies

Init ==
    /\ m_processTopKey = FALSE /\ m_allKeys = <<>>
    /\ recorder = "sleep" /\ inHand = None
    /\ buffers = EmptyMap /\ m_keyCntList = <<>> /\ nodes = EmptyMap /\ m_keyCntMap = EmptyMap
    /\ m_lock = None
    /\ pc = [w \in Workers |-> "idle"] /\ request = [w \in Workers |-> NoRequest]
    /\ m_topKeyLock = None /\ m_clientLock = None
    /\ report = [w \in Workers |-> EmptyMap]
    /\ request_num = 0 /\ m_AllRequestTimes = [s \in Servants |-> 0]
    /\ replies = 0 /\ reports = 0 /\ finished = 0
    /\ owed = 0 /\ recent = <<>>

Goto(w, label) == pc' = [pc EXCEPT ![w] = label]

-----------------------------------------------------------------------------
(* CProxyMonitor::replyClientFinished.                                     *)

\* The key is what tokens[1] says, which a command without a key leaves as it
\* was: never set, or a place of the receive buffer that holds whatever it holds
\* by now.  So key may be any, or none, when servant is None.
\*
\* keyToList, under m_topKeyLock: the recorder's flag is read, and the key then
\* queued or, while the recorder works, given up.
replyClientFinished(w, key, servant) ==
    /\ pc[w] = "idle" /\ replies < MaxReplies
    /\ servant # None => key # None
    /\ replies' = replies + 1
    /\ IF key = None
       THEN /\ request' = [request EXCEPT ![w] = NoRequest]
            /\ Goto(w, "client")
            /\ UNCHANGED <<m_topKeyLock, buffers, owed>>
       ELSE /\ m_topKeyLock = None
            /\ m_topKeyLock' = w
            /\ LET b == Unused(buffers) IN
                 /\ buffers' = With(buffers, b, key)
                 /\ request' = [request EXCEPT ![w] =
                       [buf |-> b, servant |-> servant, count |-> 0, busy |-> m_processTopKey]]
            /\ owed' = owed + 1
            /\ Goto(w, "push")
    /\ UNCHANGED <<recorderVars, counterVars, m_clientLock, m_allKeys, m_lock, report, reports>>

\* Fault: the buffer of a key that is given up is not freed.
Push_Leaks(w) ==
    /\ pc[w] = "push"
    /\ IF ~request[w].busy
       THEN m_allKeys' = Append(m_allKeys, request[w].buf) /\ UNCHANGED owed
       ELSE owed' = owed - 1 /\ UNCHANGED m_allKeys
    /\ m_topKeyLock' = None
    /\ request' = [request EXCEPT ![w].buf = None, ![w].busy = FALSE]
    /\ Goto(w, "client")
    /\ UNCHANGED <<recorderVars, counterVars, m_clientLock, buffers, m_lock,
                   report, replies, reports>>

Push(w) ==
    /\ pc[w] = "push"
    /\ IF ~request[w].busy
       THEN m_allKeys' = Append(m_allKeys, request[w].buf) /\ UNCHANGED <<buffers, owed>>
       ELSE /\ buffers' = Without(buffers, {request[w].buf})
            /\ owed' = owed - 1
            /\ UNCHANGED m_allKeys
    /\ m_topKeyLock' = None
    /\ request' = [request EXCEPT ![w].buf = None, ![w].busy = FALSE]
    /\ Goto(w, "client")
    /\ UNCHANGED <<recorderVars, counterVars, m_clientLock, m_lock, report,
                   replies, reports>>

\* Fault: the client's counters are not locked.
CountClient_Unlocked(w) ==
    /\ pc[w] = "client"
    /\ m_clientLock' = w
    /\ request' = [request EXCEPT ![w].count = request_num]
    /\ Goto(w, "clientWrite")
    /\ UNCHANGED <<recorderVars, counterVars, m_topKeyLock, m_allKeys, buffers,
                   m_lock, report, replies, reports, owed>>

\* The client's record, under its lock: ++request_num is a read and a write.
CountClient(w) ==
    /\ pc[w] = "client" /\ m_clientLock = None
    /\ m_clientLock' = w
    /\ request' = [request EXCEPT ![w].count = request_num]
    /\ Goto(w, "clientWrite")
    /\ UNCHANGED <<recorderVars, counterVars, m_topKeyLock, m_allKeys, buffers,
                   m_lock, report, replies, reports, owed>>

ClientCounted(w) ==
    /\ pc[w] = "clientWrite"
    /\ request_num' = request[w].count + 1
    /\ finished' = finished + 1
    /\ m_clientLock' = None
    /\ Goto(w, IF request[w].servant = None THEN "idle" ELSE "backend")
    /\ request' = [request EXCEPT ![w].count = 0]
    /\ UNCHANGED <<recorderVars, m_AllRequestTimes, m_topKeyLock,
                   m_allKeys, buffers, m_lock, report, replies, reports, owed>>

\* The server's record, under its lock.
CountServant(w) ==
    /\ pc[w] = "backend"
    /\ m_AllRequestTimes' = [m_AllRequestTimes EXCEPT ![request[w].servant] = @ + 1]
    /\ Goto(w, "idle")
    /\ request' = [request EXCEPT ![w] = NoRequest]
    /\ UNCHANGED <<recorderVars, request_num, finished, lockVars, m_allKeys, buffers, m_lock,
                   report, replies, reports, owed>>

-----------------------------------------------------------------------------
(* CTopKeyRecorderThread::run.                                             *)

Wake ==
    /\ recorder = "sleep"
    /\ recorder' = "drain" /\ m_processTopKey' = TRUE
    /\ UNCHANGED <<m_allKeys, inHand, buffers, m_keyCntList, nodes, m_keyCntMap, m_lock, pc,
                   request, lockVars, counterVars, report, replies, reports, recent, owed>>

Pop ==
    /\ recorder = "drain"
    /\ IF m_allKeys # <<>>
       THEN /\ inHand' = Head(m_allKeys)
            /\ m_allKeys' = Tail(m_allKeys)
            /\ recorder' = "record"
            /\ UNCHANGED m_processTopKey
       ELSE /\ recorder' = "sleep" /\ m_processTopKey' = FALSE
            /\ UNCHANGED <<m_allKeys, inHand>>
    /\ UNCHANGED <<buffers, m_keyCntList, nodes, m_keyCntMap, m_lock, pc, request, lockVars,
                   counterVars, report, replies, reports, recent, owed>>

EntryOf(node) == CHOOSE k \in DOMAIN m_keyCntMap : m_keyCntMap[k].node = node

\* Fault: the walk starts at the front of the list.
delListMap_FromFront(list) ==
    LET rare == {n \in DOMAIN list : nodes[list[n]] < nodes[Last(list)]}
    IN {list[n] : n \in IF rare = {} THEN {Len(list)} ELSE rare}

\* delListMap: of the nodes behind the first midSize, those counted less often
\* than the last one; the last one if there are none.
delListMap(list) ==
    LET rare == {n \in (midSize + 1)..Len(list) : nodes[list[n]] < nodes[Last(list)]}
    IN {list[n] : n \in IF rare = {} THEN {Len(list)} ELSE rare}

\* History: the last recorded, as many as are to be kept.
Remember(key) ==
    LET all == <<key>> \o Spared(recent, {key})
    IN recent' = SubSeq(all, 1, Min({Len(all), midSize + 1}))

NewKey(key) ==
    LET victims == IF Len(m_keyCntList) >= m_maxKeyCnt THEN delListMap(m_keyCntList) ELSE {}
        erased == {EntryOf(v) : v \in victims}
        node == Unused(Without(nodes, victims))
    IN /\ buffers' = Without(buffers, {m_keyCntMap[k].buf : k \in erased})
       /\ nodes' = With(Without(nodes, victims), node, 1)
       /\ m_keyCntList' = <<node>> \o Spared(m_keyCntList, victims)
       /\ m_keyCntMap' = With(Without(m_keyCntMap, erased), key, [buf |-> inHand, node |-> node])
       /\ owed' = owed - SumFunctionOnSet(nodes, victims)

KnownKey(key) ==
    LET old == m_keyCntMap[key].node
        node == Unused(Without(nodes, {old}))
    IN /\ buffers' = Without(buffers, {inHand})
       /\ nodes' = With(Without(nodes, {old}), node, nodes[old] + 1)
       /\ m_keyCntList' = <<node>> \o Spared(m_keyCntList, {old})
       /\ m_keyCntMap' = [m_keyCntMap EXCEPT ![key].node = node]
       /\ UNCHANGED owed

\* keyRecorder: the key is looked up before the lock is taken, which nobody but
\* this thread could make wrong.
keyRecorder ==
    /\ recorder = "record" /\ m_lock = None
    /\ LET key == buffers[inHand] IN
         /\ IF key \in DOMAIN m_keyCntMap THEN KnownKey(key) ELSE NewKey(key)
         /\ Remember(key)
    /\ inHand' = None /\ recorder' = "drain"
    /\ UNCHANGED <<m_processTopKey, m_allKeys, m_lock, pc, request, lockVars, counterVars,
                   report, replies, reports>>

-----------------------------------------------------------------------------
(* CTopKeySorter: the map is copied under the lock and sorted after it; the *)
(* copy holds the pointers of the map.                                     *)

sortTopKey(w) ==
    /\ pc[w] = "idle" /\ reports < MaxReports
    /\ m_lock = None
    /\ m_lock' = w
    /\ reports' = reports + 1
    /\ report' = [report EXCEPT ![w] = m_keyCntMap]
    /\ Goto(w, "copy")
    /\ UNCHANGED <<recorderVars, counterVars, lockVars, m_allKeys, buffers, request,
                   replies, owed>>

Copied(w) ==
    /\ pc[w] = "copy"
    /\ m_lock' = None
    /\ report' = [report EXCEPT ![w] = EmptyMap]
    /\ Goto(w, "idle")
    /\ UNCHANGED <<recorderVars, counterVars, lockVars, m_allKeys, buffers, request,
                   replies, reports, owed>>

Next ==
    \/ \E w \in Workers, key \in Keys \union {None}, s \in Servants \union {None} :
         replyClientFinished(w, key, s)
    \/ \E w \in Workers :
         \/ Push(w)
         \/ CountClient(w) \/ ClientCounted(w) \/ CountServant(w)
         \/ sortTopKey(w) \/ Copied(w)
    \/ Wake \/ Pop \/ keyRecorder

Spec == Init /\ [][Next]_vars

-----------------------------------------------------------------------------
\* Every buffer has one owner, every node one key: nothing is leaked, freed
\* twice or used after it was freed, and delListMap always finds the entry of a
\* node (it would walk for ever if it did not).
Owners(b) ==
    Cardinality({w \in Workers : request[w].buf = b})
      + Cardinality({n \in DOMAIN m_allKeys : m_allKeys[n] = b})
      + (IF inHand = b THEN 1 ELSE 0)
      + Cardinality({k \in DOMAIN m_keyCntMap : m_keyCntMap[k].buf = b})
OneOwner ==
    /\ \A b \in DOMAIN buffers : Owners(b) = 1
    /\ \A k \in DOMAIN m_keyCntMap :
         m_keyCntMap[k].buf \in DOMAIN buffers /\ buffers[m_keyCntMap[k].buf] = k
    /\ DOMAIN nodes = ToSet(m_keyCntList) /\ Len(m_keyCntList) = Cardinality(DOMAIN nodes)
    /\ \A n \in DOMAIN nodes :
         Cardinality({k \in DOMAIN m_keyCntMap : m_keyCntMap[k].node = n}) = 1
    /\ Cardinality(DOMAIN m_keyCntMap) = Len(m_keyCntList)

\* The list does not outgrow its limit, and giving up keys spares those that
\* were recorded last.
RecentKept ==
    /\ Len(m_keyCntList) <= m_maxKeyCnt
    /\ \A n \in DOMAIN recent : recent[n] \in DOMAIN m_keyCntMap

Waiting == Len(m_allKeys) + (IF inHand = None THEN 0 ELSE 1)
             + Cardinality({w \in Workers : request[w].buf # None})

\* The counters are exact, whatever the workers do at the same time: what was
\* taken for recording and neither forgotten with its key nor given up is counted
\* in the list or waits, and every finished request is counted, for the servers
\* never more than for the clients.  While TOPKEY copies the map nothing is
\* recorded.  (Afterwards it is, and what was copied may be freed while it is
\* sorted and printed.)
CountsExact ==
    /\ TypeOK
    /\ SumFunctionOnSet(nodes, DOMAIN nodes) + Waiting = owed
    /\ request_num = finished
    /\ SumFunctionOnSet(m_AllRequestTimes, Servants) <= request_num
    /\ \A w \in Workers : pc[w] = "copy" => report[w] = m_keyCntMap
=============================================================================
