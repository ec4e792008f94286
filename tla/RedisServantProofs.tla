------------------------- MODULE RedisServantProofs -------------------------
(***************************************************************************)
(* Proofs about RedisServant, for every set of packets and connections,    *)
(* every pool size and any number of restarts.                             *)
(***************************************************************************)
EXTENDS RedisServant, DataLemmas

-----------------------------------------------------------------------------
(* Type correctness.                                                       *)

\* A packet that is to give a connection back has one: without this, what
\* unSelect() appends to the pool need not be a connection.
HoldersOwn == \A p \in Packets : pc[p] \in Holding => redisSocket[p] \in Conns

TypeInv == TypeOK /\ HoldersOwn

LEMMA InitTypeInv == Init => TypeInv
<1> SUFFICES ASSUME Init PROVE TypeInv
  OBVIOUS
<1> USE PoolSizeAssumption, BoundsAssumption
<1>1. m_pool \in Seq(Conns) /\ heap \in SUBSET Conns
  <2>1. CASE Started
    <3>1. m_pool \in [1..PoolSize -> Conns] /\ heap = ToSet(m_pool)
      BY <2>1 DEF Started
    <3>2. m_pool \in Seq(Conns)
      BY <3>1
    <3> QED
      BY <3>1, <3>2, EmptyQueue
  <2>2. CASE NotStarted
    BY <2>2 DEF NotStarted
  <2> QED
    BY <2>1, <2>2 DEF Init
<1>2. m_actived \in BOOLEAN /\ listener \in ListenerStages
  BY DEF Init, Started, NotStarted, ListenerStages
<1>3. pc \in [Packets -> Stages] /\ redisSocket \in [Packets -> Conns \union {NoConn}]
  BY DEF Init, Stages
<1>4. /\ m_requests \in Seq(Packets)
      /\ m_activeConnNums \in Int
      /\ m_reconnCount \in 0..MaxReconnCount
      /\ opened \in 0..PoolSize
      /\ outages \in 0..MaxOutages
  BY DEF Init
<1>5. HoldersOwn
  BY DEF Init, HoldersOwn, Holding
<1> QED
  BY <1>1, <1>2, <1>3, <1>4, <1>5 DEF Init, TypeInv, TypeOK, PoolTypeOK

LEMMA StepTypeInv == TypeInv /\ [Next]_vars => TypeInv'
<1> SUFFICES ASSUME TypeInv, [Next]_vars PROVE TypeInv'
  OBVIOUS
<1> USE PoolSizeAssumption, BoundsAssumption
        DEF TypeInv, HoldersOwn, Holding, TypeOK, PoolTypeOK, Stages, AtRest, ListenerStages, SendOutcomes,
            poolVars, servantVars, listenerVars, serverVars
<1>1. ASSUME NEW p \in Packets, Request(p)
      PROVE  TypeInv'
  BY <1>1 DEF Request, Goto
<1>2. ASSUME NEW p \in Packets, SelectConnection(p)
      PROVE  TypeInv'
  <2>1. PICK c \in Conns :
          /\ TakeIdle(c) \/ (ConnectSucceeds /\ ConnectNew(c))
          /\ redisSocket' = [redisSocket EXCEPT ![p] = c]
    BY <1>2 DEF SelectConnection
  <2>2. PoolTypeOK'
    <3>1. CASE TakeIdle(c)
      BY <3>1 DEF TakeIdle
    <3>2. CASE ConnectNew(c)
      BY <3>2 DEF ConnectNew
    <3> QED
      BY <2>1, <3>1, <3>2
  <2>3. PICK s \in SendOutcomes : Goto(p, s)
    BY <1>2 DEF SelectConnection
  <2>4. pc' \in [Packets -> Stages] /\ victim' \in Packets \union {NoPacket}
    BY <2>3 DEF Goto
  <2>5. HoldersOwn'
    BY <2>1, <2>3 DEF Goto
  <2> QED
    BY <1>2, <2>1, <2>2, <2>4, <2>5 DEF SelectConnection
<1>3. ASSUME NEW p \in Packets, SelectNothing(p)
      PROVE  TypeInv'
  BY <1>3 DEF SelectNothing, SelectNull, Goto
<1>4. ASSUME NEW p \in Packets, CheckActived(p)
      PROVE  TypeInv'
  BY <1>4 DEF CheckActived, Goto
<1>5. ASSUME NEW p \in Packets, AppendRequest(p)
      PROVE  TypeInv'
  BY <1>5 DEF AppendRequest, Goto
<1>6. ASSUME NEW p \in Packets, SendRequest(p)
      PROVE  TypeInv'
  BY <1>6 DEF SendRequest, Goto
<1>7. ASSUME NEW p \in Packets, RecvReply(p) \/ RecvBroken(p) \/ NoOneWaits(p)
      PROVE  TypeInv'
  BY <1>7 DEF RecvReply, RecvBroken, NoOneWaits, Goto
<1>8. ASSUME NEW p \in Packets, HandOver(p)
      PROVE  TypeInv'
  <2>1. Head(m_requests) \in Packets /\ Tail(m_requests) \in Seq(Packets)
    BY <1>8 DEF HandOver
  <2>2. PICK s \in SendOutcomes :
          pc' = [pc EXCEPT ![p] = "finish", ![Head(m_requests)] = s]
    BY <1>8 DEF HandOver
  <2>3. pc' \in [Packets -> Stages]
    BY <2>1, <2>2
  <2>4. redisSocket' \in [Packets -> Conns \union {NoConn}]
    BY <1>8, <2>1 DEF HandOver
  <2>5. /\ m_requests' = Tail(m_requests)
        /\ UNCHANGED <<poolVars, m_actived, m_locker, victim, listenerVars, serverVars>>
    BY <1>8 DEF HandOver
  <2>6. HoldersOwn'
    BY <1>8, <2>1, <2>2 DEF HandOver
  <2> QED
    BY <2>1, <2>3, <2>4, <2>5, <2>6
<1>9. ASSUME NEW p \in Packets, ReturnConnection(p)
      PROVE  TypeInv'
  <2>1. redisSocket[p] \in Conns
    BY <1>9 DEF ReturnConnection
  <2> QED
    BY <1>9, <2>1 DEF ReturnConnection, UnSelect, Goto
<1>10. ASSUME NEW p \in Packets, FreeConnection(p)
       PROVE  TypeInv'
  BY <1>10 DEF FreeConnection, Free, Goto
<1>11. ASSUME NEW p \in Packets, Reply(p) \/ NextPipelined(p)
       PROVE  TypeInv'
  BY <1>11 DEF Reply, NextPipelined, Goto
<1>12. ASSUME ServerLost \/ WatchLost \/ GiveUp \/ ReconnectTimer \/ StopDrained
       PROVE  TypeInv'
  BY <1>12 DEF ServerLost, WatchLost, GiveUp, ReconnectTimer, StopDrained
<1>13. ASSUME StopBegin
       PROVE  TypeInv'
  BY <1>13 DEF StopBegin, Close
<1>14. ASSUME StopFinishOne
       PROVE  TypeInv'
  <2>1. Head(m_requests) \in Packets /\ Tail(m_requests) \in Seq(Packets)
    BY <1>14 DEF StopFinishOne
  <2> QED
    BY <1>14, <2>1 DEF StopFinishOne
<1>15. ASSUME StopEnd
       PROVE  TypeInv'
  BY <1>15 DEF StopEnd
<1>16. ASSUME Reconnect
       PROVE  TypeInv'
  BY <1>16 DEF Reconnect, Close
<1>17. ASSUME OpenConnection
       PROVE  TypeInv'
  BY <1>17 DEF OpenConnection, OpenOne
<1>18. ASSUME OpenFailed
       PROVE  TypeInv'
  BY <1>18 DEF OpenFailed, Close
<1>19. ASSUME StartEnd
       PROVE  TypeInv'
  BY <1>19 DEF StartEnd
<1>20. ASSUME Server
       PROVE  TypeInv'
  <2>1. CASE ServerDown
    <3>1. outages \in 0..MaxOutages /\ outages < MaxOutages /\ outages' = outages + 1
      BY <2>1 DEF ServerDown
    <3>0. outages' \in 0..MaxOutages
      BY ONLY <3>1, BoundsAssumption
    <3>3. serverUp' \in BOOLEAN
      BY <2>1 DEF ServerDown
    <3>2. UNCHANGED <<poolVars, servantVars, listenerVars>>
      BY <2>1 DEF ServerDown
    <3> QED
      BY <3>0, <3>2, <3>3
  <2>2. CASE ServerBack
    BY <2>2 DEF ServerBack
  <2> QED
    BY <1>20, <2>1, <2>2 DEF Server
<1>21. CASE UNCHANGED vars
  BY <1>21 DEF vars
<1>22. ASSUME NEW p \in Packets, PacketStep(p)
       PROVE  TypeInv'
  BY <1>2, <1>3, <1>4, <1>5, <1>6, <1>7, <1>8, <1>9, <1>10, <1>11, <1>22
  DEF PacketStep
<1>23. CASE ListenerStep
  BY <1>12, <1>13, <1>14, <1>15, <1>16, <1>17, <1>18, <1>19, <1>23 DEF ListenerStep
<1>24. CASE Next
  BY <1>1, <1>20, <1>22, <1>23, <1>24 DEF Next
<1> QED
  BY <1>21, <1>24

\* Every variable keeps its type; in particular the reconnection counter never
\* passes its limit and open() never opens more than poolSize connections.
THEOREM TypeCorrect == Spec => []TypeOK
<1>1. TypeInv => TypeOK
  BY DEF TypeInv
<1> QED
  BY <1>1, InitTypeInv, StepTypeInv, PTL DEF Spec

-----------------------------------------------------------------------------
(* The steps that matter to the queue and to the connections.              *)

\* A step of the packet's handler that neither takes nor gives anything.
Quiet(p) ==
    \/ Request(p) \/ SelectNothing(p) \/ CheckActived(p)
    \/ SendRequest(p) \/ RecvReply(p) \/ RecvBroken(p)
    \/ NoOneWaits(p) \/ Reply(p) \/ NextPipelined(p)

\* A step of the listener or the server that touches no connection and no
\* packet.
Aside ==
    \/ ServerLost \/ WatchLost \/ StopDrained \/ StopEnd
    \/ GiveUp \/ StartEnd \/ ReconnectTimer \/ Server

\* The steps, by what they do to the queue and to the pool.
LEMMA StepCases ==
    ASSUME Next, NEW Goal,
           \A p \in Packets : Quiet(p) => Goal,
           \A p \in Packets : SelectConnection(p) => Goal,
           \A p \in Packets : AppendRequest(p) => Goal,
           \A p \in Packets : HandOver(p) => Goal,
           \A p \in Packets : ReturnConnection(p) => Goal,
           \A p \in Packets : FreeConnection(p) => Goal,
           StopFinishOne => Goal,
           StopBegin \/ Reconnect \/ OpenFailed => Goal,
           OpenConnection => Goal,
           Aside => Goal
    PROVE  Goal
<1>1. ASSUME NEW p \in Packets, Request(p) \/ PacketStep(p)
      PROVE  Goal
  BY <1>1 DEF PacketStep, Quiet
<1>2. ASSUME ListenerStep \/ Server
      PROVE  Goal
  BY <1>2 DEF ListenerStep, Aside
<1> QED
  BY <1>1, <1>2 DEF Next

\* A quiet step keeps the queue, the pool, and who owns which connection.
LEMMA QuietStep ==
    ASSUME TypeInv, NEW p \in Packets, Quiet(p)
    PROVE  /\ UNCHANGED <<poolVars, m_requests, listener>>
           /\ \A q \in Packets : pc'[q] = "queued" <=> pc[q] = "queued"
           /\ Holders' = Holders
           /\ \A q \in Holders : redisSocket'[q] = redisSocket[q]
<1> USE DEF TypeInv, TypeOK, Goto, Stages, listenerVars
<1>1. /\ UNCHANGED <<poolVars, m_requests, listener>>
      /\ \A q \in Packets : pc'[q] = "queued" <=> pc[q] = "queued"
      /\ \A q \in Packets : pc'[q] \in Holding <=> pc[q] \in Holding
      /\ \A q \in Packets : pc[q] \in Holding => redisSocket'[q] = redisSocket[q]
  <2>1. CASE Request(p)
    BY <2>1 DEF Request, Holding
  <2>2. CASE SelectNothing(p)
    BY <2>2 DEF SelectNothing, SelectNull, poolVars, Holding
  <2>3. CASE CheckActived(p)
    BY <2>3 DEF CheckActived, Holding
  <2>4. CASE SendRequest(p)
    BY <2>4 DEF SendRequest, SendOutcomes, Holding
  <2>5. CASE RecvReply(p) \/ RecvBroken(p) \/ NoOneWaits(p)
    BY <2>5 DEF RecvReply, RecvBroken, NoOneWaits, Holding
  <2>6. CASE Reply(p) \/ NextPipelined(p)
    BY <2>6 DEF Reply, NextPipelined, Holding
  <2> QED
    BY <2>1, <2>2, <2>3, <2>4, <2>5, <2>6 DEF Quiet
<1> QED
  BY <1>1 DEF Holders

\* So does a step aside.
LEMMA AsideStep ==
    ASSUME Aside
    PROVE  UNCHANGED <<poolVars, m_requests, pc, redisSocket>>
<1> USE DEF servantVars
<1>1. CASE ServerLost \/ WatchLost \/ StopDrained \/ GiveUp \/ ReconnectTimer
  BY <1>1 DEF ServerLost, WatchLost, StopDrained, GiveUp, ReconnectTimer
<1>2. CASE StopEnd \/ StartEnd
  BY <1>2 DEF StopEnd, StartEnd
<1>3. CASE Server
  BY <1>3 DEF Server, ServerDown, ServerBack
<1> QED
  BY <1>1, <1>2, <1>3 DEF Aside

-----------------------------------------------------------------------------
(* The queue of waiting requests.                                          *)

LEMMA InitQueueConsistent == Init => QueueConsistent
BY DEF Init, QueueConsistent, IsInjective, ToSet

LEMMA StepQueueConsistent ==
    TypeInv /\ QueueConsistent /\ [Next]_vars => QueueConsistent'
<1> SUFFICES ASSUME TypeInv, QueueConsistent, [Next]_vars PROVE QueueConsistent'
  OBVIOUS
<1>0. /\ m_requests \in Seq(Packets)
      /\ pc \in [Packets -> Stages]
      /\ IsInjective(m_requests)
      /\ ToSet(m_requests) = {p \in Packets : pc[p] = "queued"}
  BY DEF TypeInv, TypeOK, QueueConsistent
<1>1. ASSUME UNCHANGED m_requests,
             \A q \in Packets : pc'[q] = "queued" <=> pc[q] = "queued"
      PROVE  QueueConsistent'
  BY <1>0, <1>1 DEF QueueConsistent
<1>2. ASSUME NEW p \in Packets, Quiet(p)
      PROVE  QueueConsistent'
  BY <1>1, <1>2, QuietStep
<1>3. ASSUME NEW p \in Packets, SelectConnection(p)
      PROVE  QueueConsistent'
  <2>1. \E s \in SendOutcomes : pc' = [pc EXCEPT ![p] = s]
    BY <1>3 DEF SelectConnection, Goto
  <2> QED
    BY <1>0, <1>1, <1>3, <2>1 DEF SelectConnection, SendOutcomes
<1>4. ASSUME NEW p \in Packets, AppendRequest(p)
      PROVE  QueueConsistent'
  <2>1. /\ m_requests' = Append(m_requests, p)
        /\ pc[p] = "append"
        /\ pc' = [pc EXCEPT ![p] = "queued"]
    BY <1>4 DEF AppendRequest, Goto
  <2>2. IsInjective(m_requests') /\ ToSet(m_requests') = ToSet(m_requests) \union {p}
    BY <1>0, <2>1, AppendTail
  <2> QED
    BY <1>0, <2>1, <2>2 DEF QueueConsistent
<1>5. ASSUME NEW p \in Packets, HandOver(p)
      PROVE  QueueConsistent'
  <2> DEFINE q == Head(m_requests)
  <2>1. /\ m_requests # <<>>
        /\ m_requests' = Tail(m_requests)
        /\ pc[p] = "complete"
        /\ \E s \in SendOutcomes : pc' = [pc EXCEPT ![p] = "finish", ![q] = s]
    BY <1>5 DEF HandOver
  <2>2. /\ q \in Packets
        /\ IsInjective(m_requests')
        /\ ToSet(m_requests') = ToSet(m_requests) \ {q}
    BY <1>0, <2>1, TakeHead
  <2> HIDE DEF q
  <2> QED
    BY <1>0, <2>1, <2>2 DEF QueueConsistent, SendOutcomes
<1>6. ASSUME NEW p \in Packets, ReturnConnection(p) \/ FreeConnection(p)
      PROVE  QueueConsistent'
  BY <1>0, <1>1, <1>6 DEF ReturnConnection, FreeConnection, Goto
<1>7. ASSUME StopFinishOne
      PROVE  QueueConsistent'
  <2> DEFINE q == Head(m_requests)
  <2>1. /\ m_requests # <<>>
        /\ m_requests' = Tail(m_requests)
        /\ pc' = [pc EXCEPT ![q] = "finish"]
    BY <1>7 DEF StopFinishOne
  <2>2. /\ q \in Packets
        /\ IsInjective(m_requests')
        /\ ToSet(m_requests') = ToSet(m_requests) \ {q}
    BY <1>0, <2>1, TakeHead
  <2> HIDE DEF q
  <2> QED
    BY <1>0, <2>1, <2>2 DEF QueueConsistent
<1>8. ASSUME StopBegin \/ Reconnect \/ OpenFailed \/ OpenConnection \/ Aside
      PROVE  QueueConsistent'
  BY <1>1, <1>8, AsideStep
  DEF StopBegin, Reconnect, OpenFailed, OpenConnection, servantVars
<1>9. CASE Next
  BY <1>2, <1>3, <1>4, <1>5, <1>6, <1>7, <1>8, <1>9, StepCases
<1>10. CASE UNCHANGED vars
  BY <1>1, <1>10 DEF vars, servantVars
<1> QED
  BY <1>9, <1>10

\* The queue holds exactly the packets that wait, each of them once.
THEOREM QueueIsConsistent == Spec => []QueueConsistent
<1>1. Init => TypeInv /\ QueueConsistent
  BY InitTypeInv, InitQueueConsistent
<1>2. TypeInv /\ QueueConsistent /\ [Next]_vars => TypeInv' /\ QueueConsistent'
  BY StepTypeInv, StepQueueConsistent
<1> QED
  BY <1>1, <1>2, PTL DEF Spec

-----------------------------------------------------------------------------
(* Who owns which connection.                                              *)

Inv == TypeInv /\ QueueConsistent /\ ConnExclusive /\ NoLeak

\* What the steps that pass connections around do to the set of owners.
LEMMA SelectStep ==
    ASSUME TypeInv, NEW p \in Packets, SelectConnection(p)
    PROVE  /\ p \notin Holders
           /\ Holders' = Holders \union {p}
           /\ \E c \in Conns :
                /\ TakeIdle(c) \/ ConnectNew(c)
                /\ redisSocket'[p] = c
                /\ \A q \in Holders : redisSocket'[q] = redisSocket[q]
<1>1. /\ pc \in [Packets -> Stages]
      /\ redisSocket \in [Packets -> Conns \union {NoConn}]
      /\ pc[p] = "select"
  BY DEF TypeInv, TypeOK, SelectConnection
<1>2. PICK s \in SendOutcomes : pc' = [pc EXCEPT ![p] = s]
  BY DEF SelectConnection, Goto
<1>3. s \in Holding
  BY DEF SendOutcomes, Holding
<1>4. p \notin Holders /\ Holders' = Holders \union {p}
  BY <1>1, <1>2, <1>3 DEF Holders, Holding
<1>5. PICK c \in Conns :
        /\ TakeIdle(c) \/ ConnectNew(c)
        /\ redisSocket' = [redisSocket EXCEPT ![p] = c]
  BY DEF SelectConnection
<1>6. redisSocket'[p] = c /\ \A q \in Holders : redisSocket'[q] = redisSocket[q]
  BY <1>1, <1>4, <1>5 DEF Holders
<1> QED
  BY <1>4, <1>5, <1>6

LEMMA HandOverStep ==
    ASSUME TypeInv, QueueConsistent, NEW p \in Packets, HandOver(p)
    PROVE  /\ UNCHANGED poolVars
           /\ p \in Holders
           /\ \E q \in Packets :
                /\ q \notin Holders
                /\ Holders' = (Holders \ {p}) \union {q}
                /\ redisSocket'[q] = redisSocket[p]
                /\ \A r \in Holders : redisSocket'[r] = redisSocket[r]
<1> DEFINE q == Head(m_requests)
<1>1. /\ pc \in [Packets -> Stages]
      /\ redisSocket \in [Packets -> Conns \union {NoConn}]
      /\ pc[p] = "complete"
      /\ m_requests \in Seq(Packets) \ {<<>>}
      /\ UNCHANGED poolVars
  BY DEF TypeInv, TypeOK, HandOver
<1>2. q \in Packets /\ pc[q] = "queued"
  BY <1>1, TakeHead DEF QueueConsistent
<1>3. PICK s \in SendOutcomes : pc' = [pc EXCEPT ![p] = "finish", ![q] = s]
  BY DEF HandOver
<1>4. redisSocket' = [redisSocket EXCEPT ![q] = redisSocket[p]]
  BY DEF HandOver
<1>5. s \in Holding
  BY DEF SendOutcomes, Holding
<1> HIDE DEF q
<1>6. p \in Holders /\ q \notin Holders
  BY <1>1, <1>2 DEF Holders, Holding
<1>7. Holders' = (Holders \ {p}) \union {q}
  BY <1>1, <1>2, <1>3, <1>5 DEF Holders, Holding
<1>8. /\ redisSocket'[q] = redisSocket[p]
      /\ \A r \in Holders : redisSocket'[r] = redisSocket[r]
  BY <1>1, <1>2, <1>4, <1>6 DEF Holders
<1> QED
  BY <1>1, <1>2, <1>6, <1>7, <1>8

LEMMA GiveStep ==
    ASSUME TypeInv, NEW p \in Packets, ReturnConnection(p) \/ FreeConnection(p)
    PROVE  /\ p \in Holders
           /\ Holders' = Holders \ {p}
           /\ UNCHANGED redisSocket
           /\ UnSelect(redisSocket[p]) \/ Free(redisSocket[p])
           /\ redisSocket[p] \in Conns
<1>1. /\ pc \in [Packets -> Stages]
      /\ pc[p] \in Holding
      /\ pc' = [pc EXCEPT ![p] = "finish"]
      /\ UNCHANGED redisSocket
      /\ UnSelect(redisSocket[p]) \/ Free(redisSocket[p])
  BY DEF TypeInv, TypeOK, ReturnConnection, FreeConnection, Goto, Holding
<1>2. p \in Holders /\ Holders' = Holders \ {p}
  BY <1>1 DEF Holders, Holding
<1> QED
  BY <1>1, <1>2 DEF TypeInv, HoldersOwn

LEMMA StopFinishStep ==
    ASSUME TypeInv, QueueConsistent, StopFinishOne
    PROVE  UNCHANGED <<poolVars, redisSocket, Holders>>
<1> DEFINE q == Head(m_requests)
<1>1. /\ pc \in [Packets -> Stages]
      /\ m_requests \in Seq(Packets) \ {<<>>}
      /\ pc' = [pc EXCEPT ![q] = "finish"]
      /\ UNCHANGED <<poolVars, redisSocket>>
  BY DEF TypeInv, TypeOK, StopFinishOne
<1>2. q \in Packets /\ pc[q] = "queued"
  BY <1>1, TakeHead DEF QueueConsistent
<1> HIDE DEF q
<1>3. Holders' = Holders
  BY <1>1, <1>2 DEF Holders, Holding
<1> QED
  BY <1>1, <1>3

LEMMA InitConnections == Init => ConnExclusive /\ NoLeak
<1> SUFFICES ASSUME Init PROVE ConnExclusive /\ NoLeak
  OBVIOUS
<1>1. Holders = {}
  BY DEF Init, Holders, Holding
<1>2. IsInjective(m_pool) /\ heap = ToSet(m_pool)
  <2>1. CASE Started
    BY <2>1 DEF Started
  <2>2. CASE NotStarted
    BY <2>2 DEF NotStarted, IsInjective, ToSet
  <2> QED
    BY <2>1, <2>2 DEF Init
<1> QED
  BY <1>1, <1>2 DEF ConnExclusive, NoLeak

LEMMA StepConnections == Inv /\ [Next]_vars => ConnExclusive' /\ NoLeak'
<1> SUFFICES ASSUME Inv, [Next]_vars PROVE ConnExclusive' /\ NoLeak'
  OBVIOUS
<1> DEFINE Goal == ConnExclusive' /\ NoLeak'
<1>0. /\ m_pool \in Seq(Conns)
      /\ heap \subseteq Conns
      /\ IsInjective(m_pool)
      /\ ToSet(m_pool) \subseteq heap
      /\ \A p \in Holders : redisSocket[p] \in heap \ ToSet(m_pool)
      /\ \A p, q \in Holders : p # q => redisSocket[p] # redisSocket[q]
      /\ heap = ToSet(m_pool) \union {redisSocket[p] : p \in Holders}
      /\ TypeInv
      /\ QueueConsistent
  BY DEF Inv, TypeInv, TypeOK, PoolTypeOK, ConnExclusive, NoLeak
<1>1. ASSUME UNCHANGED <<m_pool, heap, Holders>>,
             \A q \in Holders : redisSocket'[q] = redisSocket[q]
      PROVE  Goal
  BY <1>0, <1>1 DEF ConnExclusive, NoLeak
<1>2. ASSUME NEW p \in Packets, Quiet(p)
      PROVE  Goal
  BY <1>0, <1>1, <1>2, QuietStep DEF poolVars
<1>3. ASSUME NEW p \in Packets, SelectConnection(p)
      PROVE  Goal
  <2>1. p \notin Holders /\ Holders' = Holders \union {p}
    BY <1>0, <1>3, SelectStep
  <2>2. PICK c \in Conns :
          /\ TakeIdle(c) \/ ConnectNew(c)
          /\ redisSocket'[p] = c
          /\ \A q \in Holders : redisSocket'[q] = redisSocket[q]
    BY <1>0, <1>3, SelectStep
  <2>3. CASE TakeIdle(c)
    <3>1. /\ c \in ToSet(m_pool)
          /\ IsInjective(m_pool')
          /\ ToSet(m_pool') = ToSet(m_pool) \ {c}
          /\ heap' = heap
      BY <1>0, <2>3, TakeHead DEF TakeIdle
    <3> QED
      BY <1>0, <2>1, <2>2, <3>1 DEF ConnExclusive, NoLeak
  <2>4. CASE ConnectNew(c)
    <3>1. c \notin heap /\ heap' = heap \union {c} /\ m_pool' = m_pool
      BY <2>4 DEF ConnectNew, Fresh
    <3> QED
      BY <1>0, <2>1, <2>2, <3>1 DEF ConnExclusive, NoLeak
  <2> QED
    BY <2>2, <2>3, <2>4
<1>4. ASSUME NEW p \in Packets, HandOver(p)
      PROVE  Goal
  <2>1. UNCHANGED <<m_pool, heap>> /\ p \in Holders
    BY <1>0, <1>4, HandOverStep DEF poolVars
  <2>2. PICK q \in Packets :
          /\ q \notin Holders
          /\ Holders' = (Holders \ {p}) \union {q}
          /\ redisSocket'[q] = redisSocket[p]
          /\ \A r \in Holders : redisSocket'[r] = redisSocket[r]
    BY <1>0, <1>4, HandOverStep
  <2> QED
    BY <1>0, <2>1, <2>2 DEF ConnExclusive, NoLeak
<1>5. ASSUME NEW p \in Packets, ReturnConnection(p) \/ FreeConnection(p)
      PROVE  Goal
  <2> DEFINE c == redisSocket[p]
  <2>1. /\ p \in Holders
        /\ Holders' = Holders \ {p}
        /\ UNCHANGED redisSocket
        /\ UnSelect(c) \/ Free(c)
        /\ c \in Conns
    BY <1>0, <1>5, GiveStep
  <2>2. CASE UnSelect(c)
    <3>1. /\ IsInjective(m_pool')
          /\ ToSet(m_pool') = ToSet(m_pool) \union {c}
          /\ heap' = heap
      BY <1>0, <2>1, <2>2, AppendTail DEF UnSelect
    <3> QED
      BY <1>0, <2>1, <3>1 DEF ConnExclusive, NoLeak
  <2>3. CASE Free(c)
    <3>1. heap' = heap \ {c} /\ m_pool' = m_pool
      BY <2>3 DEF Free
    <3> QED
      BY <1>0, <2>1, <3>1 DEF ConnExclusive, NoLeak
  <2> QED
    BY <2>1, <2>2, <2>3
<1>6. ASSUME StopFinishOne
      PROVE  Goal
  BY <1>0, <1>1, <1>6, StopFinishStep DEF poolVars
<1>7. ASSUME StopBegin \/ Reconnect \/ OpenFailed
      PROVE  Goal
  <2>1. Close /\ UNCHANGED <<pc, redisSocket>>
    BY <1>7 DEF StopBegin, Reconnect, OpenFailed, servantVars
  <2>2. /\ heap' = heap \ ToSet(m_pool)
        /\ ToSet(m_pool') = {}
        /\ IsInjective(m_pool')
        /\ Holders' = Holders
    BY <2>1, EmptyQueue, <1>0 DEF Close, Holders
  <2> QED
    BY <1>0, <2>1, <2>2 DEF ConnExclusive, NoLeak
<1>8. ASSUME OpenConnection
      PROVE  Goal
  <2>1. PICK c \in Conns : OpenOne(c)
    BY <1>8 DEF OpenConnection
  <2>2. UNCHANGED <<redisSocket, Holders>>
    BY <1>8 DEF OpenConnection, servantVars, Holders
  <2>3. /\ c \notin heap
        /\ heap' = heap \union {c}
        /\ IsInjective(m_pool')
        /\ ToSet(m_pool') = ToSet(m_pool) \union {c}
    BY <1>0, <2>1, AppendTail DEF OpenOne, Fresh
  <2> QED
    BY <1>0, <2>2, <2>3 DEF ConnExclusive, NoLeak
<1>9. ASSUME Aside \/ UNCHANGED vars
      PROVE  Goal
  BY <1>1, <1>9, AsideStep DEF vars, poolVars, servantVars, Holders
<1>10. ASSUME NEW p \in Packets, AppendRequest(p)
       PROVE  Goal
  <2>1. /\ UNCHANGED <<poolVars, redisSocket>>
        /\ pc[p] = "append"
        /\ pc' = [pc EXCEPT ![p] = "queued"]
    BY <1>10 DEF AppendRequest, Goto
  <2>2. Holders' = Holders
    BY <1>0, <2>1 DEF TypeInv, TypeOK, Holders, Holding
  <2> QED
    BY <1>1, <2>1, <2>2 DEF poolVars
<1> HIDE DEF Goal
<1>11. ASSUME Next
       PROVE  Goal
  BY <1>2, <1>3, <1>4, <1>5, <1>6, <1>7, <1>8, <1>9, <1>10, <1>11, StepCases
<1> QED
  BY <1>9, <1>11 DEF Goal

LEMMA InitInv == Init => Inv
BY InitTypeInv, InitQueueConsistent, InitConnections DEF Inv

LEMMA StepInv == Inv /\ [Next]_vars => Inv'
BY StepTypeInv, StepQueueConsistent, StepConnections DEF Inv

\* No two packets ever own the same connection, none is idle and lent at once,
\* and none that a packet owns has been deleted.
THEOREM ConnectionsAreExclusive == Spec => []ConnExclusive
<1>1. Inv => ConnExclusive
  BY DEF Inv
<1> QED
  BY <1>1, InitInv, StepInv, PTL DEF Spec

\* No connection is forgotten: each is idle in the pool or owned by a packet.
THEOREM ConnectionsAreNotLeaked == Spec => []NoLeak
<1>1. Inv => NoLeak
  BY DEF Inv
<1> QED
  BY <1>1, InitInv, StepInv, PTL DEF Spec

-----------------------------------------------------------------------------
(* What the other steps leave alone.                                       *)

\* A step that neither lends nor takes back a connection.
LEMMA OtherStep ==
    ASSUME Inv,
           \/ \E p \in Packets : Quiet(p) \/ AppendRequest(p)
           \/ StopFinishOne \/ StopBegin \/ Reconnect \/ OpenFailed
           \/ OpenConnection \/ Aside \/ UNCHANGED vars
    PROVE  UNCHANGED <<m_activeConnNums, Holders>>
<1>1. ASSUME NEW p \in Packets, Quiet(p)
      PROVE  UNCHANGED <<m_activeConnNums, Holders>>
  BY <1>1, QuietStep DEF Inv, poolVars
<1>2. ASSUME NEW p \in Packets, AppendRequest(p)
      PROVE  UNCHANGED <<m_activeConnNums, Holders>>
  BY <1>2 DEF AppendRequest, Goto, Inv, TypeInv, TypeOK, Holders, Holding, poolVars
<1>3. ASSUME StopFinishOne
      PROVE  UNCHANGED <<m_activeConnNums, Holders>>
  BY <1>3, StopFinishStep DEF Inv, poolVars
<1>4. ASSUME StopBegin \/ Reconnect \/ OpenFailed \/ OpenConnection
      PROVE  UNCHANGED <<m_activeConnNums, Holders>>
  BY <1>4 DEF StopBegin, Reconnect, OpenFailed, OpenConnection, Close, OpenOne,
              servantVars, Holders
<1>5. ASSUME Aside \/ UNCHANGED vars
      PROVE  UNCHANGED <<m_activeConnNums, Holders>>
  BY <1>5, AsideStep DEF vars, poolVars, servantVars, Holders
<1> QED
  BY <1>1, <1>2, <1>3, <1>4, <1>5

LEMMA HoldersFinite == IsFiniteSet(Holders) /\ Cardinality(Holders) \in Nat
<1>1. Holders \in SUBSET Packets
  BY DEF Holders
<1> QED
  BY <1>1, PacketsAssumption, FS_Subset, FS_CardinalityType

-----------------------------------------------------------------------------
(* The count of lent connections.                                          *)

LEMMA StepAccounting == Inv /\ Accounting /\ [Next]_vars => Accounting'
<1> SUFFICES ASSUME Inv, Accounting, [Next]_vars PROVE Accounting'
  OBVIOUS
<1>0. TypeInv /\ QueueConsistent /\ m_activeConnNums = Cardinality(Holders)
  BY DEF Inv, Accounting
<1>1. ASSUME UNCHANGED <<m_activeConnNums, Holders>>
      PROVE  Accounting'
  BY <1>0, <1>1 DEF Accounting
<1>2. ASSUME NEW p \in Packets, SelectConnection(p)
      PROVE  Accounting'
  <2>1. p \notin Holders /\ Holders' = Holders \union {p}
    BY <1>0, <1>2, SelectStep
  <2>2. m_activeConnNums' = m_activeConnNums + 1
    BY <1>2 DEF SelectConnection, TakeIdle, ConnectNew
  <2>3. Cardinality(Holders') = Cardinality(Holders) + 1
    BY <2>1, HoldersFinite, FS_AddElement
  <2> QED
    BY <1>0, <2>2, <2>3 DEF Accounting
<1>3. ASSUME NEW p \in Packets, HandOver(p)
      PROVE  Accounting'
  <2>1. UNCHANGED m_activeConnNums /\ p \in Holders
    BY <1>0, <1>3, HandOverStep DEF poolVars
  <2>2. PICK q \in Packets : q \notin Holders /\ Holders' = (Holders \ {p}) \union {q}
    BY <1>0, <1>3, HandOverStep
  <2>3. /\ IsFiniteSet(Holders \ {p})
        /\ Cardinality(Holders \ {p}) = Cardinality(Holders) - 1
    BY <2>1, HoldersFinite, FS_RemoveElement
  <2>4. q \notin Holders \ {p}
    BY <2>2
  <2>5. Cardinality(Holders') = Cardinality(Holders \ {p}) + 1
    BY <2>2, <2>3, <2>4, FS_AddElement
  <2> QED
    BY <1>0, <2>1, <2>3, <2>5, HoldersFinite DEF Accounting
<1>4. ASSUME NEW p \in Packets, ReturnConnection(p) \/ FreeConnection(p)
      PROVE  Accounting'
  <2>1. p \in Holders /\ Holders' = Holders \ {p}
    BY <1>0, <1>4, GiveStep
  <2>2. m_activeConnNums' = m_activeConnNums - 1
    BY <1>4 DEF ReturnConnection, FreeConnection, UnSelect, Free
  <2>3. Cardinality(Holders') = Cardinality(Holders) - 1
    BY <2>1, HoldersFinite, FS_RemoveElement
  <2> QED
    BY <1>0, <2>2, <2>3 DEF Accounting
<1>5. ASSUME NEW p \in Packets, Quiet(p) \/ AppendRequest(p)
      PROVE  Accounting'
  BY <1>1, <1>5, OtherStep
<1>6. ASSUME \/ StopFinishOne \/ StopBegin \/ Reconnect \/ OpenFailed
             \/ OpenConnection \/ Aside \/ UNCHANGED vars
      PROVE  Accounting'
  BY <1>1, <1>6, OtherStep
<1>7. ASSUME Next
      PROVE  Accounting'
  BY <1>2, <1>3, <1>4, <1>5, <1>6, <1>7, StepCases
<1> QED
  BY <1>6, <1>7

\* The count that select() compares with the capacity is the number of packets
\* that own a connection.
THEOREM ActiveCountIsExact == Spec => []Accounting
<1>1. Init => Accounting
  BY FS_EmptySet DEF Init, Accounting, Holders, Holding
<1> QED
  BY <1>1, InitInv, StepInv, StepAccounting, PTL DEF Spec

-----------------------------------------------------------------------------
(* The capacity.                                                           *)

\* The server has not failed and does not refuse connections.
Steady == outages = 0 /\ ~Flaky
NoRestart == serverUp /\ listener \in {"watching", "off"}

\* As long as the servant is not restarted, the pool respects connection_num.
THEOREM PoolWithinCapacity == Spec => []WithinCapacity
<1> DEFINE CapInv == Inv /\ (Steady => NoRestart) /\ WithinCapacity
<1>1. Init => CapInv
  <2> SUFFICES ASSUME Init PROVE NoRestart /\ WithinCapacity
    BY InitInv
  <2>1. Len(m_pool) <= PoolSize
    <3>1. CASE Started
      <4>1. m_pool \in [1..PoolSize -> Conns]
        BY <3>1 DEF Started
      <4>2. Len(m_pool) = PoolSize
        BY <4>1, PoolSizeAssumption
      <4> QED
        BY <4>2, PoolSizeAssumption
    <3>2. CASE NotStarted
      BY <3>2, PoolSizeAssumption DEF NotStarted
    <3> QED
      BY <3>1, <3>2 DEF Init
  <2>2. Len(m_pool) \in Nat
    BY InitInv DEF Inv, TypeInv, TypeOK, PoolTypeOK
  <2> QED
    BY <2>1, <2>2 DEF Init, NoRestart, WithinCapacity, Started, NotStarted
<1>2. CapInv /\ [Next]_vars => CapInv'
  <2> SUFFICES ASSUME CapInv, [Next]_vars, Steady'
               PROVE  NoRestart' /\ WithinCapacity'
    BY StepInv DEF WithinCapacity, Steady
  <2>0. Steady /\ NoRestart
    <3>1. outages \in Nat
      BY BoundsAssumption DEF Inv, TypeInv, TypeOK
    <3>2. outages' = outages \/ outages' = outages + 1
      <4>1. CASE \E p \in Packets : Request(p) \/ PacketStep(p)
        BY <4>1 DEF serverVars, PacketStep, Request,
             SelectConnection, SelectNothing, CheckActived, AppendRequest,
             SendRequest, RecvReply, RecvBroken, HandOver, NoOneWaits,
             ReturnConnection, FreeConnection, Reply, NextPipelined
      <4>2. CASE ListenerStep
        BY <4>2 DEF serverVars, ListenerStep, ServerLost, WatchLost, StopBegin,
             StopFinishOne, StopDrained, StopEnd, Reconnect, GiveUp,
             OpenConnection, OpenFailed, StartEnd, ReconnectTimer
      <4>3. CASE Server
        BY <4>3 DEF Server, ServerDown, ServerBack
      <4>4. CASE UNCHANGED vars
        BY <4>4 DEF vars, serverVars
      <4> QED
        BY <4>1, <4>2, <4>3, <4>4 DEF Next
    <3> QED
      BY <3>1, <3>2 DEF Steady
  <2>1. NoRestart'
    <3>1. ~ConnectFails /\ outages = 0
      BY <2>0 DEF Steady, NoRestart, ConnectFails
    <3>2. CASE \E p \in Packets : Request(p) \/ PacketStep(p)
      BY <2>0, <3>2 DEF NoRestart, listenerVars, serverVars, PacketStep, Request,
           SelectConnection, SelectNothing, CheckActived, AppendRequest,
           SendRequest, RecvReply, RecvBroken, HandOver, NoOneWaits,
           ReturnConnection, FreeConnection, Reply, NextPipelined
    <3>3. ~ListenerStep
      BY <2>0, <3>1 DEF Steady, NoRestart, ListenerStep, ServerLost, WatchLost, StopBegin,
           StopFinishOne, StopDrained, StopEnd, Reconnect, GiveUp,
           OpenConnection, OpenFailed, StartEnd, ReconnectTimer
    <3>4. ~Server
      <4>1. outages' = 0
        BY DEF Steady
      <4> QED
        BY <2>0, <3>1, <4>1 DEF NoRestart, Server, ServerDown, ServerBack
    <3>5. CASE UNCHANGED vars
      BY <2>0, <3>5 DEF NoRestart, vars, listenerVars, serverVars
    <3> QED
      BY <3>2, <3>3, <3>4, <3>5 DEF Next
  <2>2. WithinCapacity'
    <3>0. /\ m_pool \in Seq(Conns)
          /\ m_activeConnNums \in Int
          /\ Len(m_pool) \in Nat
          /\ Len(m_pool) + m_activeConnNums <= PoolSize
          /\ PoolSize \in Nat
          /\ TypeInv
          /\ QueueConsistent
          /\ listener \in {"watching", "off"}
      BY <2>0, PoolSizeAssumption
      DEF Inv, TypeInv, TypeOK, PoolTypeOK, WithinCapacity, NoRestart, Steady
    <3>1. ASSUME UNCHANGED <<m_pool, m_activeConnNums>>
          PROVE  WithinCapacity'
      BY <3>0, <3>1 DEF WithinCapacity
    <3>2. ASSUME NEW p \in Packets, SelectConnection(p)
          PROVE  WithinCapacity'
      <4>1. PICK c \in Conns : TakeIdle(c) \/ ConnectNew(c)
        BY <3>2 DEF SelectConnection
      <4>2. CASE TakeIdle(c)
        <5>1. /\ m_pool # <<>>
              /\ m_pool' = Tail(m_pool)
              /\ m_activeConnNums' = m_activeConnNums + 1
          BY <4>2 DEF TakeIdle
        <5>2. Len(m_pool') = Len(m_pool) - 1
          BY <3>0, <5>1
        <5> QED
          BY <3>0, <5>1, <5>2 DEF WithinCapacity
      <4>3. CASE ConnectNew(c)
        BY <3>0, <4>3 DEF ConnectNew, BelowCapacity, WithinCapacity
      <4> QED
        BY <4>1, <4>2, <4>3
    <3>3. ASSUME NEW p \in Packets, ReturnConnection(p) \/ FreeConnection(p)
          PROVE  WithinCapacity'
      <4>1. /\ redisSocket[p] \in Conns
            /\ UnSelect(redisSocket[p]) \/ Free(redisSocket[p])
        BY <3>0, <3>3, GiveStep
      <4>2. CASE UnSelect(redisSocket[p])
        <5>1. /\ Len(m_pool') = Len(m_pool) + 1
              /\ m_activeConnNums' = m_activeConnNums - 1
          BY <3>0, <4>1, <4>2 DEF UnSelect
        <5> QED
          BY <3>0, <5>1 DEF WithinCapacity
      <4>3. CASE Free(redisSocket[p])
        BY <3>0, <4>3 DEF Free, WithinCapacity
      <4> QED
        BY <4>1, <4>2, <4>3
    <3>4. ASSUME NEW p \in Packets, Quiet(p) \/ AppendRequest(p) \/ HandOver(p)
          PROVE  WithinCapacity'
      BY <3>0, <3>1, <3>4, QuietStep, HandOverStep DEF AppendRequest, poolVars
    <3>5. ASSUME StopFinishOne \/ Aside \/ UNCHANGED vars
          PROVE  WithinCapacity'
      BY <3>0, <3>1, <3>5, StopFinishStep, AsideStep DEF vars, poolVars
    <3>6. ~(StopBegin \/ Reconnect \/ OpenFailed) /\ ~OpenConnection
      BY <3>0 DEF StopBegin, Reconnect, OpenFailed, OpenConnection
    <3>7. ASSUME Next
          PROVE  WithinCapacity'
      BY <3>2, <3>3, <3>4, <3>5, <3>6, <3>7, StepCases
    <3> QED
      BY <3>5, <3>7
  <2> QED
    BY <2>1, <2>2
<1>3. CapInv => WithinCapacity
  OBVIOUS
<1> QED
  BY <1>1, <1>2, <1>3, PTL DEF Spec

\* However often the servant is restarted, the connections that exist at once
\* never exceed connection_num by more than the number of sessions.
THEOREM OverrunIsBounded == Spec => []BoundedOverrun
<1> DEFINE Allowance == IF listener = "open" THEN opened ELSE PoolSize
           Bounded == Cardinality(heap) <= Cardinality(Packets) + Allowance
<1>0. /\ PoolSize \in Nat
      /\ IsFiniteSet(Packets) /\ Cardinality(Packets) \in Nat
  BY PoolSizeAssumption, PacketsAssumption, FS_CardinalityType
<1>1. Inv => IsFiniteSet(heap) /\ Cardinality(heap) \in Nat /\ Allowance \in 0..PoolSize
  <2>1. Inv => heap \in SUBSET Conns /\ opened \in 0..PoolSize
    BY DEF Inv, TypeInv, TypeOK, PoolTypeOK
  <2> QED
    BY <1>0, <2>1, ConnsAssumption, FS_Subset, FS_CardinalityType
<1>2. Init => Bounded
  <2> SUFFICES ASSUME Init PROVE Bounded
    OBVIOUS
  <2>1. CASE Started
    <3>1. /\ m_pool \in [1..PoolSize -> Conns]
          /\ heap = ToSet(m_pool)
          /\ listener # "open"
      BY <2>1 DEF Started
    <3>2. ToSet(m_pool) = {m_pool[i] : i \in 1..PoolSize}
      BY <3>1 DEF ToSet
    <3>3. IsFiniteSet(1..PoolSize) /\ Cardinality(1..PoolSize) = PoolSize
      BY <1>0, FS_Interval
    <3>4. m_pool \in Surjection(1..PoolSize, heap)
      BY <3>1, <3>2 DEF Surjection
    <3>5. Cardinality(heap) <= PoolSize
      BY <3>3, <3>4, FS_Surjection
    <3> QED
      BY <1>0, <1>1, InitInv, <3>1, <3>5
  <2>2. CASE NotStarted
    BY <1>0, <2>2, FS_EmptySet DEF NotStarted
  <2> QED
    BY <2>1, <2>2 DEF Init
<1>3. Inv /\ Bounded /\ [Next]_vars => Bounded'
  <2> SUFFICES ASSUME Inv, Bounded, [Next]_vars PROVE Bounded'
    OBVIOUS
  <2>0. /\ Inv'
        /\ IsFiniteSet(heap) /\ Cardinality(heap) \in Nat
        /\ Allowance \in 0..PoolSize /\ Allowance' \in 0..PoolSize
        /\ TypeInv /\ QueueConsistent
        /\ opened \in 0..PoolSize
    <3>1. Inv'
      BY StepInv
    <3>2. opened \in 0..PoolSize /\ opened' \in 0..PoolSize /\ TypeInv /\ QueueConsistent
      BY <3>1 DEF Inv, TypeInv, TypeOK
    <3>3. Allowance' \in 0..PoolSize
      BY <1>0, <3>2
    <3> QED
      BY <1>1, <3>1, <3>2, <3>3
  <2>1. ASSUME heap' \in SUBSET heap, Allowance' >= Allowance
        PROVE  Bounded'
    <3>1. Cardinality(heap') <= Cardinality(heap) /\ Cardinality(heap') \in Nat
      BY <2>0, <2>1, FS_Subset, FS_CardinalityType
    <3> QED
      BY ONLY <1>0, <2>0, <2>1, <3>1, Bounded
  \* Connections out of the pool are owned by as many packets.
  <2>2. ASSUME NEW own \in SUBSET Packets, heap' = {redisSocket'[p] : p \in own}
        PROVE  Bounded'
    <3>1. /\ IsFiniteSet(own)
          /\ Cardinality(own) \in Nat
          /\ Cardinality(own) <= Cardinality(Packets)
      BY <1>0, FS_Subset, FS_CardinalityType
    <3>2. [p \in own |-> redisSocket'[p]] \in Surjection(own, heap')
      BY <2>2 DEF Surjection
    <3>3. Cardinality(heap') <= Cardinality(own) /\ IsFiniteSet(heap')
      BY <3>1, <3>2, FS_Surjection
    <3>4. Cardinality(heap') \in Nat
      BY <3>3, FS_CardinalityType
    <3> QED
      BY ONLY <1>0, <2>0, <3>1, <3>3, <3>4
  <2>3. ASSUME NEW p \in Packets, SelectConnection(p)
        PROVE  Bounded'
    <3>1. UNCHANGED <<listener, opened>>
      BY <2>3 DEF SelectConnection, listenerVars
    <3>2. PICK c \in Conns : TakeIdle(c) \/ ConnectNew(c)
      BY <2>0, <2>3, SelectStep
    <3>3. CASE TakeIdle(c)
      BY <2>0, <2>1, <3>1, <3>3 DEF TakeIdle
    <3>4. CASE ConnectNew(c)
      <4>1. ToSet(m_pool') = {}
        BY <3>4, EmptyQueue DEF ConnectNew, ToSet
      <4>2. heap' = {redisSocket'[q] : q \in Holders'}
        BY <2>0, <4>1 DEF Inv, NoLeak
      <4>3. Holders' \in SUBSET Packets
        BY DEF Holders
      <4> QED
        BY <2>2, <4>2, <4>3
    <3> QED
      BY <3>2, <3>3, <3>4
  <2>4. ASSUME NEW p \in Packets, ReturnConnection(p) \/ FreeConnection(p)
        PROVE  Bounded'
    BY <2>0, <2>1, <2>4
    DEF ReturnConnection, FreeConnection, UnSelect, Free, listenerVars
  <2>5. ASSUME NEW p \in Packets, Quiet(p) \/ AppendRequest(p) \/ HandOver(p)
        PROVE  Bounded'
    <3>1. UNCHANGED <<poolVars, listener, opened>>
      BY <2>5 DEF Quiet, Request, SelectNothing, SelectNull, CheckActived,
         SendRequest, RecvReply, RecvBroken, NoOneWaits, Reply, NextPipelined,
         AppendRequest, HandOver, listenerVars
    <3> QED
      BY <2>0, <2>1, <3>1 DEF poolVars
  <2>6. CASE StopFinishOne \/ UNCHANGED vars
    BY <2>0, <2>1, <2>6 DEF StopFinishOne, vars, listenerVars, poolVars
  <2>7. CASE StopBegin
    BY <2>0, <2>1, <2>7 DEF StopBegin, Close
  <2>8. CASE Reconnect
    <3>1. ToSet(m_pool') = {}
      BY <2>8 DEF Reconnect, Close, ToSet
    <3>2. heap' = {redisSocket'[q] : q \in Holders'}
      BY <2>0, <3>1 DEF Inv, NoLeak
    <3>3. Holders' \in SUBSET Packets
      BY DEF Holders
    <3> QED
      BY <2>2, <3>2, <3>3
  <2>9. CASE OpenFailed
    BY <2>0, <2>1, <2>9 DEF OpenFailed, Close
  <2>10. CASE OpenConnection
    <3>1. PICK c \in Conns : heap' = heap \union {c}
      BY <2>10 DEF OpenConnection, OpenOne
    <3>2. Cardinality(heap') <= Cardinality(heap) + 1 /\ Cardinality(heap') \in Nat
      <4>1. /\ IsFiniteSet(heap \union {c})
            /\ Cardinality(heap \union {c}) =
                 IF c \in heap THEN Cardinality(heap) ELSE Cardinality(heap) + 1
        BY <2>0, FS_AddElement
      <4> QED
        BY <2>0, <3>1, <4>1
    <3>3. Allowance' = Allowance + 1
      BY <2>10 DEF OpenConnection
    <3> QED
      BY ONLY <1>0, <2>0, <3>2, <3>3, Bounded
  <2>11. CASE Aside
    <3>1. heap' = heap
      BY <2>11, AsideStep DEF poolVars
    <3>2. Allowance' >= Allowance
      BY <1>0, <2>0, <2>11
      DEF Aside, ServerLost, WatchLost, StopDrained, StopEnd, GiveUp, StartEnd,
          ReconnectTimer, Server, ServerDown, ServerBack, listenerVars
    <3> QED
      BY <2>1, <3>1, <3>2
  <2> HIDE DEF Bounded
  <2>12. ASSUME Next
         PROVE  Bounded'
    BY <2>3, <2>4, <2>5, <2>6, <2>7, <2>8, <2>9, <2>10, <2>11, <2>12, StepCases
  <2> QED
    BY <2>6, <2>12
<1>4. Inv /\ Bounded => BoundedOverrun
  BY <1>0, <1>1 DEF BoundedOverrun
<1> HIDE DEF Bounded
<1> QED
  BY <1>2, <1>3, <1>4, InitInv, StepInv, PTL DEF Spec

-----------------------------------------------------------------------------
(* stop() leaves no request behind.                                        *)

\* The lock is held while stop() runs, and what it drained stays empty.
DrainInv ==
    /\ m_locker <=> listener \in {"drain", "deactivate"}
    /\ listener = "deactivate" => m_requests = <<>>

LEMMA StepDrainInv == TypeInv /\ DrainInv /\ [Next]_vars => DrainInv'
<1> SUFFICES ASSUME TypeInv, DrainInv, [Next]_vars PROVE DrainInv'
  OBVIOUS
<1> USE DEF DrainInv
<1>1. ASSUME UNCHANGED <<m_locker, m_requests, listener>>
      PROVE  DrainInv'
  BY <1>1
<1>2. ASSUME NEW p \in Packets, Request(p) \/ PacketStep(p)
      PROVE  DrainInv'
  <2>1. UNCHANGED <<m_locker, listener>>
    BY <1>2 DEF PacketStep, Request, SelectConnection, SelectNothing, CheckActived,
       AppendRequest, SendRequest, RecvReply, RecvBroken, HandOver, NoOneWaits,
       ReturnConnection, FreeConnection, Reply, NextPipelined, listenerVars
  <2>2. m_locker => UNCHANGED m_requests
    BY <1>2 DEF PacketStep, Request, SelectConnection, SelectNothing, CheckActived,
       AppendRequest, SendRequest, RecvReply, RecvBroken, HandOver, NoOneWaits,
       ReturnConnection, FreeConnection, Reply, NextPipelined
  <2> QED
    BY <2>1, <2>2
<1>3. ASSUME ListenerStep
      PROVE  DrainInv'
  BY <1>3 DEF ListenerStep, ServerLost, WatchLost, StopBegin, StopFinishOne,
     StopDrained, StopEnd, Reconnect, GiveUp, OpenConnection, OpenFailed,
     StartEnd, ReconnectTimer, servantVars, listenerVars, TypeInv, TypeOK
<1>4. ASSUME Server \/ UNCHANGED vars
      PROVE  DrainInv'
  BY <1>1, <1>4 DEF Server, ServerDown, ServerBack, vars, servantVars, listenerVars
<1> QED
  BY <1>2, <1>3, <1>4 DEF Next

\* When the servant becomes inactive its queue is empty.
THEOREM StopLeavesNothing == Spec => StopDrains
<1>1. Init => DrainInv
  BY DEF Init, Started, NotStarted, DrainInv
<1>2. DrainInv /\ [Next]_vars =>
        [(m_actived /\ ~m_actived') => m_requests' = <<>>]_vars
  <2> SUFFICES ASSUME DrainInv, Next, m_actived, ~m_actived'
               PROVE  m_requests' = <<>>
    OBVIOUS
  <2>1. ASSUME NEW p \in Packets, Request(p) \/ PacketStep(p)
        PROVE  UNCHANGED m_actived
    BY <2>1 DEF PacketStep, Request, SelectConnection, SelectNothing, CheckActived,
       AppendRequest, SendRequest, RecvReply, RecvBroken, HandOver, NoOneWaits,
       ReturnConnection, FreeConnection, Reply, NextPipelined
  <2>2. Server => UNCHANGED m_actived
    BY DEF Server, ServerDown, ServerBack, servantVars
  <2>3. ListenerStep => StopEnd
    BY DEF ListenerStep, ServerLost, WatchLost, StopBegin, StopFinishOne,
       StopDrained, Reconnect, GiveUp, OpenConnection, OpenFailed,
       StartEnd, ReconnectTimer, servantVars
  <2>4. StopEnd
    BY <2>1, <2>2, <2>3 DEF Next
  <2> QED
    BY <2>4 DEF StopEnd, DrainInv
<1> QED
  BY <1>1, <1>2, InitTypeInv, StepTypeInv, StepDrainInv, PTL DEF Spec, StopDrains

-----------------------------------------------------------------------------
(* RedisServant implements ConnectionLease.  phaseBar and leaseBar are the  *)
(* refinement mapping of RedisServant!Lease.                                *)

phaseBar == [p \in Packets |-> PhaseOf(pc[p])]
leaseBar == [p \in Packets |-> IF pc[p] \in Holding THEN redisSocket[p] ELSE NoConn]
bars == <<phaseBar, leaseBar, m_requests>>

\* The stages and the phases they are mapped to.
LEMMA PhaseValues ==
    /\ PhaseOf("idle") = "idle"
    /\ PhaseOf("select") = "asking"
    /\ PhaseOf("check") = "asking"
    /\ PhaseOf("append") = "asking"
    /\ PhaseOf("queued") = "waiting"
    /\ \A s \in Holding : PhaseOf(s) = "granted"
    /\ PhaseOf("finish") = "answered"
BY DEF PhaseOf, Holding

\* A packet's change of stage, seen through the mapping.
LEMMA PhaseStep ==
    ASSUME TypeInv, NEW p \in Packets, NEW s, pc' = [pc EXCEPT ![p] = s]
    PROVE  /\ phaseBar[p] = PhaseOf(pc[p])
           /\ phaseBar' = [phaseBar EXCEPT ![p] = PhaseOf(s)]
<1>1. pc \in [Packets -> Stages]
  BY DEF TypeInv, TypeOK
<1>2. pc' = [q \in Packets |-> IF q = p THEN s ELSE pc[q]]
  BY <1>1
<1>3. \A q \in Packets : phaseBar[q] = PhaseOf(pc[q])
  BY DEF phaseBar
<1>4. phaseBar' = [q \in Packets |-> PhaseOf(pc'[q])]
  BY DEF phaseBar
<1>5. \A q \in Packets : PhaseOf(pc'[q]) = IF q = p THEN PhaseOf(s) ELSE phaseBar[q]
  <2>1. pc'[p] = s
    BY <1>2
  <2>2. \A q \in Packets \ {p} : pc'[q] = pc[q]
    BY <1>2
  <2>3. PhaseOf(pc'[p]) = PhaseOf(s)
    BY <2>1
  <2>4. \A q \in Packets \ {p} : PhaseOf(pc'[q]) = phaseBar[q]
    BY <2>2, <1>3
  <2> QED
    BY <2>3, <2>4
<1>6. phaseBar = [q \in Packets |-> phaseBar[q]]
  BY DEF phaseBar
<1>7. [phaseBar EXCEPT ![p] = PhaseOf(s)]
        = [q \in Packets |-> IF q = p THEN PhaseOf(s) ELSE phaseBar[q]]
  BY <1>6
<1> QED
  BY <1>3, <1>4, <1>5, <1>7

\* A step that keeps the owners and their connections keeps the leases.
LEMMA LeasesKept ==
    ASSUME TypeInv, Holders' = Holders,
           \A q \in Holders : redisSocket'[q] = redisSocket[q]
    PROVE  leaseBar' = leaseBar
<1>1. \A q \in Packets : pc'[q] \in Holding <=> pc[q] \in Holding
  BY DEF Holders
<1>2. \A q \in Packets : pc[q] \in Holding => redisSocket'[q] = redisSocket[q]
  BY DEF Holders
<1> QED
  BY <1>1, <1>2 DEF leaseBar

LEMMA LeaseInitial == Init => Lease!LeaseInit
BY PhaseValues DEF Init, Lease!LeaseInit, Holding

LEMMA LeaseStep == Inv /\ [Next]_vars => [Lease!LeaseNext]_bars
<1> SUFFICES ASSUME Inv, [Next]_vars
             PROVE  Lease!LeaseNext \/ UNCHANGED bars
  OBVIOUS
<1> DEFINE Goal == Lease!LeaseNext \/ UNCHANGED bars
<1>0. /\ TypeInv
      /\ QueueConsistent
      /\ pc \in [Packets -> Stages]
      /\ redisSocket \in [Packets -> Conns \union {NoConn}]
      /\ m_requests \in Seq(Packets)
  BY DEF Inv, TypeInv, TypeOK
<1>1. ASSUME NEW p \in Packets, Quiet(p)
      PROVE  Goal
  <2>0. UNCHANGED m_requests /\ leaseBar' = leaseBar
    BY <1>0, <1>1, QuietStep, LeasesKept
  <2>1. CASE Request(p) \/ NextPipelined(p)
    <3>1. pc[p] \in {"idle", "finish"} /\ pc' = [pc EXCEPT ![p] = "select"]
      BY <2>1 DEF Request, NextPipelined, Goto
    <3>2. /\ phaseBar[p] \in {"idle", "answered"}
          /\ phaseBar' = [phaseBar EXCEPT ![p] = "asking"]
      <4>1. PhaseOf(pc[p]) \in {"idle", "answered"}
        BY <3>1, PhaseValues
      <4>2. PhaseOf("select") = "asking"
        BY PhaseValues
      <4>3. /\ phaseBar[p] = PhaseOf(pc[p])
            /\ phaseBar' = [phaseBar EXCEPT ![p] = PhaseOf("select")]
        BY <1>0, <3>1, PhaseStep
      <4> QED
        BY <4>1, <4>2, <4>3
    <3>3. Lease!Ask(p)
      BY <2>0, <3>2 DEF Lease!Ask, phaseBar, leaseBar
    <3> QED
      BY <3>3 DEF Lease!LeaseNext
  <2>2. CASE CheckActived(p)
    <3>1. /\ pc[p] = "check"
          /\ \/ pc' = [pc EXCEPT ![p] = "append"]
             \/ pc' = [pc EXCEPT ![p] = "finish"]
      BY <2>2 DEF CheckActived, Goto
    <3>2. CASE pc' = [pc EXCEPT ![p] = "append"]
      <4>1. phaseBar' = phaseBar
        BY <1>0, <3>1, <3>2, PhaseStep, PhaseValues DEF phaseBar
      <4> QED
        BY <2>0, <4>1 DEF bars
    <3>3. CASE pc' = [pc EXCEPT ![p] = "finish"]
      <4>1. phaseBar[p] = "asking" /\ phaseBar' = [phaseBar EXCEPT ![p] = "answered"]
        <5>1. PhaseOf(pc[p]) = "asking"
          BY <3>1, PhaseValues
        <5>2. PhaseOf("finish") = "answered"
          BY PhaseValues
        <5>3. /\ phaseBar[p] = PhaseOf(pc[p])
              /\ phaseBar' = [phaseBar EXCEPT ![p] = PhaseOf("finish")]
          BY <1>0, <3>3, PhaseStep
        <5> QED
          BY <5>1, <5>2, <5>3
      <4>2. Lease!Refuse(p)
        BY <2>0, <4>1 DEF Lease!Refuse, phaseBar, leaseBar
      <4> QED
        BY <4>2 DEF Lease!LeaseNext
    <3> QED
      BY <3>1, <3>2, <3>3
  <2>3. CASE Reply(p)
    <3>1. pc[p] = "finish" /\ pc' = [pc EXCEPT ![p] = "idle"]
      BY <2>3 DEF Reply, Goto
    <3>2. phaseBar[p] = "answered" /\ phaseBar' = [phaseBar EXCEPT ![p] = "idle"]
      <4>1. PhaseOf(pc[p]) = "answered"
        BY <3>1, PhaseValues
      <4>2. PhaseOf("idle") = "idle"
        BY PhaseValues
      <4>3. /\ phaseBar[p] = PhaseOf(pc[p])
            /\ phaseBar' = [phaseBar EXCEPT ![p] = PhaseOf("idle")]
        BY <1>0, <3>1, PhaseStep
      <4> QED
        BY <4>1, <4>2, <4>3
    <3>3. Lease!Answer(p)
      BY <2>0, <3>2 DEF Lease!Answer, phaseBar, leaseBar
    <3> QED
      BY <3>3 DEF Lease!LeaseNext
  <2>4. CASE SelectNothing(p)
    <3>1. pc[p] = "select" /\ pc' = [pc EXCEPT ![p] = "check"]
      BY <2>4 DEF SelectNothing, Goto
    <3>2. phaseBar' = phaseBar
      BY <1>0, <3>1, PhaseStep, PhaseValues DEF phaseBar
    <3> QED
      BY <2>0, <3>2 DEF bars
  <2>5. CASE SendRequest(p) \/ RecvReply(p) \/ RecvBroken(p) \/ NoOneWaits(p)
    <3>1. pc[p] \in Holding
      BY <2>5 DEF SendRequest, RecvReply, RecvBroken, NoOneWaits, Holding
    <3>2. \E s \in Holding : pc' = [pc EXCEPT ![p] = s]
      BY <2>5 DEF SendRequest, RecvReply, RecvBroken, NoOneWaits, Goto,
                  SendOutcomes, Holding
    <3>3. phaseBar' = phaseBar
      BY <1>0, <3>1, <3>2, PhaseStep, PhaseValues DEF phaseBar
    <3> QED
      BY <2>0, <3>3 DEF bars
  <2> QED
    BY <1>1, <2>1, <2>2, <2>3, <2>4, <2>5 DEF Quiet
<1>2. ASSUME NEW p \in Packets, SelectConnection(p)
      PROVE  Goal
  <2>1. PICK s \in SendOutcomes : pc' = [pc EXCEPT ![p] = s]
    BY <1>2 DEF SelectConnection, Goto
  <2>2. pc[p] = "select" /\ s \in Holding /\ UNCHANGED m_requests
    BY <1>2 DEF SelectConnection, SendOutcomes, Holding
  <2>3. PICK c \in Conns :
          /\ TakeIdle(c) \/ ConnectNew(c)
          /\ redisSocket' = [redisSocket EXCEPT ![p] = c]
    BY <1>2 DEF SelectConnection
  \* The connection was idle, or it did not exist: nobody holds it.
  <2>4. \A q \in Holders : redisSocket[q] # c
    <3>1. CASE TakeIdle(c)
      BY <1>0, <3>1, TakeHead
      DEF TakeIdle, Inv, ConnExclusive, TypeInv, TypeOK, PoolTypeOK
    <3>2. CASE ConnectNew(c)
      BY <3>2 DEF ConnectNew, Fresh, Inv, ConnExclusive
    <3> QED
      BY <2>3, <3>1, <3>2
  <2>5. \A q \in Packets : leaseBar[q] # c
    BY <2>4, NoConnAssumption DEF Holders, leaseBar
  <2>6. leaseBar' = [leaseBar EXCEPT ![p] = c]
    BY <1>0, <2>1, <2>2, <2>3 DEF leaseBar
  <2>7. phaseBar[p] = "asking" /\ phaseBar' = [phaseBar EXCEPT ![p] = "granted"]
    <3>1. PhaseOf(pc[p]) = "asking"
      BY <2>2, PhaseValues
    <3>2. PhaseOf(s) = "granted"
      BY <2>2, PhaseValues
    <3>3. /\ phaseBar[p] = PhaseOf(pc[p])
          /\ phaseBar' = [phaseBar EXCEPT ![p] = PhaseOf(s)]
      BY <1>0, <2>1, PhaseStep
    <3> QED
      BY <3>1, <3>2, <3>3
  <2>8. Lease!Grant(p)
    BY <2>2, <2>5, <2>6, <2>7 DEF Lease!Grant, Lease!Available, phaseBar, leaseBar
  <2> QED
    BY <2>8 DEF Lease!LeaseNext
<1>3. ASSUME NEW p \in Packets, AppendRequest(p)
      PROVE  Goal
  <2>1. /\ pc[p] = "append"
        /\ pc' = [pc EXCEPT ![p] = "queued"]
        /\ m_requests' = Append(m_requests, p)
        /\ UNCHANGED redisSocket
    BY <1>3 DEF AppendRequest, Goto
  <2>2. phaseBar[p] = "asking" /\ phaseBar' = [phaseBar EXCEPT ![p] = "waiting"]
    <3>1. PhaseOf(pc[p]) = "asking"
      BY <2>1, PhaseValues
    <3>2. PhaseOf("queued") = "waiting"
      BY PhaseValues
    <3>3. /\ phaseBar[p] = PhaseOf(pc[p])
          /\ phaseBar' = [phaseBar EXCEPT ![p] = PhaseOf("queued")]
      BY <1>0, <2>1, PhaseStep
    <3> QED
      BY <3>1, <3>2, <3>3
  <2>3. leaseBar' = leaseBar
    BY <1>0, <2>1 DEF leaseBar, Holding
  <2>4. Lease!Wait(p)
    BY <2>1, <2>2, <2>3 DEF Lease!Wait, phaseBar, leaseBar
  <2> QED
    BY <2>4 DEF Lease!LeaseNext
<1>4. ASSUME NEW p \in Packets, HandOver(p)
      PROVE  Goal
  <2> DEFINE q == Head(m_requests)
  <2>1. /\ pc[p] = "complete"
        /\ m_requests # <<>>
        /\ m_requests' = Tail(m_requests)
        /\ redisSocket' = [redisSocket EXCEPT ![q] = redisSocket[p]]
        /\ \E s \in SendOutcomes : pc' = [pc EXCEPT ![p] = "finish", ![q] = s]
    BY <1>4 DEF HandOver
  <2>2. q \in Packets /\ pc[q] = "queued" /\ p # q
    BY <1>0, <2>1, TakeHead DEF QueueConsistent
  <2>3. PICK s \in Holding : pc' = [pc EXCEPT ![p] = "finish", ![q] = s]
    BY <2>1 DEF SendOutcomes, Holding
  <2>4. phaseBar[p] = "granted"
    BY <2>1, PhaseValues DEF phaseBar, Holding
  <2> HIDE DEF q
  <2>5. phaseBar' = [phaseBar EXCEPT ![p] = "answered", ![q] = "granted"]
    <3>1. \A r \in Packets : pc'[r] = IF r = q THEN s ELSE IF r = p THEN "finish" ELSE pc[r]
      BY <1>0, <2>2, <2>3
    <3> QED
      BY <2>2, <3>1, PhaseValues DEF phaseBar
  <2>6. leaseBar' = [leaseBar EXCEPT ![p] = NoConn, ![q] = leaseBar[p]]
    <3>1. \A r \in Packets : pc'[r] = IF r = q THEN s ELSE IF r = p THEN "finish" ELSE pc[r]
      BY <1>0, <2>2, <2>3
    <3>2. \A r \in Packets : redisSocket'[r] = IF r = q THEN redisSocket[p] ELSE redisSocket[r]
      BY <1>0, <2>1, <2>2
    <3>3. "finish" \notin Holding /\ pc[p] \in Holding
      BY <2>1 DEF Holding
    <3> QED
      BY <2>2, <3>1, <3>2, <3>3 DEF leaseBar
  <2>7. Lease!PassOn(p)
    BY <2>1, <2>4, <2>5, <2>6 DEF Lease!PassOn, phaseBar, leaseBar, q
  <2> QED
    BY <2>7 DEF Lease!LeaseNext
<1>5. ASSUME NEW p \in Packets, ReturnConnection(p) \/ FreeConnection(p)
      PROVE  Goal
  <2>1. /\ pc[p] \in Holding
        /\ pc' = [pc EXCEPT ![p] = "finish"]
        /\ UNCHANGED <<redisSocket, m_requests>>
    BY <1>5 DEF ReturnConnection, FreeConnection, Goto, Holding
  <2>2. phaseBar[p] = "granted" /\ phaseBar' = [phaseBar EXCEPT ![p] = "answered"]
    <3>1. PhaseOf(pc[p]) = "granted"
      BY <2>1, PhaseValues
    <3>2. PhaseOf("finish") = "answered"
      BY PhaseValues
    <3>3. /\ phaseBar[p] = PhaseOf(pc[p])
          /\ phaseBar' = [phaseBar EXCEPT ![p] = PhaseOf("finish")]
      BY <1>0, <2>1, PhaseStep
    <3> QED
      BY <3>1, <3>2, <3>3
  <2>3. leaseBar' = [leaseBar EXCEPT ![p] = NoConn]
    BY <1>0, <2>1 DEF leaseBar, Holding
  <2>4. Lease!GiveBack(p)
    BY <2>1, <2>2, <2>3 DEF Lease!GiveBack, phaseBar, leaseBar
  <2> QED
    BY <2>4 DEF Lease!LeaseNext
<1>6. ASSUME StopFinishOne
      PROVE  Goal
  <2> DEFINE q == Head(m_requests)
  <2>1. /\ m_requests # <<>>
        /\ m_requests' = Tail(m_requests)
        /\ pc' = [pc EXCEPT ![q] = "finish"]
        /\ UNCHANGED redisSocket
    BY <1>6 DEF StopFinishOne
  <2>2. q \in Packets
    BY <1>0, <2>1, TakeHead DEF QueueConsistent
  <2>3. phaseBar' = [phaseBar EXCEPT ![q] = "answered"]
    <3> HIDE DEF q
    <3>1. PhaseOf("finish") = "answered"
      BY PhaseValues
    <3>2. /\ phaseBar[q] = PhaseOf(pc[q])
          /\ phaseBar' = [phaseBar EXCEPT ![q] = PhaseOf("finish")]
      BY <1>0, <2>1, <2>2, PhaseStep
    <3> QED
      BY <3>1, <3>2
  <2>4. leaseBar' = leaseBar
    BY <1>0, <1>6, <2>1, StopFinishStep, LeasesKept
  <2>5. Lease!TurnAway
    BY <2>1, <2>3, <2>4 DEF Lease!TurnAway, phaseBar, leaseBar
  <2> QED
    BY <2>5 DEF Lease!LeaseNext
<1>7. ASSUME StopBegin \/ Reconnect \/ OpenFailed \/ OpenConnection \/ Aside
             \/ UNCHANGED vars
      PROVE  Goal
  <2>1. UNCHANGED <<pc, redisSocket, m_requests>>
    BY <1>7, AsideStep
    DEF StopBegin, Reconnect, OpenFailed, OpenConnection, vars, servantVars
  <2> QED
    BY <2>1 DEF bars, phaseBar, leaseBar
<1> HIDE DEF Goal
<1>8. ASSUME Next
      PROVE  Goal
  BY <1>1, <1>2, <1>3, <1>4, <1>5, <1>6, <1>7, <1>8, StepCases
<1> QED
  BY <1>7, <1>8 DEF Goal

\* Every execution of the servant is one that ConnectionLease allows: leases
\* are exclusive and the line is served from its head.
THEOREM ServantImplementsLease == Spec => ImplementsLease
<1>1. UNCHANGED bars <=> UNCHANGED Lease!leaseVars
  BY DEF bars, phaseBar, leaseBar, Lease!leaseVars
<1>2. Inv /\ [Next]_vars => [Lease!LeaseNext]_(Lease!leaseVars)
  BY <1>1, LeaseStep
<1> QED
  BY <1>2, InitInv, StepInv, LeaseInitial, PTL DEF Spec, ImplementsLease, Lease!LeaseSpec
=============================================================================
