---------------------------- MODULE RedisServant ----------------------------
(***************************************************************************)
(* One Redis server behind the proxy (RedisServant in                      *)
(* src/src/redisservant.cpp): its connection pool, the queue of requests   *)
(* that found no connection, and the two kinds of threads that use them.   *)
(*                                                                         *)
(* The worker threads run one packet each at a time: handle(), and the     *)
(* libevent callbacks onSendRequest and onRecvReply.  pc[p] says where the *)
(* handling of packet p is.  A step runs from one access to the shared     *)
(* state to the next, so any two packets interleave at every lock, and at  *)
(* the read of m_actived that handle() makes without one.                  *)
(*                                                                         *)
(* The listener thread watches the server with a connection of its own     *)
(* (m_connListener), stops the servant when it is lost and reconnects on a *)
(* timer.  It finishes the queued packets itself, under m_locker: while it *)
(* does, victim is the packet whose handler it is running.                 *)
(***************************************************************************)
EXTENDS RedisConnectionPool

CONSTANTS
    Packets,            \* ClientPacket objects (client sessions)
    NoPacket,           \* a NULL ClientPacket*
    NoConn,             \* a NULL RedisConnection*
    Pipelining,         \* BOOLEAN: clients send a request before the reply
    MaxReconnCount,     \* Option::maxReconnCount (backend_retry_limit)
    MaxOutages,         \* bound: how often the server goes away
    Flaky               \* BOOLEAN: a running server may refuse a connection

ASSUME PacketsAssumption == IsFiniteSet(Packets) /\ NoPacket \notin Packets
ASSUME NoConnAssumption == NoConn \notin Conns
ASSUME FlagsAssumption == Pipelining \in BOOLEAN /\ Flaky \in BOOLEAN
ASSUME BoundsAssumption == MaxReconnCount \in Nat /\ MaxOutages \in Nat
\* Enough identities for every connection that can exist at once.
ASSUME EnoughConns == Cardinality(Conns) >= PoolSize + Cardinality(Packets)

VARIABLES
    m_requests,     \* Queue<ClientPacket*>: requests waiting for a connection
    m_actived,      \* BOOLEAN
    m_locker,       \* BOOLEAN: stop() holds the servant's spin lock
    pc,             \* [Packets -> stage of the packet's handler]
    redisSocket,    \* [Packets -> Conns \union {NoConn}]
    listener,       \* what the listener thread does next for this servant
    m_reconnCount,
    opened,         \* the loop variable i of RedisConnectionPool::open()
    victim,         \* the packet whose handler stop() is running, or NoPacket
    serverUp,       \* environment: the Redis server accepts connections
    outages         \* how often it went away

servantVars == <<m_requests, m_actived, m_locker, pc, redisSocket, victim>>
listenerVars == <<listener, m_reconnCount, opened>>
serverVars == <<serverUp, outages>>
vars == <<poolVars, servantVars, listenerVars, serverVars>>

Stages == {"idle", "select", "check", "append", "queued", "send", "recv",
           "complete", "unselect", "free", "finish"}

\* The stages at which the packet owns the connection in redisSocket.
Holding == {"send", "recv", "complete", "unselect", "free"}

\* The stages at which no thread is executing the packet's handler.
AtRest == {"idle", "queued", "send", "recv"}

ListenerStages == {"watching", "stop", "drain", "deactivate", "reconnect",
                   "open", "timer", "off"}

TypeOK ==
    /\ PoolTypeOK
    /\ m_requests \in Seq(Packets)
    /\ m_actived \in BOOLEAN
    /\ m_locker \in BOOLEAN
    /\ pc \in [Packets -> Stages]
    /\ redisSocket \in [Packets -> Conns \union {NoConn}]
    /\ listener \in ListenerStages
    /\ m_reconnCount \in 0..MaxReconnCount
    /\ opened \in 0..PoolSize
    /\ victim \in Packets \union {NoPacket}
    /\ serverUp \in BOOLEAN
    /\ outages \in 0..MaxOutages

-----------------------------------------------------------------------------
(* Opening a connection: RedisConnection::connect.                         *)

ConnectFails == ~serverUp \/ Flaky
ConnectSucceeds == serverUp

-----------------------------------------------------------------------------
(* The initial state: main() has called start() before any client is       *)
(* accepted.  It succeeded, with or without a watching connection, or it   *)
(* failed, and then nothing will ever try again.                           *)

Started ==
    /\ m_pool \in {s \in [1..PoolSize -> Conns] : IsInjective(s)}
    /\ heap = ToSet(m_pool)
    /\ m_actived = TRUE
    /\ \/ listener = "watching"
       \/ listener = "off" /\ Flaky

NotStarted ==
    /\ m_pool = <<>>
    /\ heap = {}
    /\ m_actived = FALSE
    /\ listener = "off"

Init ==
    /\ Started \/ NotStarted
    /\ m_activeConnNums = 0
    /\ m_requests = <<>>
    /\ m_locker = FALSE
    /\ pc = [p \in Packets |-> "idle"]
    /\ redisSocket = [p \in Packets |-> NoConn]
    /\ m_reconnCount = 0
    /\ opened = 0
    /\ victim = NoPacket
    /\ serverUp = TRUE
    /\ outages = 0

-----------------------------------------------------------------------------
(* The handler of a packet.                                                *)

\* The packet's handler goes on at stage s; one that stop() runs returns to
\* stop() when it comes to rest.
Goto(p, s) ==
    /\ pc' = [pc EXCEPT ![p] = s]
    /\ victim' = IF victim = p /\ s \in AtRest THEN NoPacket ELSE victim

\* Where onSendRequest leaves a packet that owns a connection: the socket is
\* full (wait for EV_WRITE), the request is sent (wait for EV_READ), or the
\* send failed and repairSocket() did or did not reconnect.
SendOutcomes ==
    {"send", "recv"}
      \union (IF ConnectSucceeds THEN {"complete"} ELSE {})
      \union (IF ConnectFails THEN {"free"} ELSE {})

\* A client's request reaches handle(): findUsableServant chose this servant
\* because it was active.
Request(p) ==
    /\ pc[p] = "idle"
    /\ m_actived
    /\ Goto(p, "select")
    /\ UNCHANGED <<poolVars, m_requests, m_actived, m_locker, redisSocket,
                   listenerVars, serverVars>>

\* handle(): m_connPool.select() returns a connection and onSendRequest runs.
SelectConnection(p) ==
    /\ pc[p] = "select"
    /\ \E c \in Conns :
        /\ TakeIdle(c) \/ (ConnectSucceeds /\ ConnectNew(c))
        /\ redisSocket' = [redisSocket EXCEPT ![p] = c]
    /\ \E s \in SendOutcomes : Goto(p, s)
    /\ UNCHANGED <<m_requests, m_actived, m_locker, listenerVars, serverVars>>

\* handle(): m_connPool.select() returns NULL.
SelectNothing(p) ==
    /\ pc[p] = "select"
    /\ SelectNull(ConnectFails)
    /\ Goto(p, "check")
    /\ UNCHANGED <<m_requests, m_actived, m_locker, redisSocket,
                   listenerVars, serverVars>>

\* handle(): the test of m_actived, made without m_locker.
CheckActived(p) ==
    /\ pc[p] = "check"
    /\ Goto(p, IF m_actived THEN "append" ELSE "finish")
    /\ UNCHANGED <<poolVars, m_requests, m_actived, m_locker, redisSocket,
                   listenerVars, serverVars>>

\* Fault: the queue is a stack.
AppendRequest_Lifo(p) ==
    /\ pc[p] = "append"
    /\ ~m_locker
    /\ m_requests' = <<p>> \o m_requests
    /\ Goto(p, "queued")
    /\ UNCHANGED <<poolVars, m_actived, m_locker, redisSocket,
                   listenerVars, serverVars>>

\* Fault: the lock is not taken.
AppendRequest_Unlocked(p) ==
    /\ pc[p] = "append"
    /\ m_requests' = Append(m_requests, p)
    /\ Goto(p, "queued")
    /\ UNCHANGED <<poolVars, m_actived, m_locker, redisSocket,
                   listenerVars, serverVars>>

\* handle(): the packet joins m_requests, under m_locker.
AppendRequest(p) ==
    /\ pc[p] = "append"
    /\ ~m_locker
    /\ m_requests' = Append(m_requests, p)
    /\ Goto(p, "queued")
    /\ UNCHANGED <<poolVars, m_actived, m_locker, redisSocket,
                   listenerVars, serverVars>>

\* EV_WRITE: onSendRequest goes on with the rest of the request.
SendRequest(p) ==
    /\ pc[p] = "send"
    /\ \E s \in SendOutcomes \ {"send"} : Goto(p, s)
    /\ UNCHANGED <<poolVars, m_requests, m_actived, m_locker, redisSocket,
                   listenerVars, serverVars>>

\* EV_READ: onRecvReply has the whole reply (or a malformed one, which gives
\* the connection back as well).
RecvReply(p) ==
    /\ pc[p] = "recv"
    /\ Goto(p, "complete")
    /\ UNCHANGED <<poolVars, m_requests, m_actived, m_locker, redisSocket,
                   listenerVars, serverVars>>

\* EV_READ: the server closed the connection or the read failed, and
\* repairSocket() did or did not reconnect.
RecvBroken(p) ==
    /\ pc[p] = "recv"
    /\ \/ ConnectSucceeds /\ Goto(p, "complete")
       \/ ConnectFails /\ Goto(p, "free")
    /\ UNCHANGED <<poolVars, m_requests, m_actived, m_locker, redisSocket,
                   listenerVars, serverVars>>

\* Fault: the connection is handed over and given back as well.
HandOver_AndUnSelect(p) ==
    /\ pc[p] = "complete"
    /\ ~m_locker
    /\ m_requests # <<>>
    /\ LET q == Head(m_requests) IN
        /\ m_requests' = Tail(m_requests)
        /\ redisSocket' = [redisSocket EXCEPT ![q] = redisSocket[p]]
        /\ \E s \in SendOutcomes : pc' = [pc EXCEPT ![p] = "unselect", ![q] = s]
    /\ UNCHANGED <<poolVars, m_actived, m_locker, victim, listenerVars, serverVars>>

\* Fault: the request that came last is served first.
HandOver_ToLast(p) ==
    /\ pc[p] = "complete"
    /\ ~m_locker
    /\ m_requests # <<>>
    /\ LET q == Last(m_requests) IN
        /\ m_requests' = Front(m_requests)
        /\ redisSocket' = [redisSocket EXCEPT ![q] = redisSocket[p]]
        /\ \E s \in SendOutcomes : pc' = [pc EXCEPT ![p] = "finish", ![q] = s]
    /\ UNCHANGED <<poolVars, m_actived, m_locker, victim, listenerVars, serverVars>>

\* onRedisSocketUseCompleted: the head of m_requests takes the connection over
\* and its request is sent.
HandOver(p) ==
    /\ pc[p] = "complete"
    /\ ~m_locker
    /\ m_requests # <<>>
    /\ LET q == Head(m_requests) IN
        /\ m_requests' = Tail(m_requests)
        /\ redisSocket' = [redisSocket EXCEPT ![q] = redisSocket[p]]
        /\ \E s \in SendOutcomes : pc' = [pc EXCEPT ![p] = "finish", ![q] = s]
    /\ UNCHANGED <<poolVars, m_actived, m_locker, victim, listenerVars, serverVars>>

\* onRedisSocketUseCompleted: m_requests is empty, unSelect() is next.
NoOneWaits(p) ==
    /\ pc[p] = "complete"
    /\ ~m_locker
    /\ m_requests = <<>>
    /\ Goto(p, "unselect")
    /\ UNCHANGED <<poolVars, m_requests, m_actived, m_locker, redisSocket,
                   listenerVars, serverVars>>

ReturnConnection(p) ==
    /\ pc[p] = "unselect"
    /\ UnSelect(redisSocket[p])
    /\ Goto(p, "finish")
    /\ UNCHANGED <<m_requests, m_actived, m_locker, redisSocket,
                   listenerVars, serverVars>>

FreeConnection(p) ==
    /\ pc[p] = "free"
    /\ Free(redisSocket[p])
    /\ Goto(p, "finish")
    /\ UNCHANGED <<m_requests, m_actived, m_locker, redisSocket,
                   listenerVars, serverVars>>

\* setFinishedState: the reply is written and the session waits for a request.
Reply(p) ==
    /\ pc[p] = "finish"
    /\ Goto(p, "idle")
    /\ redisSocket' = [redisSocket EXCEPT ![p] = NoConn]
    /\ UNCHANGED <<poolVars, m_requests, m_actived, m_locker,
                   listenerVars, serverVars>>

\* setFinishedState: writeReply finds another request in the client's buffer
\* and handles it at once, in the same call, if the servant is active.
NextPipelined(p) ==
    /\ Pipelining
    /\ pc[p] = "finish"
    /\ m_actived
    /\ Goto(p, "select")
    /\ UNCHANGED <<poolVars, m_requests, m_actived, m_locker, redisSocket,
                   listenerVars, serverVars>>

-----------------------------------------------------------------------------
(* The listener thread.                                                    *)

\* onDisconnected read end-of-file and could not reconnect m_connListener.
ServerLost ==
    /\ listener = "watching"
    /\ ConnectFails
    /\ listener' = "stop"
    /\ UNCHANGED <<poolVars, servantVars, m_reconnCount, opened, serverVars>>

\* onDisconnected read an error or data: the event is not armed again.
WatchLost ==
    /\ listener = "watching"
    /\ outages > 0 \/ Flaky
    /\ listener' = "off"
    /\ UNCHANGED <<poolVars, servantVars, m_reconnCount, opened, serverVars>>

\* stop(): take m_locker and close the pool.
StopBegin ==
    /\ listener = "stop"
    /\ ~m_locker
    /\ m_locker' = TRUE
    /\ Close
    /\ listener' = "drain"
    /\ UNCHANGED <<m_requests, m_actived, pc, redisSocket, victim,
                   m_reconnCount, opened, serverVars>>

\* Fault: the packet stays in the queue while its handler runs.
StopFinishOne_Peek ==
    /\ listener = "drain"
    /\ victim = NoPacket
    /\ m_requests # <<>>
    /\ victim' = Head(m_requests)
    /\ pc' = [pc EXCEPT ![Head(m_requests)] = "finish"]
    /\ UNCHANGED <<poolVars, m_requests, m_actived, m_locker, redisSocket,
                   listenerVars, serverVars>>

\* stop(): the next queued packet gets an error, its handler runs right here.
StopFinishOne ==
    /\ listener = "drain"
    /\ victim = NoPacket
    /\ m_requests # <<>>
    /\ m_requests' = Tail(m_requests)
    /\ victim' = Head(m_requests)
    /\ pc' = [pc EXCEPT ![Head(m_requests)] = "finish"]
    /\ UNCHANGED <<poolVars, m_actived, m_locker, redisSocket,
                   listenerVars, serverVars>>

\* stop(): take(NULL) found m_requests empty.
StopDrained ==
    /\ listener = "drain"
    /\ victim = NoPacket
    /\ m_requests = <<>>
    /\ listener' = "deactivate"
    /\ UNCHANGED <<poolVars, servantVars, m_reconnCount, opened, serverVars>>

\* Fault: the lock is never released.
StopEnd_KeepsLock ==
    /\ listener = "deactivate"
    /\ m_actived' = FALSE
    /\ listener' = "reconnect"
    /\ UNCHANGED <<poolVars, m_requests, m_locker, pc, redisSocket, victim,
                   m_reconnCount, opened, serverVars>>

\* Fault: the servant stays active.
StopEnd_KeepsActive ==
    /\ listener = "deactivate"
    /\ m_locker' = FALSE
    /\ listener' = "reconnect"
    /\ UNCHANGED <<poolVars, m_requests, m_actived, pc, redisSocket, victim,
                   m_reconnCount, opened, serverVars>>

\* stop(): the servant is inactive, the lock is released.
StopEnd ==
    /\ listener = "deactivate"
    /\ m_actived' = FALSE
    /\ m_locker' = FALSE
    /\ listener' = "reconnect"
    /\ UNCHANGED <<poolVars, m_requests, pc, redisSocket, victim,
                   m_reconnCount, opened, serverVars>>

\* Fault: one attempt too many.
Reconnect_OneMore ==
    /\ listener = "reconnect"
    /\ m_reconnCount <= MaxReconnCount
    /\ m_reconnCount' = m_reconnCount + 1
    /\ Close
    /\ opened' = 0
    /\ listener' = "open"
    /\ UNCHANGED <<servantVars, serverVars>>

\* onReconnect and start() up to the close() that open() begins with.
Reconnect ==
    /\ listener = "reconnect"
    /\ m_reconnCount < MaxReconnCount
    /\ m_reconnCount' = m_reconnCount + 1
    /\ Close
    /\ opened' = 0
    /\ listener' = "open"
    /\ UNCHANGED <<servantVars, serverVars>>

\* onReconnect: the limit is reached, nothing is scheduled any more.
GiveUp ==
    /\ listener = "reconnect"
    /\ m_reconnCount >= MaxReconnCount
    /\ listener' = "off"
    /\ UNCHANGED <<poolVars, servantVars, m_reconnCount, opened, serverVars>>

\* open(): one turn of its loop.
OpenConnection ==
    /\ listener = "open"
    /\ opened < PoolSize
    /\ ConnectSucceeds
    /\ \E c \in Conns : OpenOne(c)
    /\ opened' = opened + 1
    /\ UNCHANGED <<servantVars, listener, m_reconnCount, serverVars>>

\* open(): a connection failed, everything idle is closed again; onReconnect
\* sets the timer.
OpenFailed ==
    /\ listener = "open"
    /\ opened < PoolSize
    /\ ConnectFails
    /\ Close
    /\ opened' = 0
    /\ listener' = "timer"
    /\ UNCHANGED <<servantVars, m_reconnCount, serverVars>>

\* start(): the pool is open; the watching connection may fail all the same.
StartEnd ==
    /\ listener = "open"
    /\ opened = PoolSize
    /\ \/ ConnectSucceeds /\ listener' = "watching"
       \/ ConnectFails /\ listener' = "off"
    /\ m_actived' = TRUE
    /\ m_reconnCount' = 0
    /\ opened' = 0
    /\ UNCHANGED <<poolVars, m_requests, m_locker, pc, redisSocket, victim,
                   serverVars>>

ReconnectTimer ==
    /\ listener = "timer"
    /\ listener' = "reconnect"
    /\ UNCHANGED <<poolVars, servantVars, m_reconnCount, opened, serverVars>>

-----------------------------------------------------------------------------
(* The Redis server (environment).                                         *)

ServerDown ==
    /\ serverUp
    /\ outages < MaxOutages
    /\ serverUp' = FALSE
    /\ outages' = outages + 1
    /\ UNCHANGED <<poolVars, servantVars, listenerVars>>

ServerBack ==
    /\ ~serverUp
    /\ serverUp' = TRUE
    /\ UNCHANGED <<poolVars, servantVars, listenerVars, outages>>

-----------------------------------------------------------------------------
\* The steps a thread takes once the packet's handler runs or its event fires.
PacketStep(p) ==
    \/ SelectConnection(p) \/ SelectNothing(p)
    \/ CheckActived(p) \/ AppendRequest(p)
    \/ SendRequest(p) \/ RecvReply(p) \/ RecvBroken(p)
    \/ HandOver(p) \/ NoOneWaits(p)
    \/ ReturnConnection(p) \/ FreeConnection(p)
    \/ Reply(p) \/ NextPipelined(p)

ListenerStep ==
    \/ ServerLost \/ WatchLost
    \/ StopBegin \/ StopFinishOne \/ StopDrained \/ StopEnd
    \/ Reconnect \/ GiveUp
    \/ OpenConnection \/ OpenFailed \/ StartEnd
    \/ ReconnectTimer

Server == ServerDown \/ ServerBack

Next ==
    \/ \E p \in Packets : Request(p) \/ PacketStep(p)
    \/ ListenerStep
    \/ Server

Spec == Init /\ [][Next]_vars

-----------------------------------------------------------------------------
(* Safety.                                                                 *)

Holders == {p \in Packets : pc[p] \in Holding}

\* A connection is never lent to two packets, never idle and lent at once,
\* never twice in the pool, and the one a packet owns has not been deleted:
\* two requests would otherwise share a socket and read each other's replies.
ConnExclusive ==
    /\ IsInjective(m_pool)
    /\ ToSet(m_pool) \subseteq heap
    /\ \A p \in Holders : redisSocket[p] \in heap \ ToSet(m_pool)
    /\ \A p, q \in Holders : p # q => redisSocket[p] # redisSocket[q]

\* Every RedisConnection object is either idle or owned by a packet: none is
\* lost with its socket open, across stop(), start() and failed repairs.
NoLeak == heap = ToSet(m_pool) \union {redisSocket[p] : p \in Holders}

\* m_activeConnNums, which select() compares with the capacity, counts the
\* packets that own a connection, whatever happened in between.
Accounting == m_activeConnNums = Cardinality(Holders)

\* m_requests holds exactly the packets that wait, each once: a packet in it
\* twice would be sent and answered twice.
QueueConsistent ==
    /\ IsInjective(m_requests)
    /\ ToSet(m_requests) = {p \in Packets : pc[p] = "queued"}

\* Until the servant is restarted, which takes a server that failed, the pool
\* does not exceed connection_num.
WithinCapacity ==
    outages = 0 /\ ~Flaky => Len(m_pool) + m_activeConnNums <= PoolSize

\* After a restart it can exceed it, by at most the connections that were
\* lent while the pool was opened again.
BoundedOverrun == Cardinality(heap) <= PoolSize + Cardinality(Packets)

\* When stop() declares the servant inactive no request is left in m_requests:
\* the spin lock keeps handle() out while the queue is drained.
StopDrains == [][(m_actived /\ ~m_actived') => m_requests' = <<>>]_vars

-----------------------------------------------------------------------------
(* Liveness.  A thread that executes a handler goes on; libevent delivers  *)
(* the events it was asked for, and the server answers or the connection   *)
(* breaks.  Nothing is assumed about clients, outages or the end of them.  *)

ListenerRuns ==
    \/ StopBegin \/ StopFinishOne \/ StopDrained \/ StopEnd
    \/ Reconnect \/ GiveUp
    \/ OpenConnection \/ OpenFailed \/ StartEnd
    \/ ReconnectTimer

Fairness ==
    /\ \A p \in Packets : WF_vars(PacketStep(p))
    /\ WF_vars(ListenerRuns)
    /\ WF_vars(~serverUp /\ (ServerLost \/ WatchLost))

FairSpec == Spec /\ Fairness

\* Every request is answered, or it waits in m_requests: nothing else holds a
\* request up.
HandlerProgress ==
    \A p \in Packets : pc[p] # "idle" ~> pc[p] \in {"idle", "queued"}

\* As long as requests complete, none waits in m_requests for ever, however
\* many others arrive.
QueuedServedUnderTraffic ==
    \A p \in Packets :
        []<>(\E q \in Packets : pc[q] = "complete") => []<>(pc[p] # "queued")

\* A servant that lost its server becomes inactive, so that its group can
\* choose another one.
StopReturns == listener = "stop" ~> ~m_actived

-----------------------------------------------------------------------------
(* What the servant promises its users: connections are leased exclusively *)
(* and requests that wait are served in the order of their arrival.        *)

PhaseOf(s) ==
    CASE s = "idle" -> "idle"
      [] s \in {"select", "check", "append"} -> "asking"
      [] s = "queued" -> "waiting"
      [] s \in Holding -> "granted"
      [] s = "finish" -> "answered"

Lease == INSTANCE ConnectionLease WITH
            Sessions <- Packets,
            Connections <- Conns,
            NoConnection <- NoConn,
            phase <- [p \in Packets |-> PhaseOf(pc[p])],
            lease <- [p \in Packets |->
                        IF pc[p] \in Holding THEN redisSocket[p] ELSE NoConn],
            line <- m_requests

\* The servant implements ConnectionLease.
ImplementsLease == Lease!LeaseSpec
=============================================================================
