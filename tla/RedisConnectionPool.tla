------------------------- MODULE RedisConnectionPool -------------------------
(***************************************************************************)
(* The connection pool of one Redis server (RedisConnectionPool in         *)
(* src/src/redisservant.cpp).  The module has no behaviour of its own: its *)
(* operators are the critical sections of the pool's methods, each of      *)
(* which runs under RedisConnectionPool::m_locker and is therefore one     *)
(* step.  RedisServant.tla, the only user of the pool, composes them.      *)
(*                                                                         *)
(* heap is the set of RedisConnection objects that exist (new ... delete). *)
(* The code keeps no list of the connections it has lent: an object that   *)
(* is in the heap and not in m_pool is known only to the packet that       *)
(* carries a pointer to it.  What is right about the pool is therefore a   *)
(* relation between m_pool, m_activeConnNums, heap and those pointers.     *)
(***************************************************************************)
EXTENDS Integers, Sequences, SequencesExt, FiniteSets

CONSTANTS
    Conns,      \* identities of RedisConnection objects
    PoolSize    \* RedisServant::Option::poolSize (connection_num)

ASSUME ConnsAssumption == IsFiniteSet(Conns)
ASSUME PoolSizeAssumption == PoolSize \in Nat \ {0}

VARIABLES
    m_pool,             \* Queue<RedisConnection*>: the idle connections
    m_activeConnNums,   \* the number of connections out of the pool
    heap                \* the RedisConnection objects that exist

poolVars == <<m_pool, m_activeConnNums, heap>>

PoolTypeOK ==
    /\ m_pool \in Seq(Conns)
    /\ m_activeConnNums \in Int
    /\ heap \in SUBSET Conns

\* The objects a "new RedisConnection" may return.
Fresh == Conns \ heap

\* select() found an idle connection and lends it.
TakeIdle(c) ==
    /\ m_pool # <<>>
    /\ c = Head(m_pool)
    /\ m_pool' = Tail(m_pool)
    /\ m_activeConnNums' = m_activeConnNums + 1
    /\ UNCHANGED heap

\* Fault: one connection more than the capacity.
BelowCapacity_OffByOne == Len(m_pool) + m_activeConnNums <= PoolSize

\* The condition under which select() opens a connection of its own.
BelowCapacity == Len(m_pool) + m_activeConnNums < PoolSize

\* select() found no idle connection, is below capacity, and connects.
ConnectNew(c) ==
    /\ m_pool = <<>>
    /\ BelowCapacity
    /\ c \in Fresh
    /\ m_activeConnNums' = m_activeConnNums + 1
    /\ heap' = heap \union {c}
    /\ UNCHANGED m_pool

\* select() returns NULL: nothing is idle, and the pool is at capacity or the
\* connection could not be opened.
SelectNull(connectFails) ==
    /\ m_pool = <<>>
    /\ BelowCapacity => connectFails
    /\ UNCHANGED poolVars

\* unSelect(): a lent connection becomes idle.
UnSelect(c) ==
    /\ m_pool' = Append(m_pool, c)
    /\ m_activeConnNums' = m_activeConnNums - 1
    /\ UNCHANGED heap

\* Fault: the object is forgotten but not deleted.
Free_Leaks(c) ==
    /\ m_activeConnNums' = m_activeConnNums - 1
    /\ UNCHANGED <<m_pool, heap>>

\* free(): a lent connection that could not be repaired is deleted.
Free(c) ==
    /\ heap' = heap \ {c}
    /\ m_activeConnNums' = m_activeConnNums - 1
    /\ UNCHANGED m_pool

\* Fault: the count of lent connections is reset while some are out.
Close_ResetsActive ==
    /\ heap' = heap \ ToSet(m_pool)
    /\ m_pool' = <<>>
    /\ m_activeConnNums' = 0

\* close(): every idle connection is deleted.  Lent ones are not known here,
\* and m_activeConnNums is left alone.
Close ==
    /\ heap' = heap \ ToSet(m_pool)
    /\ m_pool' = <<>>
    /\ UNCHANGED m_activeConnNums

\* One turn of the loop of open(): the append is made without m_locker.
OpenOne(c) ==
    /\ c \in Fresh
    /\ heap' = heap \union {c}
    /\ m_pool' = Append(m_pool, c)
    /\ UNCHANGED m_activeConnNums
=============================================================================
