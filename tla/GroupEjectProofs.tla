-------------------------- MODULE GroupEjectProofs --------------------------
(***************************************************************************)
(* Proofs about GroupEject, for any groups, slots, workers and schedule.   *)
(***************************************************************************)
EXTENDS GroupEject, DataLemmas

-----------------------------------------------------------------------------
(* The invariant.  WatchedWhileEjected is not inductive: that a group whose *)
(* timer a worker is about to start has no timer yet is due to m_groupMutex *)
(* and to can_ttl.                                                          *)

\* The types the argument needs.
TypeInv ==
    /\ canTtl \in [Groups -> BOOLEAN]
    /\ timer \in [Groups -> {"none", "ttl", "restore"}]
    /\ worker \in [Workers -> Workings]
    /\ \A w \in Workers : worker[w].stage # "idle" => worker[w].group \in Groups
    /\ listener = [stage |-> listener.stage, group |-> listener.group,
                   next |-> listener.next, taken |-> listener.taken,
                   others |-> listener.others]

\* The listener is in a callback of a group that is being ejected or restored.
ListenerInv ==
    \/ listener.stage = "idle" /\ listener.group = NULL
    \/ /\ listener.stage # "idle"
       /\ listener.group \in Groups
       /\ ~canTtl[listener.group]

\* One worker at a time is inside setGroupTTL, for a group that may be scheduled.
CollectorInv ==
    /\ \A w \in Workers : worker[w].stage = "collect" => canTtl[worker[w].group]
    /\ \A w, u \in Workers :
         worker[w].stage = "collect" /\ worker[u].stage = "collect" => w = u

WatchInv == TypeInv /\ ListenerInv /\ CollectorInv /\ WatchedWhileEjected

LEMMA NullIsNoGroup == NULL \notin Groups
BY GroupsAssumption DEF NULL

LEMMA InitWatch == Init => WatchInv
<1> SUFFICES ASSUME Init PROVE WatchInv  OBVIOUS
<1>1. TypeInv
  BY SlotCountAssumption DEF Init, TypeInv, Workings, Idle, Quiet, Owners
<1>2. ListenerInv  BY DEF Init, ListenerInv, Quiet
<1>3. CollectorInv  BY DEF Init, CollectorInv, Idle
<1>4. WatchedWhileEjected  BY DEF Init, WatchedWhileEjected
<1> QED  BY <1>1, <1>2, <1>3, <1>4 DEF WatchInv

\* The steps that start no timer, stop none and enter no critical section.
LEMMA QuietStep ==
    ASSUME WatchInv, UNCHANGED <<restore, canTtl, timer>>,
           worker' \in [Workers -> Workings],
           \A w \in Workers :
               \/ worker'[w] = worker[w]
               \/ worker'[w].stage = "idle"
               \/ worker'[w].stage = "lock" /\ worker'[w].group \in Groups
               \/ /\ worker'[w].stage = "collect" /\ worker[w].stage = "collect"
                  /\ worker'[w].group = worker[w].group,
           \/ listener' = listener
           \/ /\ listener'.group = listener.group
              /\ listener.stage # "idle" /\ listener'.stage # "idle"
              /\ listener' = [stage |-> listener'.stage, group |-> listener'.group,
                              next |-> listener'.next, taken |-> listener'.taken,
                              others |-> listener'.others]
    PROVE  WatchInv'
<1>1. TypeInv'  BY DEF WatchInv, TypeInv
<1>2. ListenerInv'  BY DEF WatchInv, ListenerInv
<1>3. CollectorInv'  BY DEF WatchInv, CollectorInv
<1>4. WatchedWhileEjected'  BY DEF WatchInv, WatchedWhileEjected
<1> QED  BY <1>1, <1>2, <1>3, <1>4 DEF WatchInv

LEMMA WorkerStep ==
    ASSUME WatchInv, NEW w \in Workers, Working(w) PROVE WatchInv'
<1> DEFINE g == worker[w].group
<1>0. worker[w] \in Workings  BY DEF WatchInv, TypeInv
<1>1. CASE LockNotAllowed(w)
  <2>1. worker' \in [Workers -> Workings]
    BY <1>1, SlotCountAssumption DEF LockNotAllowed, WatchInv, TypeInv, Workings, Idle, Owners
  <2>2. \A u \in Workers : worker'[u] = worker[u] \/ worker'[u].stage = "idle"
    BY <1>1 DEF LockNotAllowed, WatchInv, TypeInv, Idle
  <2> QED  BY <1>1, <2>1, <2>2, QuietStep DEF LockNotAllowed, infoVars
<1>2. CASE Lock(w)
  <2>1. /\ UNCHANGED <<restore, canTtl, timer, listener>>
        /\ worker[w].stage = "lock" /\ g \in Groups /\ canTtl[g]
        /\ \A u \in Workers : worker[u].stage # "collect"
    BY <1>2 DEF Lock, MutexFree, WatchInv, TypeInv
  <2>2. /\ worker' \in [Workers -> Workings]
        /\ worker'[w].stage = "collect" /\ worker'[w].group = g
        /\ \A u \in Workers : u # w => worker'[u] = worker[u]
    BY <1>0, <1>2 DEF Lock, WatchInv, TypeInv, Workings
  <2>3. TypeInv'  BY <2>1, <2>2 DEF WatchInv, TypeInv
  <2>4. ListenerInv'  BY <2>1 DEF WatchInv, ListenerInv
  <2>5. CollectorInv'  BY <2>1, <2>2 DEF CollectorInv
  <2>6. WatchedWhileEjected'  BY <2>1 DEF WatchInv, WatchedWhileEjected
  <2> QED  BY <2>3, <2>4, <2>5, <2>6 DEF WatchInv
<1>3. CASE Collect(w)
  <2>1. /\ worker' = [worker EXCEPT ![w].next = worker[w].next + 1]
        /\ worker[w].stage = "collect" /\ worker[w].next < SlotCount
    BY <1>3 DEF Collect
  <2>2. worker[w].next + 1 \in 0..SlotCount
    BY <1>0, <2>1, SlotCountAssumption DEF Workings
  <2>3. worker' \in [Workers -> Workings]
    BY <1>0, <2>1, <2>2 DEF WatchInv, TypeInv, Workings
  <2>4. \A u \in Workers :
          \/ worker'[u] = worker[u]
          \/ /\ worker'[u].stage = "collect" /\ worker[u].stage = "collect"
             /\ worker'[u].group = worker[u].group
    BY <1>0, <2>1 DEF WatchInv, TypeInv, Workings
  <2> QED  BY <1>3, <2>3, <2>4, QuietStep DEF Collect
<1>4. CASE Schedule(w)
  <2>1. /\ worker[w].stage = "collect" /\ g \in Groups /\ canTtl[g]
        /\ timer' = [timer EXCEPT ![g] = "ttl"]
        /\ canTtl' = [canTtl EXCEPT ![g] = FALSE]
        /\ UNCHANGED <<restore, listener>>
    BY <1>4 DEF Schedule, WatchInv, TypeInv, CollectorInv
  <2>2. timer[g] = "none" /\ listener.group # g
    BY <2>1, NullIsNoGroup DEF WatchInv, WatchedWhileEjected, ListenerInv
  <2>3. /\ worker' \in [Workers -> Workings]
        /\ worker'[w].stage = "idle"
        /\ \A u \in Workers : u # w => worker'[u] = worker[u]
    BY <1>4, SlotCountAssumption DEF Schedule, WatchInv, TypeInv, Workings, Idle, Owners
  <2>4. TypeInv'  BY <2>1, <2>3 DEF WatchInv, TypeInv
  <2>5. ListenerInv'  BY <2>1, <2>2 DEF WatchInv, ListenerInv, TypeInv
  <2>6. CollectorInv'
    <3>1. \A u \in Workers : worker'[u].stage # "collect"
      BY <2>1, <2>3 DEF WatchInv, CollectorInv
    <3> QED  BY <3>1 DEF CollectorInv
  <2>7. WatchedWhileEjected'
    BY <2>1, <2>2 DEF WatchInv, WatchedWhileEjected, TypeInv
  <2> QED  BY <2>4, <2>5, <2>6, <2>7 DEF WatchInv
<1> QED  BY <1>1, <1>2, <1>3, <1>4 DEF Working

LEMMA RequestStep ==
    ASSUME WatchInv, NEW w \in Workers, NEW g \in Groups, Request(w, g) PROVE WatchInv'
<1>1. worker' = [worker EXCEPT ![w] = [stage |-> "lock", group |-> g, next |-> 0]]
  BY DEF Request
<1>2. [stage |-> "lock", group |-> g, next |-> 0] \in Workings
  BY SlotCountAssumption DEF Workings, Owners
<1>3. worker' \in [Workers -> Workings]  BY <1>1, <1>2 DEF WatchInv, TypeInv
<1>4. \A u \in Workers :
        \/ worker'[u] = worker[u]
        \/ worker'[u].stage = "lock" /\ worker'[u].group \in Groups
  <2>1. worker'[w] = [stage |-> "lock", group |-> g, next |-> 0]
    BY <1>1 DEF WatchInv, TypeInv
  <2>2. \A u \in Workers : u # w => worker'[u] = worker[u]
    BY <1>1 DEF WatchInv, TypeInv
  <2> QED  BY <2>1, <2>2
<1> QED  BY <1>3, <1>4, QuietStep DEF Request, infoVars

\* A timer fires: it is cancelled, it fires again later, or the listener takes
\* the group in hand.
LEMMA TimerStep ==
    ASSUME WatchInv, NEW g \in Groups, TimerFires(g) PROVE WatchInv'
<1>1. CASE TtlCancelled(g)
  <2>1. /\ timer' = [timer EXCEPT ![g] = "none"]
        /\ canTtl' = [canTtl EXCEPT ![g] = TRUE]
        /\ listener.stage = "idle" /\ listener.group = NULL
        /\ UNCHANGED <<restore, worker, listener>>
    BY <1>1 DEF TtlCancelled, WatchInv, ListenerInv
  <2>2. TypeInv'  BY <2>1 DEF WatchInv, TypeInv
  <2>3. ListenerInv'  BY <2>1 DEF ListenerInv
  <2>4. CollectorInv'  BY <2>1 DEF WatchInv, CollectorInv, TypeInv
  <2>5. WatchedWhileEjected'  BY <2>1 DEF WatchInv, WatchedWhileEjected, TypeInv
  <2> QED  BY <2>2, <2>3, <2>4, <2>5 DEF WatchInv
<1>2. CASE TtlExpired(g) \/ RestoreBegin(g)
  <2>1. /\ timer' = [timer EXCEPT ![g] = "none"]
        /\ timer[g] # "none"
        /\ listener.stage = "idle" /\ listener.group = NULL
        /\ listener'.stage # "idle" /\ listener'.group = g
        /\ listener' = [stage |-> listener'.stage, group |-> listener'.group,
                        next |-> listener'.next, taken |-> listener'.taken,
                        others |-> listener'.others]
        /\ UNCHANGED <<restore, canTtl, worker>>
    <3>1. /\ timer' = [timer EXCEPT ![g] = "none"]
          /\ timer[g] # "none"
          /\ listener.stage = "idle"
          /\ UNCHANGED <<restore, canTtl, worker>>
      BY <1>2 DEF TtlExpired, RestoreBegin
    <3>2. listener.group = NULL  BY <3>1 DEF WatchInv, ListenerInv
    <3>3. \E s \in {"take", "giveBack"} :
            listener' = [stage |-> s, group |-> g, next |-> 0, taken |-> <<>>,
                         others |-> {}]
      BY <1>2 DEF TtlExpired, RestoreBegin, Quiet
    <3>4. /\ listener'.stage # "idle" /\ listener'.group = g
          /\ listener' = [stage |-> listener'.stage, group |-> listener'.group,
                          next |-> listener'.next, taken |-> listener'.taken,
                          others |-> listener'.others]
      BY <3>3
    <3> QED  BY <3>1, <3>2, <3>4
  <2>2. ~canTtl[g]  BY <2>1 DEF WatchInv, WatchedWhileEjected
  <2>3. TypeInv'  BY <2>1 DEF WatchInv, TypeInv
  <2>4. ListenerInv'  BY <2>1, <2>2 DEF ListenerInv
  <2>5. CollectorInv'  BY <2>1 DEF WatchInv, CollectorInv
  <2>6. WatchedWhileEjected'
    <3>1. timer'[g] = "none" /\ ~canTtl'[g] /\ listener'.group = g
      BY <2>1, <2>2 DEF WatchInv, TypeInv
    <3>2. ASSUME NEW h \in Groups, h # g
          PROVE  /\ timer'[h] = timer[h] /\ canTtl'[h] = canTtl[h]
                 /\ listener.group # h /\ listener'.group # h
      BY <2>1, <3>2, NullIsNoGroup DEF WatchInv, TypeInv
    <3> QED  BY <2>1, <3>1, <3>2 DEF WatchInv, WatchedWhileEjected
  <2> QED  BY <2>3, <2>4, <2>5, <2>6 DEF WatchInv
<1>3. CASE RestoreLater(g)
  <2>1. timer' = timer  BY <1>3 DEF RestoreLater, WatchInv, TypeInv
  <2> QED  BY <1>3, <2>1, QuietStep DEF RestoreLater, WatchInv, TypeInv
<1> QED  BY <1>1, <1>2, <1>3 DEF TimerFires

LEMMA CallbackStep == ASSUME WatchInv, InCallback PROVE WatchInv'
<1>1. CASE TakeSlot \/ TakeEnd \/ ShareSlot \/ ShareEnd \/ GiveBackSlot
  <2>1. /\ listener'.group = listener.group
        /\ listener.stage # "idle" /\ listener'.stage # "idle"
        /\ listener' = [stage |-> listener'.stage, group |-> listener'.group,
                        next |-> listener'.next, taken |-> listener'.taken,
                        others |-> listener'.others]
    BY <1>1 DEF TakeSlot, TakeEnd, ShareSlot, ShareEnd, GiveBackSlot, WatchInv, TypeInv
  <2>2. UNCHANGED <<restore, canTtl, timer, worker>>
    BY <1>1 DEF TakeSlot, TakeEnd, ShareSlot, ShareEnd, GiveBackSlot, infoVars
  <2> QED  BY <2>1, <2>2, QuietStep DEF WatchInv, TypeInv
<1>2. CASE Removed
  <2>1. /\ timer' = IF restore THEN [timer EXCEPT ![listener.group] = "restore"] ELSE timer
        /\ listener' = Quiet
        /\ listener.group \in Groups /\ ~canTtl[listener.group]
        /\ UNCHANGED <<restore, canTtl, worker>>
    BY <1>2 DEF Removed, WatchInv, ListenerInv
  <2>2. TypeInv'  BY <2>1 DEF WatchInv, TypeInv, Quiet
  <2>3. ListenerInv'  BY <2>1 DEF ListenerInv, Quiet
  <2>4. CollectorInv'  BY <2>1 DEF WatchInv, CollectorInv
  <2>5. WatchedWhileEjected'
    BY <2>1, NullIsNoGroup DEF WatchInv, WatchedWhileEjected, TypeInv, Quiet
  <2> QED  BY <2>2, <2>3, <2>4, <2>5 DEF WatchInv
<1>3. CASE GiveBackEnd
  <2>1. /\ canTtl' = [canTtl EXCEPT ![listener.group] = TRUE]
        /\ listener' = Quiet
        /\ listener.group \in Groups /\ timer[listener.group] = "none"
        /\ UNCHANGED <<restore, timer, worker>>
    BY <1>3 DEF GiveBackEnd, WatchInv, ListenerInv, WatchedWhileEjected
  <2>2. TypeInv'  BY <2>1 DEF WatchInv, TypeInv, Quiet
  <2>3. ListenerInv'  BY <2>1 DEF ListenerInv, Quiet
  <2>4. CollectorInv'  BY <2>1 DEF WatchInv, CollectorInv, TypeInv
  <2>5. WatchedWhileEjected'
    BY <2>1, NullIsNoGroup DEF WatchInv, WatchedWhileEjected, TypeInv, Quiet
  <2> QED  BY <2>2, <2>3, <2>4, <2>5 DEF WatchInv
<1> QED  BY <1>1, <1>2, <1>3 DEF InCallback

LEMMA NextWatch == ASSUME WatchInv, [Next]_vars PROVE WatchInv'
<1>1. CASE UNCHANGED <<restore, canTtl, timer, worker, listener>>
  BY <1>1, QuietStep DEF WatchInv, TypeInv
<1>2. CASE UNCHANGED vars
  BY <1>1, <1>2 DEF vars, infoVars
<1>3. ASSUME NEW g \in Groups, Toggle(g) PROVE WatchInv'
  BY <1>1, <1>3 DEF Toggle, infoVars
<1>4. ASSUME NEW typed \in Typed, HashMapping(typed[1], typed[2]) PROVE WatchInv'
  BY <1>1, <1>4 DEF HashMapping, infoVars
<1> QED
  BY <1>2, <1>3, <1>4, RequestStep, WorkerStep, TimerStep, CallbackStep DEF Next

\* A group that cannot be scheduled again has a timer that will change that, or
\* the listener is at work on it: with eject_after_restore no ejected group is
\* ever forgotten, and no group is scheduled twice.
THEOREM EjectedGroupsAreWatched == Spec => []WatchedWhileEjected
<1>1. WatchInv => WatchedWhileEjected  BY DEF WatchInv
<1> QED  BY <1>1, InitWatch, NextWatch, PTL DEF Spec

-----------------------------------------------------------------------------
(* Who inherits a slot.                                                    *)

\* The place of a group in the order of their addresses.
Place(others, g) == Cardinality({h \in others : h < g})

\* The addresses are finitely many numbers.
LEMMA OwnersFinite == Owners \subseteq Int /\ IsFiniteSet(Owners)
<1>1. IsFiniteSet(Groups \union {NULL})
  BY GroupsAssumption, FS_AddElement
<1>2. Groups \union {NULL} \subseteq Int
  BY GroupsAssumption DEF NULL
<1> QED BY <1>1, <1>2 DEF Owners

\* The round robin over otherGroups picks a group of it.
LEMMA HeirPlace ==
    ASSUME NEW others \in SUBSET Owners, others # {}, NEW n \in Nat
    PROVE  LET c == Cardinality(others) IN
           /\ c \in Nat \ {0} /\ n % c \in 0..(c - 1)
           /\ Vec(others, n % c) \in others
           /\ Place(others, Vec(others, n % c)) = n % c
<1> DEFINE c == Cardinality(others)
           i == n % c
<1>1. others \subseteq Int /\ IsFiniteSet(others)
  BY OwnersFinite, FS_Subset
<1>2. c \in Nat \ {0}
  BY <1>1, FS_CardinalityType, FS_EmptySet
<1>3. i \in 0..(c - 1)
  <2> HIDE DEF c
  <2> QED BY <1>2, Quotient
<1> HIDE DEF i
<1>4. \E g \in others : Cardinality({h \in others : h < g}) = i
  BY <1>1, <1>3, NumbersInOrder
<1>5. Vec(others, i) \in others /\ Cardinality({h \in others : h < Vec(others, i)}) = i
  BY <1>4 DEF Vec
<1> QED BY <1>2, <1>3, <1>5 DEF Place, i

-----------------------------------------------------------------------------
(* The types, all of them.                                                 *)

TableTypes ==
    /\ TypeOK
    /\ \A w \in Workers : worker[w].stage = "lock" => worker[w].next = 0
    /\ listener.stage = "share" => listener.others # {}

LEMMA InitTypes == Init => TableTypes
<1> SUFFICES ASSUME Init PROVE TableTypes
  OBVIOUS
<1>1. slots \in [Slots -> Groups] /\ Groups \subseteq Owners
  BY LayoutsAssumption DEF Init, Owners
<1>2. slots \in [Slots -> Owners] /\ home \in [Slots -> Groups]
  BY <1>1 DEF Init
<1>3. worker \in [Workers -> Workings] /\ listener \in Listenings
  BY SlotCountAssumption DEF Init, Workings, Idle, Listenings, Quiet, Owners
<1>4. \A w \in Workers : worker[w] = Idle
  BY DEF Init
<1>5. /\ \A w \in Workers : worker[w].stage = "idle" /\ worker[w].group = NULL
      /\ listener.stage = "idle"
  BY <1>4 DEF Init, Idle, Quiet
<1>6. /\ canTtl \in [Groups -> BOOLEAN]
      /\ oldHashValues \in [Groups -> SUBSET Slots]
      /\ timer \in [Groups -> {"none", "ttl", "restore"}]
      /\ requests \in 0..MaxRequests /\ mappings \in 0..MaxMappings
      /\ restore \in BOOLEAN /\ overlapped \in BOOLEAN
      /\ enabled \in [Groups -> BOOLEAN]
  <2>1. 0 \in 0..MaxRequests /\ 0 \in 0..MaxMappings
    BY BoundsAssumption
  <2>2. /\ canTtl \in [Groups -> BOOLEAN]
        /\ oldHashValues \in [Groups -> SUBSET Slots]
        /\ timer \in [Groups -> {"none", "ttl", "restore"}]
    BY DEF Init
  <2>3. restore \in BOOLEAN /\ enabled \in [Groups -> BOOLEAN]
    BY DEF Init
  <2>4. overlapped \in BOOLEAN /\ requests = 0 /\ mappings = 0
    BY DEF Init
  <2> QED BY <2>1, <2>2, <2>3, <2>4
<1> QED BY <1>2, <1>3, <1>5, <1>6 DEF TableTypes, TypeOK

\* What the types say of the actors.
LEMMA TypeFacts ==
    ASSUME TableTypes
    PROVE  /\ restore \in BOOLEAN /\ overlapped \in BOOLEAN
           /\ slots \in [Slots -> Owners] /\ home \in [Slots -> Groups]
           /\ oldHashValues \in [Groups -> SUBSET Slots]
           /\ canTtl \in [Groups -> BOOLEAN]
           /\ enabled \in [Groups -> BOOLEAN]
           /\ timer \in [Groups -> {"none", "ttl", "restore"}]
           /\ worker \in [Workers -> Workings]
           /\ requests \in Nat /\ requests <= MaxRequests
           /\ mappings \in Nat /\ mappings <= MaxMappings
           /\ listener.next \in Nat /\ listener.taken \in Seq(Slots)
           /\ listener.others \in SUBSET Owners
           /\ Len(listener.taken) \in Nat
           /\ \A k \in 1..Len(listener.taken) : listener.taken[k] \in Slots
<1>1. listener \in Listenings
  BY DEF TableTypes, TypeOK
<1>2. listener.next \in Nat /\ listener.taken \in Seq(Slots) /\ listener.others \in SUBSET Owners
  BY <1>1 DEF Listenings
<1>3. requests \in 0..MaxRequests /\ mappings \in 0..MaxMappings
  BY DEF TableTypes, TypeOK
<1>4. requests \in Nat /\ requests <= MaxRequests /\ mappings \in Nat /\ mappings <= MaxMappings
  BY <1>3, BoundsAssumption
<1>5. /\ Len(listener.taken) \in Nat
      /\ \A k \in 1..Len(listener.taken) : listener.taken[k] \in Slots
  BY <1>2
<1> QED BY <1>2, <1>4, <1>5 DEF TableTypes, TypeOK

\* A step that leaves the worker threads alone, or makes one of them idle, or
\* moves one that is not idle.
LEMMA TypesKept ==
    ASSUME TableTypes,
           restore' = restore, slots' \in [Slots -> Owners],
           enabled' \in [Groups -> BOOLEAN], canTtl' \in [Groups -> BOOLEAN],
           oldHashValues' \in [Groups -> SUBSET Slots],
           timer' \in [Groups -> {"none", "ttl", "restore"}],
           worker' \in [Workers -> Workings],
           \A w \in Workers :
              \/ worker'[w] = worker[w]
              \/ worker'[w].stage = "idle" /\ worker'[w].group = NULL
              \/ /\ worker'[w].stage # "idle" /\ worker'[w].group # NULL
                 /\ worker'[w].stage = "lock" => worker'[w].next = 0,
           listener' \in Listenings, listener'.stage = "share" => listener'.others # {},
           requests' \in 0..MaxRequests, mappings' \in 0..MaxMappings,
           home' \in [Slots -> Groups], overlapped' \in BOOLEAN
    PROVE  TableTypes'
BY DEF TableTypes, TypeOK

\* setSlot changes the table only at a slot, and only to an owner.
LEMMA SetSlotTypes ==
    ASSUME slots \in [Slots -> Owners], NEW n \in Int, NEW g \in Owners
    PROVE  SetSlot(n, g) \in [Slots -> Owners]
BY DEF SetSlot

LEMMA NextTypes == ASSUME WatchInv, TableTypes, [Next]_vars PROVE TableTypes'
<1>0. TypeInv' /\ TypeInv
  BY NextWatch DEF WatchInv
<1>f. /\ restore \in BOOLEAN /\ overlapped \in BOOLEAN
      /\ slots \in [Slots -> Owners] /\ home \in [Slots -> Groups]
      /\ oldHashValues \in [Groups -> SUBSET Slots]
      /\ enabled \in [Groups -> BOOLEAN]
      /\ worker \in [Workers -> Workings]
      /\ requests \in Nat /\ requests <= MaxRequests
      /\ mappings \in Nat /\ mappings <= MaxMappings
      /\ listener.next \in Nat /\ listener.taken \in Seq(Slots)
      /\ listener.others \in SUBSET Owners
      /\ \A k \in 1..Len(listener.taken) : listener.taken[k] \in Slots
  BY TypeFacts
<1>g. /\ listener \in Listenings /\ Quiet \in Listenings
      /\ listener.stage = "share" => listener.others # {}
      /\ requests \in 0..MaxRequests /\ mappings \in 0..MaxMappings
  BY DEF TableTypes, TypeOK, Listenings, Quiet, Owners
<1>h. /\ canTtl' \in [Groups -> BOOLEAN]
      /\ timer' \in [Groups -> {"none", "ttl", "restore"}]
      /\ worker' \in [Workers -> Workings]
      /\ \A w \in Workers : worker'[w].stage # "idle" => worker'[w].group \in Groups
  BY <1>0 DEF TypeInv
<1>n. Groups \subseteq Owners /\ NULL \in Owners /\ NULL \notin Groups
  BY NullIsNoGroup DEF Owners
<1>1. CASE UNCHANGED vars
  BY <1>1 DEF vars, infoVars, historyVars, TableTypes, TypeOK
<1>2. ASSUME NEW g \in Groups, Toggle(g) PROVE TableTypes'
  <2>1. enabled' \in [Groups -> BOOLEAN]
    BY <1>2, <1>f DEF Toggle
  <2> QED BY <1>2, <2>1, <1>f, <1>g, <1>h, TypesKept DEF Toggle, infoVars, historyVars
<1>3. ASSUME NEW g \in Groups, TimerFires(g) PROVE TableTypes'
  <2>1. \/ listener' = listener
        \/ \E s \in {"take", "giveBack"} :
             listener' = [stage |-> s, group |-> g, next |-> 0, taken |-> <<>>, others |-> {}]
    BY <1>3 DEF TimerFires, TtlCancelled, TtlExpired, RestoreLater, RestoreBegin, Quiet
  <2>2. listener' \in Listenings /\ (listener'.stage = "share" => listener'.others # {})
    <3>1. ASSUME NEW s \in {"take", "giveBack"},
                 listener' = [stage |-> s, group |-> g, next |-> 0, taken |-> <<>>, others |-> {}]
          PROVE  listener' \in Listenings /\ listener'.stage # "share"
      <4>1. g \in Owners /\ 0 \in Nat /\ <<>> \in Seq(Slots) /\ {} \in SUBSET Owners
        BY <1>n
      <4> QED BY <3>1, <4>1 DEF Listenings
    <3> QED BY <2>1, <3>1, <1>g
  <2>3. UNCHANGED <<restore, slots, enabled, oldHashValues, worker, requests, mappings, home,
                    overlapped>>
    BY <1>3 DEF TimerFires, TtlCancelled, TtlExpired, RestoreLater, RestoreBegin, historyVars
  <2> QED BY <2>2, <2>3, <1>f, <1>g, <1>h, TypesKept
<1>4. ASSUME NEW w \in Workers, NEW g \in Groups, Request(w, g) PROVE TableTypes'
  <2>1. UNCHANGED <<restore, slots, enabled, oldHashValues, listener, mappings, home, overlapped>>
    BY <1>4 DEF Request, infoVars
  <2>2. requests' \in 0..MaxRequests
    BY <1>4, <1>f, BoundsAssumption DEF Request
  <2>3. /\ worker'[w] = [stage |-> "lock", group |-> g, next |-> 0]
        /\ \A u \in Workers : u # w => worker'[u] = worker[u]
    BY <1>4, <1>f DEF Request
  <2> QED BY <2>1, <2>2, <2>3, <1>f, <1>g, <1>h, <1>n, TypesKept
<1>5. ASSUME NEW w \in Workers, Working(w) PROVE TableTypes'
  <2>1. UNCHANGED <<restore, slots, enabled, listener, requests, mappings, home>>
    BY <1>5 DEF Working, Lock, LockNotAllowed, Collect, Schedule, infoVars, historyVars
  <2>2. overlapped' \in BOOLEAN
    BY <1>5, <1>f DEF Working, Lock, LockNotAllowed, Collect, Schedule, historyVars
  <2>3. \A u \in Workers : u # w => worker'[u] = worker[u]
    BY <1>5, <1>f DEF Working, Lock, LockNotAllowed, Collect, Schedule
  <2>4. worker'[w] = Idle \/ worker'[w].stage = "collect"
    BY <1>5, <1>f DEF Working, Lock, LockNotAllowed, Collect, Schedule, Workings
  <2>5. oldHashValues' \in [Groups -> SUBSET Slots]
    <3>1. CASE Collect(w)
      <4>1. worker[w] \in Workings /\ worker[w].next < SlotCount
        BY <3>1, <1>f DEF Collect
      <4>2. worker[w].next \in Slots
        BY <4>1, SlotCountAssumption DEF Workings, Slots
      <4> QED BY <3>1, <4>2, <1>f DEF Collect
    <3>2. CASE Lock(w)
      BY <3>2, <1>f DEF Lock
    <3>3. CASE LockNotAllowed(w) \/ Schedule(w)
      BY <3>3, <1>f DEF LockNotAllowed, Schedule, infoVars
    <3> QED BY <1>5, <3>1, <3>2, <3>3 DEF Working
  <2>6. \/ worker'[w].stage = "idle" /\ worker'[w].group = NULL
        \/ worker'[w].stage = "collect" /\ worker'[w].group # NULL
    BY <2>4, <1>h, <1>n DEF Idle
  <2> QED BY <2>1, <2>2, <2>3, <2>5, <2>6, <1>f, <1>g, <1>h, TypesKept
<1>6. ASSUME NEW typed \in Typed, HashMapping(typed[1], typed[2]) PROVE TableTypes'
  <2>1. typed[1] \in Int /\ typed[2] \in Groups
    BY TypedAssumption
  <2>2. slots' \in [Slots -> Owners] /\ home' \in [Slots -> Groups]
    BY <1>6, <2>1, <1>f, <1>n DEF HashMapping, SetSlot
  <2>3. mappings' \in 0..MaxMappings /\ overlapped' \in BOOLEAN
    BY <1>6, <1>f, BoundsAssumption DEF HashMapping
  <2>4. UNCHANGED <<restore, enabled, oldHashValues, worker, listener, requests>>
    BY <1>6 DEF HashMapping, infoVars
  <2> QED BY <2>2, <2>3, <2>4, <1>f, <1>g, <1>h, TypesKept
<1>7. ASSUME InCallback PROVE TableTypes'
  <2>1. UNCHANGED <<restore, enabled, oldHashValues, worker, requests, mappings, home, overlapped>>
    BY <1>7 DEF InCallback, TakeSlot, TakeEnd, ShareSlot, ShareEnd, Removed, GiveBackSlot,
                GiveBackEnd, infoVars, historyVars
  <2>2. listener' \in Listenings /\ (listener'.stage = "share" => listener'.others # {})
    <3>1. CASE TakeSlot
      <4>1. listener.next \in Slots /\ listener.next + 1 \in Nat
        BY <3>1, <1>f, SlotCountAssumption DEF TakeSlot, Slots
      <4>2. /\ slots[listener.next] \in Owners
            /\ Append(listener.taken, listener.next) \in Seq(Slots)
            /\ listener.others \union {slots[listener.next]} \in SUBSET Owners
        BY <4>1, <1>f
      <4>3. CASE slots[listener.next] = listener.group
        BY <3>1, <4>1, <4>2, <4>3, <1>g DEF TakeSlot, Listenings
      <4>4. CASE slots[listener.next] # listener.group
        BY <3>1, <4>1, <4>2, <4>4, <1>g DEF TakeSlot, Listenings
      <4> QED BY <4>3, <4>4
    <3>2. CASE TakeEnd
      <4>1. \/ listener' = [listener EXCEPT !.stage = "removed", !.next = 0]
            \/ /\ listener' = [listener EXCEPT !.stage = "share", !.next = 0]
               /\ listener.others # {}
        BY <3>2 DEF TakeEnd
      <4>2. CASE listener' = [listener EXCEPT !.stage = "removed", !.next = 0]
        BY <4>2, <1>g DEF Listenings
      <4>3. ASSUME listener' = [listener EXCEPT !.stage = "share", !.next = 0],
                   listener.others # {}
            PROVE  listener' \in Listenings /\ listener'.others # {}
        BY <4>3, <1>g DEF Listenings
      <4> QED BY <4>1, <4>2, <4>3, <1>g DEF Listenings
    <3>3. CASE ShareSlot \/ GiveBackSlot
      <4>1. listener' = [listener EXCEPT !.next = listener.next + 1]
        BY <3>3 DEF ShareSlot, GiveBackSlot
      <4>2. listener.next + 1 \in Nat
        BY <1>f
      <4> QED BY <4>1, <4>2, <1>g DEF Listenings
    <3>4. CASE ShareEnd
      BY <3>4, <1>g DEF ShareEnd, Listenings
    <3>5. CASE Removed \/ GiveBackEnd
      <4>1. listener' = Quiet
        BY <3>5 DEF Removed, GiveBackEnd
      <4> QED BY <4>1, <1>g DEF Quiet
    <3> QED BY <1>7, <3>1, <3>2, <3>3, <3>4, <3>5 DEF InCallback
  <2>3. slots' \in [Slots -> Owners]
    <3>1. CASE TakeSlot
      BY <3>1, <1>f, <1>n DEF TakeSlot, SetSlot
    <3>2. CASE ShareSlot
      <4>1. listener.others # {} /\ slots' = SetSlot(listener.taken[listener.next + 1], Heir(listener.next))
        BY <3>2, <1>g DEF ShareSlot
      <4>2. Heir(listener.next) \in Owners
        BY <4>1, <1>f, HeirPlace DEF Heir
      <4> QED BY <4>1, <4>2, <1>f DEF SetSlot
    <3>3. CASE GiveBackSlot
      <4>1. listener.group \in Owners
        BY <1>g DEF Listenings
      <4> QED BY <3>3, <4>1, <1>f DEF GiveBackSlot, SetSlot
    <3>4. CASE TakeEnd \/ ShareEnd \/ Removed \/ GiveBackEnd
      BY <3>4, <1>f DEF TakeEnd, ShareEnd, Removed, GiveBackEnd
    <3> QED BY <1>7, <3>1, <3>2, <3>3, <3>4 DEF InCallback
  <2> QED BY <2>1, <2>2, <2>3, <1>f, <1>g, <1>h, TypesKept
<1> QED BY <1>1, <1>2, <1>3, <1>4, <1>5, <1>6, <1>7 DEF Next

-----------------------------------------------------------------------------
(* The slot table while ejections do not meet.  The stages of an ejection   *)
(* are told apart: what is recorded, what is taken, what is shared out and  *)
(* what is given back.                                                      *)

\* One group at a time is scheduled, ejected or restored.
OneAtATime ==
    /\ \A g, h \in Groups : ~canTtl[g] /\ ~canTtl[h] => g = h
    /\ \A w \in Workers : worker[w].stage = "collect" => \A g \in Groups : canTtl[g]

\* oldHashValues is what the group has in the configuration, as far as the
\* worker that collects it came.
Recorded ==
    /\ \A w \in Workers : worker[w].stage = "collect" =>
         oldHashValues[worker[w].group] =
           {n \in Slots : n < worker[w].next /\ home[n] = worker[w].group}
    /\ \A g \in Groups : ~canTtl[g] => oldHashValues[g] = {n \in Slots : home[n] = g}

\* Only the slots of a group that was ejected are away.
Settled ==
    /\ (\A g \in Groups : canTtl[g]) => slots = home
    /\ \A g \in Groups : timer[g] = "ttl" => slots = home
    /\ \A g \in Groups : ~canTtl[g] =>
         \A n \in Slots : home[n] # g => slots[n] = home[n]

\* removeGroup takes the slots of its group, each once, and notes the others.
Taken ==
    listener.stage \in {"take", "share", "removed"} =>
      /\ listener.others \subseteq Groups
      /\ IsInjective(listener.taken)
      /\ \A k \in 1..Len(listener.taken) : home[listener.taken[k]] = listener.group
      /\ listener.stage # "take" =>
           /\ \A n \in Slots : home[n] = listener.group =>
                \E k \in 1..Len(listener.taken) : listener.taken[k] = n
           /\ listener.others = {} => \A n \in Slots : home[n] = listener.group

\* Its first loop is at listener.next.
Taking ==
    listener.stage = "take" =>
      /\ \A n \in Slots : n >= listener.next => slots[n] = home[n]
      /\ \A n \in Slots : n < listener.next =>
           IF home[n] = listener.group
           THEN \E k \in 1..Len(listener.taken) : listener.taken[k] = n
           ELSE home[n] \in listener.others
      /\ \A k \in 1..Len(listener.taken) : listener.taken[k] < listener.next

\* Its second loop has dealt the first listener.next slots; at the end, all.
Sharing ==
    /\ listener.stage = "share" => listener.next <= Len(listener.taken)
    /\ listener.stage \in {"share", "removed"} /\ listener.others # {} =>
         \A k \in 1..Len(listener.taken) : (listener.stage = "share" => k <= listener.next) =>
           slots[listener.taken[k]] = Heir(k - 1)

\* onRestoreGroup has given back the slots before listener.next.
GivingBack ==
    listener.stage = "giveBack" =>
      \A n \in Slots : n < listener.next /\ home[n] = listener.group =>
        slots[n] = listener.group

\* A slot without owner is in the listener's hands, or there is nobody to get it.
NullInHand ==
    \A n \in Slots : slots[n] = NULL =>
      listener.stage \in {"take", "share"} \/ \A m \in Slots : home[m] = home[n]

TableInv ==
    /\ OneAtATime /\ Recorded /\ Settled /\ Taken /\ Taking /\ Sharing
    /\ GivingBack /\ NullInHand

EjectInv == WatchInv /\ TableTypes /\ (~overlapped => TableInv)

\* No group is away: the table is the configured one, and the listener is idle.
LEMMA AtRest ==
    ASSUME WatchInv', TableTypes', \A g \in Groups : canTtl'[g], slots' = home',
           \A w \in Workers : worker'[w].stage = "collect" =>
             oldHashValues'[worker'[w].group] =
               {n \in Slots : n < worker'[w].next /\ home'[n] = worker'[w].group}
    PROVE  TableInv'
<1>1. listener'.stage = "idle"
  BY DEF WatchInv, ListenerInv
<1>2. \A g \in Groups : timer'[g] = "none"
  BY DEF WatchInv, WatchedWhileEjected
<1>3. \A n \in Slots : slots'[n] # NULL
  BY NullIsNoGroup DEF TableTypes, TypeOK
<1>4. OneAtATime' /\ Recorded'
  BY DEF OneAtATime, Recorded
<1>5. Settled'
  BY <1>2 DEF Settled
<1>6. Taken' /\ Taking' /\ Sharing' /\ GivingBack'
  BY <1>1 DEF Taken, Taking, Sharing, GivingBack
<1>7. NullInHand'
  BY <1>3 DEF NullInHand
<1> QED BY <1>4, <1>5, <1>6, <1>7 DEF TableInv

LEMMA InitTable == Init => TableInv
<1> SUFFICES ASSUME Init PROVE TableInv
  OBVIOUS
<1>1. /\ listener.stage = "idle" /\ slots = home
      /\ \A g \in Groups : timer[g] = "none" /\ canTtl[g]
      /\ \A w \in Workers : worker[w].stage # "collect"
  BY DEF Init, Quiet, Idle
<1>2. \A n \in Slots : slots[n] # NULL
  BY LayoutsAssumption, NullIsNoGroup DEF Init
<1>3. OneAtATime /\ Recorded /\ Settled
  BY <1>1 DEF OneAtATime, Recorded, Settled
<1>4. Taken /\ Taking /\ Sharing /\ GivingBack /\ NullInHand
  BY <1>1, <1>2 DEF Taken, Taking, Sharing, GivingBack, NullInHand
<1> QED BY <1>3, <1>4 DEF TableInv

\* What does not touch the table, the timers or the slots a group had.
LEMMA TableUnmoved ==
    ASSUME TableInv, UNCHANGED <<slots, canTtl, oldHashValues, timer, home, listener>>,
           \A w \in Workers : worker'[w] = worker[w] \/ worker'[w].stage # "collect"
    PROVE  TableInv'
<1>1. OneAtATime' /\ Recorded'
  <2>1. \A w \in Workers : worker'[w].stage = "collect" => worker'[w] = worker[w]
    OBVIOUS
  <2> QED BY <2>1 DEF TableInv, OneAtATime, Recorded
<1>2. Settled' /\ NullInHand'
  BY DEF TableInv, Settled, NullInHand
<1>3. Taken' /\ Taking' /\ Sharing' /\ GivingBack'
  BY DEF TableInv, Taken, Taking, Sharing, GivingBack, Heir
<1> QED BY <1>1, <1>2, <1>3 DEF TableInv

\* The listener is in a callback: its group is away, alone, and no timer or worker
\* is about another.
LEMMA InHand ==
    ASSUME WatchInv, TableTypes, TableInv, listener.stage # "idle"
    PROVE  /\ listener.group \in Groups /\ ~canTtl[listener.group]
           /\ \A h \in Groups : h # listener.group => canTtl[h]
           /\ \A h \in Groups : timer[h] = "none"
           /\ \A w \in Workers : worker[w].stage # "collect"
           /\ \A n \in Slots : home[n] # listener.group => slots[n] = home[n]
           /\ oldHashValues[listener.group] = {n \in Slots : home[n] = listener.group}
<1>1. listener.group \in Groups /\ ~canTtl[listener.group]
  BY DEF WatchInv, ListenerInv
<1>2. \A h \in Groups : h # listener.group => canTtl[h]
  BY <1>1 DEF TableInv, OneAtATime
<1>3. \A h \in Groups : timer[h] = "none"
  BY <1>1, <1>2 DEF WatchInv, WatchedWhileEjected
<1>4. \A w \in Workers : worker[w].stage # "collect"
  BY <1>1 DEF TableInv, OneAtATime
<1> QED BY <1>1, <1>2, <1>3, <1>4 DEF TableInv, Settled, Recorded

\* A step of a callback that leaves the slots of the others alone.
LEMMA HandKept ==
    ASSUME WatchInv, TableTypes, TableInv, listener.stage # "idle",
           UNCHANGED <<canTtl, oldHashValues, worker, home>>,
           \A h \in Groups : timer'[h] # "ttl",
           \A n \in Slots : home[n] # listener.group => slots'[n] = slots[n]
    PROVE  OneAtATime' /\ Recorded' /\ Settled'
<1>1. OneAtATime' /\ Recorded'
  BY DEF TableInv, OneAtATime, Recorded
<1>2. Settled'
  BY InHand DEF Settled
<1> QED BY <1>1, <1>2

\* The workers and the operator keep the table's invariant.
LEMMA WorkerTable ==
    ASSUME EjectInv, WatchInv', TableTypes', ~overlapped', NEW w \in Workers, Working(w)
    PROVE  TableInv'
<1>0. WatchInv /\ TableTypes
  BY DEF EjectInv
<1>t. /\ worker[w] \in Workings /\ DOMAIN worker = Workers
      /\ oldHashValues \in [Groups -> SUBSET Slots]
      /\ canTtl \in [Groups -> BOOLEAN] /\ timer \in [Groups -> {"none", "ttl", "restore"}]
      /\ home \in [Slots -> Groups] /\ worker \in [Workers -> Workings]
  BY <1>0, TypeFacts
<1>s. SlotCount \in Nat /\ \A n \in Slots : n \in Nat /\ n < SlotCount
  BY SlotCountAssumption DEF Slots
<1>u. UNCHANGED <<slots, home, listener>>
  BY DEF Working, Lock, LockNotAllowed, Collect, Schedule, historyVars
<1>o. TableInv
  BY DEF EjectInv, Working, Lock, LockNotAllowed, Collect, Schedule, historyVars
<1>1. CASE Lock(w)
  <2>1. \A g \in Groups : canTtl[g]
    BY <1>1 DEF Lock, Ejecting
  <2>2. slots = home
    BY <1>o, <2>1 DEF TableInv, Settled
  <2>3. \A u \in Workers : u # w => worker'[u] = worker[u] /\ worker[u].stage # "collect"
    BY <1>1, <1>t DEF Lock, MutexFree
  <2>4. worker'[w].group = worker[w].group /\ worker'[w].next = 0
    <3>1. worker[w].next = 0
      BY <1>1, <1>0 DEF Lock, TableTypes
    <3> QED BY <3>1, <1>1, <1>t DEF Lock, Workings
  <2>5. oldHashValues'[worker[w].group] = {}
    BY <1>1, <1>0, <1>t DEF Lock, WatchInv, TypeInv
  <2>6. {n \in Slots : n < 0 /\ home[n] = worker[w].group} = {}
    BY <1>s
  <2>7. UNCHANGED canTtl
    BY <1>1 DEF Lock
  <2> QED BY <2>1, <2>2, <2>3, <2>4, <2>5, <2>6, <2>7, <1>u, AtRest
<1>2. CASE LockNotAllowed(w)
  <2>1. \A u \in Workers : worker'[u] = worker[u] \/ worker'[u].stage # "collect"
    BY <1>2, <1>t DEF LockNotAllowed, Idle
  <2> QED BY <2>1, <1>2, <1>o, <1>u, TableUnmoved DEF LockNotAllowed, infoVars
<1>3. CASE Collect(w)
  <2> DEFINE g == worker[w].group
             n == worker[w].next
  <2>1. /\ worker[w].stage = "collect" /\ n \in Slots /\ n + 1 \in Nat /\ g \in Groups
    BY <1>3, <1>0, <1>t, <1>s DEF Collect, Workings, WatchInv, TypeInv, Slots
  <2>2. (\A h \in Groups : canTtl[h]) /\ slots = home
    BY <1>o, <2>1 DEF TableInv, OneAtATime, Settled
  <2>3. oldHashValues[g] = {m \in Slots : m < n /\ home[m] = g}
    BY <1>o, <2>1 DEF TableInv, Recorded
  <2>4. /\ worker'[w].group = g /\ worker'[w].next = n + 1
        /\ \A u \in Workers : u # w => worker'[u] = worker[u]
    BY <1>3, <1>t DEF Collect, Workings
  <2>5. oldHashValues'[g] = IF home[n] = g THEN oldHashValues[g] \union {n} ELSE oldHashValues[g]
    BY <1>3, <1>t, <2>1, <2>2 DEF Collect
  <2> HIDE DEF g, n
  <2>6. oldHashValues'[g] = {m \in Slots : m < n + 1 /\ home[m] = g}
    <3>1. \A m \in Slots : m < n + 1 <=> (m < n \/ m = n)
      BY <2>1, <1>s
    <3>2. \A m : m \in oldHashValues'[g] <=> m \in Slots /\ m < n + 1 /\ home[m] = g
      BY <3>1, <2>1, <2>3, <2>5
    <3>3. \A m : m \in oldHashValues'[g] => m \in Slots
      BY <3>2
    <3> QED BY <3>2, <3>3
  <2>7. \A u \in Workers : u # w => worker'[u].stage # "collect"
    BY <1>0, <2>1, <2>4 DEF WatchInv, CollectorInv
  <2> QED BY <2>2, <2>4, <2>6, <2>7, <1>3, <1>u, AtRest DEF Collect
<1>4. CASE Schedule(w)
  <2> DEFINE g == worker[w].group
  <2>1. /\ worker[w].stage = "collect" /\ worker[w].next = SlotCount /\ g \in Groups
        /\ UNCHANGED oldHashValues
    BY <1>4, <1>0 DEF Schedule, WatchInv, TypeInv
  <2>2. (\A h \in Groups : canTtl[h]) /\ slots = home
    BY <1>o, <2>1 DEF TableInv, OneAtATime, Settled
  <2>3. oldHashValues[g] = {m \in Slots : home[m] = g}
    <3>1. oldHashValues[g] = {m \in Slots : m < SlotCount /\ home[m] = g}
      BY <1>o, <2>1 DEF TableInv, Recorded
    <3> QED BY <3>1, <1>s
  <2>4. /\ canTtl'[g] = FALSE
        /\ \A h \in Groups : h # g => canTtl'[h] = canTtl[h]
    BY <1>4, <1>t, <2>1 DEF Schedule
  <2>5. \A u \in Workers : worker'[u].stage # "collect"
    <3>1. worker'[w] = Idle /\ \A u \in Workers : u # w => worker'[u] = worker[u]
      BY <1>4, <1>t DEF Schedule
    <3> QED BY <3>1, <2>1, <1>0 DEF WatchInv, CollectorInv, Idle
  <2>6. listener.stage = "idle"
    BY <1>0, <2>2 DEF WatchInv, ListenerInv
  <2> HIDE DEF g
  <2>7. OneAtATime'
    BY <2>2, <2>4, <2>5 DEF OneAtATime
  <2>8. Recorded'
    BY <2>1, <2>2, <2>3, <2>4, <2>5, <1>u DEF Recorded
  <2>9. Settled'
    BY <2>2, <1>u, <2>1, <2>4 DEF Settled
  <2>10. Taken' /\ Taking' /\ Sharing' /\ GivingBack' /\ NullInHand'
    <3>1. \A n \in Slots : slots'[n] # NULL
      BY <2>2, <1>u, <1>t, NullIsNoGroup
    <3> QED BY <2>6, <1>u, <3>1 DEF Taken, Taking, Sharing, GivingBack, NullInHand
  <2> QED BY <2>7, <2>8, <2>9, <2>10 DEF TableInv
<1> QED BY <1>1, <1>2, <1>3, <1>4 DEF Working

LEMMA MappingTable ==
    ASSUME EjectInv, WatchInv', TableTypes', ~overlapped',
           NEW typed \in Typed, HashMapping(typed[1], typed[2])
    PROVE  TableInv'
<1>1. /\ \A g \in Groups : canTtl[g]
      /\ \A w \in Workers : worker[w].stage # "collect"
      /\ UNCHANGED <<canTtl, worker>> /\ ~overlapped
  BY DEF HashMapping, Ejecting, MutexFree, infoVars
<1>2. slots = home
  BY <1>1 DEF EjectInv, TableInv, Settled
<1>3. slots' = home'
  BY <1>2 DEF HashMapping, SetSlot
<1> QED BY <1>1, <1>3, AtRest

LEMMA TimerTable ==
    ASSUME EjectInv, WatchInv', TableTypes', ~overlapped', NEW g \in Groups, TimerFires(g)
    PROVE  TableInv'
<1>0. WatchInv /\ TableTypes
  BY DEF EjectInv
<1>t. /\ canTtl \in [Groups -> BOOLEAN] /\ timer \in [Groups -> {"none", "ttl", "restore"}]
      /\ home \in [Slots -> Groups]
  BY <1>0, TypeFacts
<1>u. UNCHANGED <<slots, home, worker, oldHashValues>>
  BY DEF TimerFires, TtlCancelled, TtlExpired, RestoreLater, RestoreBegin, historyVars
<1>o. TableInv
  BY DEF EjectInv, TimerFires, TtlCancelled, TtlExpired, RestoreLater, RestoreBegin, historyVars
<1>1. CASE TtlCancelled(g)
  <2>1. ~canTtl[g] /\ slots = home
    BY <1>1, <1>0, <1>o DEF TtlCancelled, WatchInv, WatchedWhileEjected, TableInv, Settled
  <2>2. \A h \in Groups : canTtl'[h]
    BY <1>1, <1>t, <2>1, <1>o DEF TtlCancelled, TableInv, OneAtATime
  <2>3. \A w \in Workers : worker[w].stage # "collect"
    BY <2>1, <1>o DEF TableInv, OneAtATime
  <2> QED BY <2>1, <2>2, <2>3, <1>u, AtRest
<1>2. CASE RestoreLater(g)
  <2>1. UNCHANGED <<timer, canTtl, listener>>
    BY <1>2, <1>t DEF RestoreLater
  <2> QED BY <2>1, <1>o, <1>u, TableUnmoved
<1>3. CASE TtlExpired(g) \/ RestoreBegin(g)
  <2>1. /\ timer[g] # "none" /\ timer' = [timer EXCEPT ![g] = "none"] /\ UNCHANGED canTtl
        /\ listener.stage = "idle"
        /\ TtlExpired(g) => timer[g] = "ttl"
    BY <1>3 DEF TtlExpired, RestoreBegin
  <2>2. /\ listener'.next = 0 /\ listener'.group = g
        /\ listener'.taken = <<>> /\ listener'.others = {}
        /\ listener'.stage \in {"take", "giveBack"}
        /\ listener'.stage = "take" => timer[g] = "ttl"
    <3>1. \E s \in {"take", "giveBack"} :
            /\ listener' = [stage |-> s, group |-> g, next |-> 0, taken |-> <<>>,
                             others |-> {}]
            /\ s = "take" => timer[g] = "ttl"
      BY <1>3 DEF TtlExpired, RestoreBegin, Quiet
    <3> QED BY <3>1
  <2>3. ~canTtl[g]
    BY <2>1, <1>0 DEF WatchInv, WatchedWhileEjected
  <2>4. \A h \in Groups : timer'[h] = "none"
    BY <2>1, <2>3, <1>o, <1>0, <1>t DEF TableInv, OneAtATime, WatchInv, WatchedWhileEjected
  <2>5. OneAtATime' /\ Recorded' /\ Settled'
    <3>1. OneAtATime' /\ Recorded'
      BY <2>1, <1>o, <1>u DEF TableInv, OneAtATime, Recorded
    <3>2. Settled'
      BY <2>1, <2>3, <2>4, <1>o, <1>u DEF TableInv, Settled
    <3> QED BY <3>1, <3>2
  <2>6. Taken'
    <3>1. Len(<<>>) = 0 /\ IsInjective(<<>>) /\ \A k : k \notin 1..0
      BY DEF IsInjective
    <3> QED BY <2>2, <3>1 DEF Taken
  <2>7. Taking'
    <3>1. Len(<<>>) = 0 /\ \A k : k \notin 1..0
      OBVIOUS
    <3>2. \A n \in Slots : ~(n < 0)
      BY DEF Slots
    <3>3. timer[g] = "ttl" => slots' = home'
      BY <1>o, <1>u DEF TableInv, Settled
    <3> QED BY <2>2, <3>1, <3>2, <3>3 DEF Taking
  <2>8. Sharing'
    BY <2>2 DEF Sharing
  <2>9. GivingBack'
    <3>1. \A n \in Slots : ~(n < 0)
      BY DEF Slots
    <3> QED BY <2>2, <3>1 DEF GivingBack
  <2>10. NullInHand'
    BY <2>1, <1>o, <1>u DEF TableInv, NullInHand
  <2> QED BY <2>5, <2>6, <2>7, <2>8, <2>9, <2>10 DEF TableInv
<1> QED BY <1>1, <1>2, <1>3 DEF TimerFires

\* One turn of the first loop of removeGroup.
LEMMA TakeSlotTable ==
    ASSUME WatchInv, TableTypes, TableInv, TakeSlot PROVE TableInv'
<1> DEFINE n == listener.next
           g == listener.group
           taken == listener.taken
<1>t. /\ slots \in [Slots -> Owners] /\ home \in [Slots -> Groups]
      /\ listener \in Listenings
      /\ Len(taken) \in Nat /\ taken \in Seq(Slots)
      /\ \A k \in 1..Len(taken) : taken[k] \in Slots
  BY TypeFacts DEF TableTypes, TypeOK
<1>s. SlotCount \in Nat /\ \A m \in Slots : m \in Nat /\ m < SlotCount
  BY SlotCountAssumption DEF Slots
<1>1. /\ listener.stage = "take" /\ n \in Slots /\ n \in Nat
      /\ UNCHANGED <<canTtl, oldHashValues, timer, worker, home>>
  BY <1>t, TypeFacts, SlotCountAssumption DEF TakeSlot, Slots, infoVars, historyVars
<1>2. /\ g \in Groups /\ \A h \in Groups : timer[h] = "none"
  BY <1>1, InHand
<1>3. slots[n] = home[n]
  BY <1>1, <1>s DEF TableInv, Taking
<1>4. /\ listener.others \subseteq Groups /\ IsInjective(taken)
      /\ \A k \in 1..Len(taken) : home[taken[k]] = g /\ taken[k] < n
      /\ \A m \in Slots : m >= n => slots[m] = home[m]
      /\ \A m \in Slots : m < n =>
           IF home[m] = g THEN \E k \in 1..Len(taken) : taken[k] = m
           ELSE home[m] \in listener.others
  BY <1>1 DEF TableInv, Taken, Taking
<1>5. \A m \in Slots : (m >= n + 1 => m >= n /\ m # n) /\ (m < n + 1 => m < n \/ m = n)
  BY <1>1, <1>s
<1>6. /\ listener'.stage = "take" /\ listener'.next = n + 1 /\ listener'.group = g
      /\ home[n] = g => /\ listener'.taken = Append(taken, n)
                        /\ listener'.others = listener.others
                        /\ slots' = [slots EXCEPT ![n] = NULL]
      /\ home[n] # g => /\ listener'.taken = taken
                        /\ listener'.others = listener.others \union {home[n]}
                        /\ slots' = slots
  <2>1. CASE slots[n] = g
    <3>1. listener' = [listener EXCEPT !.next = n + 1, !.taken = Append(taken, n)]
      BY <2>1 DEF TakeSlot
    <3>2. slots' = [slots EXCEPT ![n] = NULL]
      BY <2>1, <1>1 DEF TakeSlot, SetSlot
    <3> QED BY <3>1, <3>2, <2>1, <1>1, <1>3, <1>t DEF Listenings
  <2>2. CASE slots[n] # g
    <3>1. /\ listener' = [listener EXCEPT !.next = n + 1, !.others = listener.others \union {slots[n]}]
          /\ slots' = slots
      BY <2>2 DEF TakeSlot
    <3> QED BY <3>1, <2>2, <1>1, <1>3, <1>t DEF Listenings
  <2> QED BY <2>1, <2>2
<1>7. OneAtATime' /\ Recorded' /\ Settled'
  <2>1. \A m \in Slots : home[m] # g => slots'[m] = slots[m]
    BY <1>6, <1>t
  <2> QED BY <1>1, <1>2, <2>1, HandKept
<1> DEFINE more == Append(taken, n)
<1> HIDE DEF n, g, taken
<1>8. /\ Len(more) = Len(taken) + 1
      /\ \A k \in 1..Len(taken) : k \in 1..(Len(taken) + 1) /\ more[k] = taken[k]
      /\ \A k \in 1..(Len(taken) + 1) : k \in 1..Len(taken) \/ k = Len(taken) + 1
      /\ more[Len(taken) + 1] = n /\ Len(taken) + 1 \in 1..(Len(taken) + 1)
      /\ DOMAIN more = 1..(Len(taken) + 1) /\ DOMAIN taken = 1..Len(taken)
  BY <1>t, <1>1
<1>13. home[n] = g => listener'.taken = more
  BY <1>6
<1> HIDE DEF more
<1>12. \A k \in 1..Len(taken) : taken[k] < n + 1
  <2> SUFFICES ASSUME NEW k \in 1..Len(taken) PROVE taken[k] < n + 1
    OBVIOUS
  <2>1. taken[k] \in Nat /\ taken[k] < n
    BY <1>4, <1>t, <1>s
  <2> QED BY <2>1, <1>1
<1>9. Taken' /\ Taking'
  <2>1. CASE home[n] = g
    <3>1. IsInjective(more)
      <4>1. \A k \in 1..Len(taken) : taken[k] # n
        BY <1>1, <1>4
      <4> QED BY <4>1, <1>4, <1>8 DEF IsInjective
    <3>2. \A k \in 1..(Len(taken) + 1) :
            /\ home[more[k]] = g
            /\ more[k] < n + 1
      <4>1. n < n + 1
        BY <1>1
      <4> QED BY <4>1, <2>1, <1>4, <1>8, <1>12
    <3>3. \A m \in Slots : m >= n + 1 => slots'[m] = home[m]
      BY <1>4, <1>5, <1>6, <1>t, <2>1
    <3>4. \A m \in Slots : m < n + 1 =>
            IF home[m] = g THEN \E k \in 1..(Len(taken) + 1) : more[k] = m
            ELSE home[m] \in listener.others
      BY <1>4, <1>5, <1>8, <2>1
    <3>5. listener'.taken = more /\ listener'.others = listener.others
      BY <2>1, <1>6, <1>13
    <3>6. Taken'
      BY <3>1, <3>2, <3>5, <1>1, <1>4, <1>6, <1>8 DEF Taken
    <3>7. Taking'
      BY <3>2, <3>3, <3>4, <3>5, <1>1, <1>6, <1>8 DEF Taking
    <3> QED BY <3>6, <3>7
  <2>2. CASE home[n] # g
    <3>2. \A m \in Slots : m >= n + 1 => slots'[m] = home[m]
      BY <1>4, <1>5, <1>6, <2>2
    <3>3. \A m \in Slots : m < n + 1 =>
            IF home[m] = g THEN \E k \in 1..Len(taken) : taken[k] = m
            ELSE home[m] \in listener.others \union {home[n]}
      BY <1>4, <1>5, <2>2
    <3>4. home[n] \in Groups
      BY <1>t, <1>1
    <3>5. listener'.taken = taken /\ listener'.others = listener.others \union {home[n]}
      BY <2>2, <1>6
    <3>6. Taken'
      BY <3>4, <3>5, <1>1, <1>4, <1>6 DEF Taken
    <3>7. Taking'
      BY <3>2, <3>3, <3>5, <1>1, <1>6, <1>12 DEF Taking
    <3> QED BY <3>6, <3>7
  <2> QED BY <2>1, <2>2
<1>10. Sharing' /\ GivingBack' /\ NullInHand'
  BY <1>6 DEF Sharing, GivingBack, NullInHand
<1> QED BY <1>7, <1>9, <1>10 DEF TableInv

\* Its end: everything of the group is taken.
LEMMA TakeEndTable ==
    ASSUME WatchInv, TableTypes, TableInv, TakeEnd PROVE TableInv'
<1> DEFINE g == listener.group
           taken == listener.taken
<1>t. /\ listener \in Listenings /\ Len(taken) \in Nat /\ taken \in Seq(Slots)
      /\ home \in [Slots -> Groups]
  BY TypeFacts DEF TableTypes, TypeOK
<1>1. /\ listener.stage = "take" /\ listener.next = SlotCount
      /\ UNCHANGED <<slots, canTtl, oldHashValues, timer, worker, home>>
  BY DEF TakeEnd, infoVars, historyVars
<1>2. /\ \A h \in Groups : timer[h] = "none"
      /\ \A m \in Slots : home[m] # g => slots[m] = home[m]
  BY <1>1, InHand
<1>3. /\ listener'.next = 0 /\ listener'.group = g
      /\ listener'.taken = taken /\ listener'.others = listener.others
      /\ \/ listener'.stage = "removed" /\ (listener.others = {} \/ taken = <<>>)
         \/ listener'.stage = "share"
  <2>1. CASE listener.others = {} \/ taken = <<>>
    <3>1. listener' = [listener EXCEPT !.stage = "removed", !.next = 0]
      BY <2>1 DEF TakeEnd
    <3> QED BY <3>1, <2>1, <1>t DEF Listenings
  <2>2. CASE ~(listener.others = {} \/ taken = <<>>)
    <3>1. listener' = [listener EXCEPT !.stage = "share", !.next = 0]
      BY <2>2 DEF TakeEnd
    <3> QED BY <3>1, <1>t DEF Listenings
  <2> QED BY <2>1, <2>2
<1> HIDE DEF g, taken
<1>4. \A m \in Slots : m < SlotCount
  BY SlotCountAssumption DEF Slots
<1>5. /\ listener.others \subseteq Groups /\ IsInjective(taken)
      /\ \A k \in 1..Len(taken) : home[taken[k]] = g
      /\ \A m \in Slots :
           IF home[m] = g THEN \E k \in 1..Len(taken) : taken[k] = m
           ELSE home[m] \in listener.others
  BY <1>1, <1>4 DEF TableInv, Taken, Taking, g, taken
<1>6. OneAtATime' /\ Recorded' /\ Settled'
  BY <1>1, <1>2, HandKept
<1>7. Taken'
  BY <1>1, <1>3, <1>5 DEF Taken
<1>8. Taking' /\ GivingBack'
  BY <1>3 DEF Taking, GivingBack
<1>9. Sharing'
  <2>1. taken = <<>> => \A k : k \notin 1..Len(taken)
    OBVIOUS
  <2>2. 0 <= Len(taken) /\ \A k \in 1..Len(taken) : ~(k <= 0)
    BY <1>t
  <2> QED BY <1>3, <2>1, <2>2 DEF Sharing
<1>10. NullInHand'
  <2> SUFFICES ASSUME NEW m \in Slots, slots[m] = NULL, listener'.stage = "removed"
               PROVE  \A l \in Slots : home[l] = home[m]
    BY <1>1, <1>3 DEF NullInHand
  <2>1. home[m] = g
    BY <1>2, <1>t, NullIsNoGroup DEF g
  <2>2. taken # <<>>
    <3>1. taken = <<>> => \A k : k \notin 1..Len(taken)
      OBVIOUS
    <3> QED BY <3>1, <2>1, <1>5
  <2> QED BY <2>1, <2>2, <1>3, <1>5
<1> QED BY <1>6, <1>7, <1>8, <1>9, <1>10 DEF TableInv

\* One turn of the second loop of removeGroup.
LEMMA ShareSlotTable ==
    ASSUME WatchInv, TableTypes, TableInv, ShareSlot PROVE TableInv'
<1> DEFINE n == listener.next
           taken == listener.taken
           x == taken[n + 1]
<1>t. /\ listener \in Listenings /\ Len(taken) \in Nat
      /\ slots \in [Slots -> Owners]
      /\ \A k \in 1..Len(taken) : taken[k] \in Slots
      /\ DOMAIN taken = 1..Len(taken) /\ n \in Nat
  BY TypeFacts DEF TableTypes, TypeOK
<1>1. /\ listener.stage = "share" /\ n < Len(taken) /\ listener.others # {}
      /\ UNCHANGED <<canTtl, oldHashValues, timer, worker, home>>
  BY DEF ShareSlot, infoVars, historyVars, TableTypes
<1>2. /\ \A h \in Groups : timer[h] = "none"
  BY <1>1, InHand
<1>3. n + 1 \in 1..Len(taken) /\ x \in Slots
  BY <1>t, <1>1
<1>4. /\ listener'.stage = "share" /\ listener'.next = n + 1 /\ listener'.group = listener.group
      /\ listener'.taken = taken /\ listener'.others = listener.others
  <2>1. listener' = [listener EXCEPT !.next = n + 1]
    BY DEF ShareSlot
  <2> QED BY <2>1, <1>1, <1>t DEF Listenings
<1>5. slots' = [slots EXCEPT ![x] = Heir(n)]
  BY <1>3 DEF ShareSlot, SetSlot
<1>6. \A m : Heir(m)' = Heir(m)
  BY <1>4 DEF Heir
<1>7. home[x] = listener.group /\ IsInjective(taken)
  BY <1>1, <1>3 DEF TableInv, Taken
<1>8. OneAtATime' /\ Recorded' /\ Settled'
  <2>1. \A m \in Slots : home[m] # listener.group => slots'[m] = slots[m]
    BY <1>5, <1>7, <1>t
  <2> QED BY <2>1, <1>1, <1>2, HandKept
<1>9. Taken' /\ Taking' /\ GivingBack' /\ NullInHand'
  BY <1>1, <1>4 DEF TableInv, Taken, Taking, GivingBack, NullInHand
<1>10. Sharing'
  <2>1. n + 1 <= Len(taken)
    BY <1>t, <1>1
  <2>2. ASSUME NEW k \in 1..Len(taken), k <= n + 1 PROVE slots'[taken[k]] = Heir(k - 1)
    <3>1. CASE k = n + 1
      <4>1. k - 1 = n
        BY <3>1, <1>t
      <4> HIDE DEF n
      <4> QED BY <4>1, <3>1, <1>3, <1>5, <1>t
    <3>2. CASE k # n + 1
      <4>1. k <= n
        BY <2>2, <3>2, <1>t
      <4>2. taken[k] # x /\ taken[k] \in Slots
        BY <3>2, <1>3, <1>7, <1>t DEF IsInjective
      <4>3. slots[taken[k]] = Heir(k - 1)
        BY <4>1, <1>1 DEF TableInv, Sharing
      <4> QED BY <4>2, <4>3, <1>5, <1>t
    <3> QED BY <3>1, <3>2
  <2> HIDE DEF n, taken
  <2> QED BY <2>1, <2>2, <1>4, <1>6 DEF Sharing
<1> QED BY <1>8, <1>9, <1>10 DEF TableInv

\* Its end: the taken slots all have an heir.
LEMMA ShareEndTable ==
    ASSUME WatchInv, TableTypes, TableInv, ShareEnd PROVE TableInv'
<1> DEFINE taken == listener.taken
<1>t. /\ listener \in Listenings /\ Len(taken) \in Nat /\ home \in [Slots -> Groups]
      /\ listener.others \in SUBSET Owners
  BY TypeFacts DEF TableTypes, TypeOK
<1>1. /\ listener.stage = "share" /\ listener.next = Len(taken) /\ listener.others # {}
      /\ UNCHANGED <<slots, canTtl, oldHashValues, timer, worker, home>>
  BY DEF ShareEnd, infoVars, historyVars, TableTypes
<1>2. /\ \A h \in Groups : timer[h] = "none"
      /\ \A m \in Slots : home[m] # listener.group => slots[m] = home[m]
  BY <1>1, InHand
<1>4. /\ listener'.stage = "removed" /\ listener'.group = listener.group
      /\ listener'.taken = taken /\ listener'.others = listener.others
  <2>1. listener' = [listener EXCEPT !.stage = "removed"]
    BY DEF ShareEnd
  <2> QED BY <2>1, <1>1, <1>t DEF Listenings
<1>5. \A k \in 1..Len(taken) : slots[taken[k]] = Heir(k - 1)
  <2>1. \A k \in 1..Len(taken) : k <= listener.next
    BY <1>1
  <2> QED BY <2>1, <1>1 DEF TableInv, Sharing
<1>6. \A m : Heir(m)' = Heir(m)
  BY <1>4 DEF Heir
<1>7. /\ listener.others \subseteq Groups
      /\ \A m \in Slots : home[m] = listener.group => \E k \in 1..Len(taken) : taken[k] = m
  BY <1>1 DEF TableInv, Taken
<1>8. OneAtATime' /\ Recorded' /\ Settled'
  BY <1>1, <1>2, HandKept
<1>9. Taken' /\ Taking' /\ GivingBack'
  BY <1>1, <1>4 DEF TableInv, Taken, Taking, GivingBack
<1>10. Sharing'
  BY <1>1, <1>4, <1>5, <1>6 DEF Sharing
<1>11. NullInHand'
  <2> SUFFICES ASSUME NEW m \in Slots PROVE slots[m] # NULL
    BY <1>1 DEF NullInHand
  <2>1. CASE home[m] = listener.group
    <3>1. PICK k \in 1..Len(taken) : taken[k] = m
      BY <2>1, <1>7
    <3>2. k - 1 \in Nat /\ slots[m] = Heir(k - 1)
      BY <3>1, <1>5, <1>t
    <3>3. Heir(k - 1) \in listener.others
      BY <3>2, <1>1, <1>t, HeirPlace DEF Heir
    <3> QED BY <3>2, <3>3, <1>7, NullIsNoGroup
  <2>2. CASE home[m] # listener.group
    BY <2>2, <1>2, <1>t, NullIsNoGroup
  <2> QED BY <2>1, <2>2
<1> QED BY <1>8, <1>9, <1>10, <1>11 DEF TableInv

\* The end of onSetGroupTTL, and the loop of onRestoreGroup.
LEMMA RemovedTable ==
    ASSUME WatchInv, TableTypes, TableInv, Removed PROVE TableInv'
<1>1. /\ listener.stage = "removed" /\ listener' = Quiet
      /\ timer' = IF restore THEN [timer EXCEPT ![listener.group] = "restore"] ELSE timer
      /\ UNCHANGED <<slots, canTtl, oldHashValues, worker, home>>
  BY DEF Removed, historyVars
<1>2. \A h \in Groups : timer[h] = "none"
  BY <1>1, InHand
<1>3. \A h \in Groups : timer'[h] # "ttl"
  BY <1>1, <1>2, TypeFacts
<1>4. OneAtATime' /\ Recorded' /\ Settled'
  BY <1>1, <1>3, HandKept
<1>5. listener'.stage = "idle"
  BY <1>1 DEF Quiet
<1>6. Taken' /\ Taking' /\ Sharing' /\ GivingBack'
  BY <1>5 DEF Taken, Taking, Sharing, GivingBack
<1>7. NullInHand'
  BY <1>1 DEF TableInv, NullInHand
<1> QED BY <1>4, <1>6, <1>7 DEF TableInv

LEMMA GiveBackSlotTable ==
    ASSUME WatchInv, TableTypes, TableInv, GiveBackSlot PROVE TableInv'
<1> DEFINE n == listener.next
           g == listener.group
<1>t. /\ slots \in [Slots -> Owners] /\ listener \in Listenings /\ n \in Nat
  BY TypeFacts DEF TableTypes, TypeOK
<1>1. /\ listener.stage = "giveBack" /\ n \in Slots
      /\ UNCHANGED <<canTtl, oldHashValues, timer, worker, home>>
  BY <1>t, SlotCountAssumption DEF GiveBackSlot, Slots, infoVars, historyVars
<1>2. /\ \A h \in Groups : timer[h] = "none"
      /\ oldHashValues[g] = {m \in Slots : home[m] = g}
      /\ g \in Groups
  BY <1>1, InHand
<1>3. listener'.stage = "giveBack" /\ listener'.next = n + 1 /\ listener'.group = g
  <2>1. listener' = [listener EXCEPT !.next = n + 1]
    BY DEF GiveBackSlot
  <2> QED BY <2>1, <1>1, <1>t DEF Listenings
<1>4. slots' = IF home[n] = g THEN [slots EXCEPT ![n] = g] ELSE slots
  BY <1>1, <1>2 DEF GiveBackSlot, SetSlot
<1> HIDE DEF n
<1>5. \A m \in Slots : slots'[m] = slots[m] \/ (m = n /\ home[m] = g /\ slots'[m] = g)
  <2>1. CASE home[n] = g
    BY <2>1, <1>4, <1>t, <1>1
  <2>2. CASE home[n] # g
    BY <2>2, <1>4
  <2> QED BY <2>1, <2>2
<1>6. OneAtATime' /\ Recorded' /\ Settled'
  BY <1>1, <1>2, <1>5, HandKept
<1>7. Taken' /\ Taking' /\ Sharing'
  BY <1>3 DEF Taken, Taking, Sharing
<1>8. GivingBack'
  <2>1. \A m \in Slots : m < n + 1 => m < n \/ m = n
    BY <1>t DEF Slots
  <2>2. \A m \in Slots : m < n /\ home[m] = g => slots[m] = g
    BY <1>1 DEF TableInv, GivingBack, n
  <2>3. home[n] = g => slots'[n] = g
    BY <1>4, <1>1, <1>t
  <2> QED BY <2>1, <2>2, <2>3, <1>1, <1>3, <1>5 DEF GivingBack
<1>9. NullInHand'
  BY <1>1, <1>2, <1>5, NullIsNoGroup DEF TableInv, NullInHand
<1> QED BY <1>6, <1>7, <1>8, <1>9 DEF TableInv

LEMMA GiveBackEndTable ==
    ASSUME WatchInv, TableTypes, TableInv, WatchInv', TableTypes', GiveBackEnd PROVE TableInv'
<1>1. /\ listener.stage = "giveBack" /\ listener.next = SlotCount
      /\ canTtl' = [canTtl EXCEPT ![listener.group] = TRUE]
      /\ UNCHANGED <<slots, home, worker>>
  BY DEF GiveBackEnd, historyVars
<1>2. /\ \A h \in Groups : h # listener.group => canTtl[h]
      /\ \A w \in Workers : worker[w].stage # "collect"
      /\ \A m \in Slots : home[m] # listener.group => slots[m] = home[m]
  BY <1>1, InHand
<1>3. \A m \in Slots : slots[m] = home[m]
  <2>1. \A m \in Slots : m < SlotCount
    BY SlotCountAssumption DEF Slots
  <2> QED BY <2>1, <1>1, <1>2 DEF TableInv, GivingBack
<1>4. slots = home
  BY <1>3, TypeFacts
<1>5. \A h \in Groups : canTtl'[h]
  BY <1>1, <1>2, TypeFacts
<1> QED BY <1>1, <1>2, <1>4, <1>5, AtRest

LEMMA NextEject == ASSUME EjectInv, [Next]_vars PROVE EjectInv'
<1>1. WatchInv' /\ TableTypes'
  BY NextWatch, NextTypes DEF EjectInv
<1> SUFFICES ASSUME ~overlapped' PROVE TableInv'
  BY <1>1 DEF EjectInv
<1>0. WatchInv /\ TableTypes
  BY DEF EjectInv
<1>2. CASE UNCHANGED vars
  BY <1>2, TableUnmoved DEF vars, infoVars, historyVars, EjectInv
<1>3. ASSUME NEW g \in Groups, Toggle(g) PROVE TableInv'
  BY <1>3, TableUnmoved DEF Toggle, infoVars, historyVars, EjectInv
<1>4. ASSUME NEW w \in Workers, NEW g \in Groups, Request(w, g) PROVE TableInv'
  <2>1. \A u \in Workers : worker'[u] = worker[u] \/ worker'[u].stage # "collect"
    BY <1>4, <1>0, TypeFacts DEF Request
  <2> QED BY <2>1, <1>4, TableUnmoved DEF Request, infoVars, EjectInv
<1>5. ASSUME InCallback PROVE TableInv'
  <2>1. TableInv
    BY <1>5 DEF EjectInv, InCallback, TakeSlot, TakeEnd, ShareSlot, ShareEnd, Removed,
                GiveBackSlot, GiveBackEnd, historyVars
  <2> QED
    BY <2>1, <1>0, <1>1, <1>5, TakeSlotTable, TakeEndTable, ShareSlotTable, ShareEndTable,
       RemovedTable, GiveBackSlotTable, GiveBackEndTable DEF InCallback
<1> QED
  BY <1>1, <1>2, <1>3, <1>4, <1>5, WorkerTable, MappingTable, TimerTable DEF Next

LEMMA EjectInvariant == Spec => []EjectInv
<1>1. Init => EjectInv
  BY InitWatch, InitTypes, InitTable DEF EjectInv
<1>2. EjectInv /\ [Next]_vars => EjectInv'
  BY NextEject
<1> QED BY <1>1, <1>2, PTL DEF Spec

\* As long as ejections do not meet, a slot is with another owner than the
\* configured one only while that owner is ejected: what setGroupTTL recorded is
\* what onRestoreGroup gives back, whoever got the slots in between.
THEOREM SlotsComeHome == Spec => []HomeUnlessEjected
<1>1. EjectInv => HomeUnlessEjected
  <2> SUFFICES ASSUME EjectInv, ~overlapped, NEW n \in Slots, slots[n] # home[n]
               PROVE  ~canTtl[home[n]]
    BY DEF HomeUnlessEjected
  <2>1. home[n] \in Groups /\ slots # home
    BY TypeFacts DEF EjectInv
  <2>2. PICK g \in Groups : ~canTtl[g]
    BY <2>1 DEF EjectInv, TableInv, Settled
  <2>3. home[n] = g
    BY <2>2 DEF EjectInv, TableInv, Settled
  <2> QED BY <2>2, <2>3
<1> QED BY <1>1, EjectInvariant, PTL

-----------------------------------------------------------------------------
(* The heirs get fair shares.                                              *)

\* Which of the taken slots go to group k.
Share(k) == {n \in ToSet(listener.taken) : slots[n] = k}

\* A group gets the slots that were taken at its places of the round robin.
LEMMA ShareOfPlace ==
    ASSUME EjectInv, ~overlapped, listener.stage = "removed", NEW g \in listener.others
    PROVE  LET c == Cardinality(listener.others)
               l == Len(listener.taken)
           IN  /\ c \in Nat \ {0} /\ l \in Nat /\ Place(listener.others, g) \in 0..(c - 1)
               /\ Cardinality(Share(g)) =
                    Cardinality({m \in 0..(l - 1) : m % c = Place(listener.others, g)})
<1> DEFINE others == listener.others
           taken == listener.taken
           c == Cardinality(others)
           l == Len(taken)
           M == {m \in 0..(l - 1) : m % c = Place(others, g)}
           f == [m \in M |-> taken[m + 1]]
<1>1. /\ others \in SUBSET Owners /\ others # {} /\ l \in Nat
      /\ DOMAIN taken = 1..l
  BY TypeFacts DEF EjectInv
<1>2. /\ c \in Nat \ {0}
      /\ \A m \in Nat : Heir(m) \in others /\ Place(others, Heir(m)) = m % c
  BY <1>1, HeirPlace DEF Heir
<1>3. Place(others, g) \in 0..(c - 1)
      /\ \A h, k \in others : Place(others, h) = Place(others, k) => h = k
  <2>1. IsFiniteSet(others) /\ others \subseteq Int
    BY <1>1, OwnersFinite, FS_Subset
  <2> QED BY <2>1, NumbersInOrder DEF Place
<1>4. /\ IsInjective(taken)
      /\ \A k \in 1..l : slots[taken[k]] = Heir(k - 1)
  BY <1>1 DEF EjectInv, TableInv, Taken, Sharing
<1> HIDE DEF c, l, others, taken
<1>6. \A m \in 0..(l - 1) : m \in Nat /\ m + 1 \in 1..l /\ slots[taken[m + 1]] = Heir(m)
  <2> SUFFICES ASSUME NEW m \in 0..(l - 1)
               PROVE  m \in Nat /\ m + 1 \in 1..l /\ slots[taken[m + 1]] = Heir(m)
    OBVIOUS
  <2>1. m \in Nat /\ m + 1 \in 1..l /\ (m + 1) - 1 = m
    BY <1>1
  <2> QED BY <2>1, <1>4
<1>7. \A m \in 0..(l - 1) : slots[taken[m + 1]] = g <=> m % c = Place(others, g)
  BY <1>2, <1>3, <1>6 DEF others
<1>8. f \in Bijection(M, Share(g))
  <2>1. f \in [M -> Share(g)]
    BY <1>1, <1>6, <1>7 DEF Share, ToSet, taken
  <2>2. \A x, y \in M : f[x] = f[y] => x = y
    <3> SUFFICES ASSUME NEW x \in M, NEW y \in M, taken[x + 1] = taken[y + 1] PROVE x = y
      OBVIOUS
    <3>1. x + 1 \in 1..l /\ y + 1 \in 1..l /\ x \in Nat /\ y \in Nat
      BY <1>6
    <3>2. x + 1 = y + 1
      BY <3>1, <1>1, <1>4 DEF IsInjective
    <3> QED BY <3>1, <3>2
  <2>3. ASSUME NEW n \in Share(g) PROVE \E m \in M : f[m] = n
    <3>1. PICK k \in 1..l : taken[k] = n
      BY <1>1 DEF Share, ToSet, taken
    <3>2. k - 1 \in 0..(l - 1) /\ (k - 1) + 1 = k
      BY <1>1
    <3>3. slots[n] = g
      BY DEF Share
    <3>4. k - 1 \in M
      BY <3>1, <3>2, <3>3, <1>7
    <3> QED BY <3>1, <3>2, <3>4
  <2> QED BY <2>1, <2>2, <2>3 DEF Bijection, Injection, Surjection, IsInjective
<1>9. Cardinality(Share(g)) = Cardinality(M)
  <2>1. IsFiniteSet(0..(l - 1))
    BY <1>1, FS_Interval
  <2>2. IsFiniteSet(M)
    BY <2>1, FS_Subset
  <2>3. ExistsBijection(M, Share(g))
    BY <1>8 DEF ExistsBijection
  <2> QED BY <2>2, <2>3, FS_Bijection
<1> QED BY <1>1, <1>2, <1>3, <1>9 DEF c, l, others, taken

\* As long as ejections do not meet, and somebody else has slots, every slot has an
\* owner but while the listener moves slots; and removeGroup spreads the slots of
\* an ejected group evenly over the others.  The types come with it.
THEOREM NoSlotIsLost == Spec => []EverySlotOwned
<1>1. ASSUME EjectInv PROVE EverySlotOwned
  <2>1. TypeOK
    BY <1>1 DEF EjectInv, TableTypes
  <2>2. ASSUME ~overlapped, listener.stage \in {"idle", "removed", "giveBack"},
               Cardinality(Range(home)) > 1, NEW n \in Slots, slots[n] = NULL
        PROVE  FALSE
    <3>1. \A m \in Slots : home[m] = home[n]
      BY <1>1, <2>2 DEF EjectInv, TableInv, NullInHand
    <3>2. home \in [Slots -> Groups]
      BY <2>1 DEF TypeOK
    <3>3. Range(home) = {home[n]}
      BY <3>1, <3>2 DEF Range
    <3>4. Cardinality(Range(home)) = 1
      BY <3>3, FS_Singleton
    <3> QED BY <2>2, <3>4
  <2>3. ~overlapped /\ listener.stage \in {"idle", "removed", "giveBack"}
                    /\ Cardinality(Range(home)) > 1
          => NULL \notin Range(slots)
    <3>1. slots \in [Slots -> Owners]
      BY <2>1 DEF TypeOK
    <3> QED BY <2>2, <3>1 DEF Range
  <2>4. ASSUME ~overlapped, listener.stage = "removed",
               NEW g \in listener.others, NEW h \in listener.others
        PROVE  Cardinality(Share(g)) <= Cardinality(Share(h)) + 1
    <3> DEFINE c == Cardinality(listener.others)
               l == Len(listener.taken)
               A(k) == {m \in 0..(l - 1) : m % c = Place(listener.others, k)}
    <3>1. /\ c \in Nat \ {0} /\ l \in Nat
          /\ Place(listener.others, g) \in 0..(c - 1) /\ Place(listener.others, h) \in 0..(c - 1)
          /\ Cardinality(Share(g)) = Cardinality(A(g))
          /\ Cardinality(Share(h)) = Cardinality(A(h))
      BY <1>1, <2>4, ShareOfPlace
    <3> HIDE DEF c, l
    <3>2. Cardinality(A(g)) <= Cardinality(A(h)) + 1
      BY <3>1, DealtEvenly
    <3> QED BY <3>1, <3>2
  <2>5. ~overlapped /\ listener.stage = "removed" =>
          \A g, h \in listener.others : Cardinality(Share(g)) <= Cardinality(Share(h)) + 1
    BY <2>4
  <2> QED BY <2>1, <2>3, <2>5 DEF EverySlotOwned, Share
<1> QED BY <1>1, EjectInvariant, PTL
=============================================================================
