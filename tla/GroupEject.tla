----------------------------- MODULE GroupEject -----------------------------
(***************************************************************************)
(* Ejection of a group of servers that has no active server, and its       *)
(* restoration: ProxyManager (src/src/proxymanager.cpp) with the slot      *)
(* table of RedisProxy and the command HASHMAPPING.                        *)
(*                                                                         *)
(* A worker that finds no active server in the group of a key starts the   *)
(* group's timer; workers exclude each other with m_groupMutex.  The timer *)
(* fires on the listener thread, which gives the slots of the group to the *)
(* others, and later back, without that mutex.  Every access to the slot   *)
(* table is a step: it has no lock at all.                                 *)
(***************************************************************************)
EXTENDS Integers, Sequences, FiniteSets, SequencesExt

CONSTANTS
    Groups,         \* the groups, as their addresses: std::set orders them so
    SlotCount,      \* m_slotCount
    Workers,        \* worker threads
    Layouts,        \* the slot tables the configuration may give
    KeyMapped,      \* the groups some key is mapped to by ADDKEYMAPPING
    MaxRequests,    \* bound: requests that find a group without active server
    Typed,          \* bound: the pairs <<slot, group>> HASHMAPPING is used with
    MaxMappings     \* bound: uses of HASHMAPPING

\* The pointer of a slot nobody owns; it is below every address.
NULL == 0

ASSUME GroupsAssumption == Groups \subseteq Nat \ {NULL} /\ IsFiniteSet(Groups)
ASSUME SlotCountAssumption == SlotCount \in Nat \ {0}
ASSUME KeyMappedAssumption == KeyMapped \subseteq Groups
ASSUME TypedAssumption == Typed \subseteq Int \X Groups
ASSUME BoundsAssumption == MaxRequests \in Nat /\ MaxMappings \in Nat

Slots == 0..(SlotCount - 1)
Owners == Groups \union {NULL}

\* The configuration gives every slot to a group: CRedisProxyCfgChecker refuses
\* hash ranges that overlap or leave a gap.
ASSUME LayoutsAssumption == Layouts \subseteq [Slots -> Groups]

VARIABLES
    restore,        \* eject_after_restore of the configuration
    slots,          \* m_slots: who owns each slot
    enabled,        \* [Groups -> BOOLEAN]: some server of the group is active
    canTtl,         \* GroupInfo::can_ttl of each group
    oldHashValues,  \* GroupInfo::oldHashValues of each group, a set of slots
    timer,          \* GroupInfo::ev: "none", "ttl" or "restore"
    worker,         \* what each worker does in handleClientPacket
    listener,       \* what the listener thread does in a timer's callback
    requests,       \* requests that found a dead group so far
    mappings,       \* uses of HASHMAPPING so far
    home,           \* history: the owner the configuration or HASHMAPPING gave
    overlapped      \* history: two ejections, or a HASHMAPPING and one, met

infoVars == <<canTtl, oldHashValues, timer>>
historyVars == <<requests, mappings, home, overlapped>>
vars == <<restore, slots, enabled, infoVars, worker, listener, historyVars>>

\* A worker waits for m_groupMutex ("lock") or is in the loop over the slots of
\* setGroupTTL, about to read slot "next".
Workings == [stage : {"idle", "lock", "collect"}, group : Owners, next : 0..SlotCount]
Idle == [stage |-> "idle", group |-> NULL, next |-> 0]

\* The listener is in the first or the second loop of removeGroup ("take",
\* "share"), at its end ("removed"), or in the loop of onRestoreGroup
\* ("giveBack").  taken is groupOldHashValue, others is otherGroups.
Listenings ==
    [stage : {"idle", "take", "share", "removed", "giveBack"}, group : Owners,
     next : Nat, taken : Seq(Slots), others : SUBSET Owners]
Quiet == [stage |-> "idle", group |-> NULL, next |-> 0, taken |-> <<>>, others |-> {}]

TypeOK ==
    /\ restore \in BOOLEAN
    /\ slots \in [Slots -> Owners]
    /\ enabled \in [Groups -> BOOLEAN]
    /\ canTtl \in [Groups -> BOOLEAN]
    /\ oldHashValues \in [Groups -> SUBSET Slots]
    /\ timer \in [Groups -> {"none", "ttl", "restore"}]
    /\ worker \in [Workers -> Workings]
    /\ listener \in Listenings
    /\ requests \in 0..MaxRequests
    /\ mappings \in 0..MaxMappings
    /\ home \in [Slots -> Groups]
    /\ overlapped \in BOOLEAN
    /\ \A w \in Workers : worker[w].stage = "idle" <=> worker[w].group = NULL

Init ==
    /\ restore \in BOOLEAN
    /\ slots \in Layouts
    /\ enabled \in [Groups -> BOOLEAN]
    /\ canTtl = [g \in Groups |-> TRUE]
    /\ oldHashValues = [g \in Groups |-> {}]
    /\ timer = [g \in Groups |-> "none"]
    /\ worker = [w \in Workers |-> Idle]
    /\ listener = Quiet
    /\ requests = 0
    /\ mappings = 0
    /\ home = slots
    /\ overlapped = FALSE

\* setSlot: a number that is no slot is refused.
SetSlot(n, g) == IF n \in Slots THEN [slots EXCEPT ![n] = g] ELSE slots

-----------------------------------------------------------------------------
(* Servers come and go, see RedisServant.                                  *)

Toggle(g) ==
    /\ enabled' = [enabled EXCEPT ![g] = ~@]
    /\ UNCHANGED <<restore, slots, infoVars, worker, listener, historyVars>>

-----------------------------------------------------------------------------
(* The workers: handleClientPacket and setGroupTTL.                        *)

\* A key maps to a group without an active server.
Request(w, g) ==
    /\ worker[w].stage = "idle"
    /\ g \in Range(slots) \union KeyMapped
    /\ ~enabled[g]
    /\ requests < MaxRequests
    /\ requests' = requests + 1
    /\ worker' = [worker EXCEPT ![w] = [stage |-> "lock", group |-> g, next |-> 0]]
    /\ UNCHANGED <<restore, slots, enabled, infoVars, listener, mappings, home, overlapped>>

MutexFree == \A w \in Workers : worker[w].stage # "collect"

\* Some group is being ejected, is ejected or is being restored.
Ejecting == \E g \in Groups : ~canTtl[g]

\* setGroupTTL returns: the timer of the group was started before.
LockNotAllowed(w) ==
    /\ worker[w].stage = "lock"
    /\ MutexFree
    /\ ~canTtl[worker[w].group]
    /\ worker' = [worker EXCEPT ![w] = Idle]
    /\ UNCHANGED <<restore, slots, enabled, infoVars, listener, historyVars>>

\* Fault: m_groupMutex is not taken.
Lock_NoMutex(w) ==
    /\ worker[w].stage = "lock"
    /\ canTtl[worker[w].group]
    /\ oldHashValues' = [oldHashValues EXCEPT ![worker[w].group] = {}]
    /\ worker' = [worker EXCEPT ![w].stage = "collect"]
    /\ overlapped' = (overlapped \/ Ejecting)
    /\ UNCHANGED <<restore, slots, enabled, canTtl, timer, listener, requests, mappings,
                   home>>

\* setGroupTTL begins to record the slots of the group.
Lock(w) ==
    /\ worker[w].stage = "lock"
    /\ MutexFree
    /\ canTtl[worker[w].group]
    /\ oldHashValues' = [oldHashValues EXCEPT ![worker[w].group] = {}]
    /\ worker' = [worker EXCEPT ![w].stage = "collect"]
    /\ overlapped' = (overlapped \/ Ejecting)
    /\ UNCHANGED <<restore, slots, enabled, canTtl, timer, listener, requests, mappings,
                   home>>

\* Fault: the last slot is forgotten.
Collect_OneLess(w) ==
    LET g == worker[w].group  n == worker[w].next IN
    /\ worker[w].stage = "collect"
    /\ n < SlotCount
    /\ oldHashValues' =
         [oldHashValues EXCEPT
            ![g] = IF slots[n] = g /\ n < SlotCount - 1 THEN @ \union {n} ELSE @]
    /\ worker' = [worker EXCEPT ![w].next = n + 1]
    /\ UNCHANGED <<restore, slots, enabled, canTtl, timer, listener, historyVars>>

\* One turn of its loop.
Collect(w) ==
    LET g == worker[w].group  n == worker[w].next IN
    /\ worker[w].stage = "collect"
    /\ n < SlotCount
    /\ oldHashValues' =
         [oldHashValues EXCEPT ![g] = IF slots[n] = g THEN @ \union {n} ELSE @]
    /\ worker' = [worker EXCEPT ![w].next = n + 1]
    /\ UNCHANGED <<restore, slots, enabled, canTtl, timer, listener, historyVars>>

\* Its end.  The timer cannot fire before can_ttl is cleared: checkProxyConfig
\* refuses a group_retry_time of less than a second.
Schedule(w) ==
    LET g == worker[w].group IN
    /\ worker[w].stage = "collect"
    /\ worker[w].next = SlotCount
    /\ timer' = [timer EXCEPT ![g] = "ttl"]
    /\ canTtl' = [canTtl EXCEPT ![g] = FALSE]
    /\ worker' = [worker EXCEPT ![w] = Idle]
    /\ UNCHANGED <<restore, slots, enabled, oldHashValues, listener, historyVars>>

\* HASHMAPPING: an operator gives slot n to group g, on a worker thread.  The
\* number is whatever was typed.
HashMapping(n, g) ==
    /\ mappings < MaxMappings
    /\ slots' = SetSlot(n, g)
    /\ mappings' = mappings + 1
    /\ home' = IF n \in Slots THEN [home EXCEPT ![n] = g] ELSE home
    /\ overlapped' = (overlapped \/ Ejecting \/ ~MutexFree)
    /\ UNCHANGED <<restore, enabled, infoVars, worker, listener, requests>>

-----------------------------------------------------------------------------
(* The listener thread: onSetGroupTTL, removeGroup, onRestoreGroup.        *)

\* Fault: can_ttl is not set again.
TtlCancelled_Forgets(g) ==
    /\ listener.stage = "idle"
    /\ timer[g] = "ttl"
    /\ enabled[g]
    /\ timer' = [timer EXCEPT ![g] = "none"]
    /\ UNCHANGED <<restore, slots, enabled, canTtl, oldHashValues, worker, listener,
                   historyVars>>

\* The group came back before its time was over.
TtlCancelled(g) ==
    /\ listener.stage = "idle"
    /\ timer[g] = "ttl"
    /\ enabled[g]
    /\ timer' = [timer EXCEPT ![g] = "none"]
    /\ canTtl' = [canTtl EXCEPT ![g] = TRUE]
    /\ UNCHANGED <<restore, slots, enabled, oldHashValues, worker, listener, historyVars>>

\* It did not: removeGroup begins.
TtlExpired(g) ==
    /\ listener.stage = "idle"
    /\ timer[g] = "ttl"
    /\ ~enabled[g]
    /\ timer' = [timer EXCEPT ![g] = "none"]
    /\ listener' = [Quiet EXCEPT !.stage = "take", !.group = g]
    /\ UNCHANGED <<restore, slots, enabled, canTtl, oldHashValues, worker, historyVars>>

\* Fault: the group is one of the others too.
TakeSlot_NotesItself ==
    LET n == listener.next IN
    /\ listener.stage = "take"
    /\ n < SlotCount
    /\ slots' = IF slots[n] = listener.group THEN SetSlot(n, NULL) ELSE slots
    /\ listener' =
         [listener EXCEPT
            !.next = n + 1,
            !.taken = IF slots[n] = listener.group THEN Append(@, n) ELSE @,
            !.others = @ \union {slots[n]}]
    /\ UNCHANGED <<restore, enabled, infoVars, worker, historyVars>>

\* One turn of the first loop takes the slot, or notes who else owns slots.
TakeSlot ==
    LET n == listener.next IN
    /\ listener.stage = "take"
    /\ n < SlotCount
    /\ IF slots[n] = listener.group
       THEN /\ slots' = SetSlot(n, NULL)
            /\ listener' = [listener EXCEPT !.next = n + 1, !.taken = Append(@, n)]
       ELSE /\ listener' = [listener EXCEPT !.next = n + 1, !.others = @ \union {slots[n]}]
            /\ UNCHANGED slots
    /\ UNCHANGED <<restore, enabled, infoVars, worker, historyVars>>

\* Its end: is there something to share, and somebody to take it?
TakeEnd ==
    /\ listener.stage = "take"
    /\ listener.next = SlotCount
    /\ listener' =
         [listener EXCEPT
            !.stage = IF listener.others = {} \/ listener.taken = <<>>
                      THEN "removed" ELSE "share",
            !.next = 0]
    /\ UNCHANGED <<restore, slots, enabled, infoVars, worker, historyVars>>

\* vec: the groups of otherGroups in the order of their addresses.
Vec(others, index) == CHOOSE g \in others : Cardinality({h \in others : h < g}) = index

\* Who gets the n-th slot that was taken.
Heir(n) == Vec(listener.others, n % Cardinality(listener.others))

\* One turn of the second loop.
ShareSlot ==
    LET n == listener.next IN
    /\ listener.stage = "share"
    /\ n < Len(listener.taken)
    /\ slots' = SetSlot(listener.taken[n + 1], Heir(n))
    /\ listener' = [listener EXCEPT !.next = n + 1]
    /\ UNCHANGED <<restore, enabled, infoVars, worker, historyVars>>

\* Fault: the last slot is not given to anybody.
ShareEnd_Early ==
    /\ listener.stage = "share"
    /\ listener.next >= Len(listener.taken) - 1
    /\ listener' = [listener EXCEPT !.stage = "removed"]
    /\ UNCHANGED <<restore, slots, enabled, infoVars, worker, historyVars>>

ShareEnd ==
    /\ listener.stage = "share"
    /\ listener.next = Len(listener.taken)
    /\ listener' = [listener EXCEPT !.stage = "removed"]
    /\ UNCHANGED <<restore, slots, enabled, infoVars, worker, historyVars>>

\* The end of onSetGroupTTL: the group is looked at every half second, if it is
\* to be restored.
Removed ==
    LET g == listener.group IN
    /\ listener.stage = "removed"
    /\ timer' = IF restore THEN [timer EXCEPT ![g] = "restore"] ELSE timer
    /\ listener' = Quiet
    /\ UNCHANGED <<restore, slots, enabled, canTtl, oldHashValues, worker, historyVars>>

\* onRestoreGroup finds the group still dead, and its timer is started again.
RestoreLater(g) ==
    /\ listener.stage = "idle"
    /\ timer[g] = "restore"
    /\ ~enabled[g]
    /\ timer' = [timer EXCEPT ![g] = "restore"]
    /\ UNCHANGED <<restore, slots, enabled, canTtl, oldHashValues, worker, listener,
                   historyVars>>

\* It finds the group enabled.
RestoreBegin(g) ==
    /\ listener.stage = "idle"
    /\ timer[g] = "restore"
    /\ enabled[g]
    /\ timer' = [timer EXCEPT ![g] = "none"]
    /\ listener' = [Quiet EXCEPT !.stage = "giveBack", !.group = g]
    /\ UNCHANGED <<restore, slots, enabled, canTtl, oldHashValues, worker, historyVars>>

\* One turn of its loop, over the slots the group had.
GiveBackSlot ==
    LET n == listener.next  g == listener.group IN
    /\ listener.stage = "giveBack"
    /\ n < SlotCount
    /\ slots' = IF n \in oldHashValues[g] THEN SetSlot(n, g) ELSE slots
    /\ listener' = [listener EXCEPT !.next = n + 1]
    /\ UNCHANGED <<restore, enabled, infoVars, worker, historyVars>>

\* Its end.
GiveBackEnd ==
    /\ listener.stage = "giveBack"
    /\ listener.next = SlotCount
    /\ canTtl' = [canTtl EXCEPT ![listener.group] = TRUE]
    /\ listener' = Quiet
    /\ UNCHANGED <<restore, slots, enabled, oldHashValues, timer, worker, historyVars>>

-----------------------------------------------------------------------------
Working(w) == Lock(w) \/ LockNotAllowed(w) \/ Collect(w) \/ Schedule(w)

TimerFires(g) ==
    TtlCancelled(g) \/ TtlExpired(g) \/ RestoreLater(g) \/ RestoreBegin(g)

InCallback ==
    TakeSlot \/ TakeEnd \/ ShareSlot \/ ShareEnd \/ Removed \/ GiveBackSlot \/ GiveBackEnd

Next ==
    \/ \E g \in Groups : Toggle(g) \/ TimerFires(g)
    \/ \E w \in Workers : Working(w) \/ \E g \in Groups : Request(w, g)
    \/ \E typed \in Typed : HashMapping(typed[1], typed[2])
    \/ InCallback

Spec == Init /\ [][Next]_vars

\* Threads go on and timers fire; a mutex is not withheld for ever from a worker
\* that finds it free again and again.
Fairness ==
    /\ WF_vars(InCallback)
    /\ \A g \in Groups : SF_vars(TimerFires(g))
    /\ \A w \in Workers : SF_vars(Working(w))

FairSpec == Spec /\ Fairness
-----------------------------------------------------------------------------
\* As long as ejections do not meet, a slot is with another owner than the
\* configured one only while that owner is ejected; a restored group has exactly
\* the slots it had.
HomeUnlessEjected ==
    ~overlapped => \A n \in Slots : slots[n] # home[n] => ~canTtl[home[n]]

\* As long as ejections do not meet, and somebody else has slots, every key maps
\* to a group except while the listener moves slots; and the slots of an ejected
\* group are spread evenly over the others.
EverySlotOwned ==
    /\ TypeOK
    /\ ~overlapped /\ listener.stage \in {"idle", "removed", "giveBack"}
                   /\ Cardinality(Range(home)) > 1
        => NULL \notin Range(slots)
    /\ ~overlapped /\ listener.stage = "removed" =>
        \A g, h \in listener.others :
            LET Share(k) == Cardinality({n \in ToSet(listener.taken) : slots[n] = k})
            IN  Share(g) <= Share(h) + 1

\* A group that cannot be scheduled again has a timer that will make it so, or is
\* in the listener's hands; and no group has a timer twice.
WatchedWhileEjected ==
    \A g \in Groups :
        /\ timer[g] # "none" => ~canTtl[g] /\ listener.group # g
        /\ restore /\ ~canTtl[g] => timer[g] # "none" \/ listener.group = g

\* A group whose timer has been started is out of the table once the listener is
\* done with it, unless a server of it comes back in the meantime.
DeadGroupLeaves ==
    \A g \in Groups :
        timer[g] = "ttl" ~>
            \/ enabled[g]
            \/ timer[g] # "ttl" /\ listener.group # g /\ g \notin Range(slots)
            \/ overlapped

\* A group that comes back for good is restored for good.
RestoredForGood ==
    \A g \in Groups : restore /\ <>[]enabled[g] => <>[]canTtl[g]
=============================================================================
