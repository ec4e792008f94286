---------------------------- MODULE StartupProofs ----------------------------
(***************************************************************************)
(* Proofs about Startup, for any instances, documents, hours, keys and     *)
(* number of commands: what was stopped stays stopped (StoppedForGood), a  *)
(* worker serves what its file says (AsConfigured), and what it saves is   *)
(* restored (SavedRestores).                                               *)
(*                                                                         *)
(* The tables are built by folds over the groups and the mappings of the   *)
(* file.  For each of them a lemma gives the sequence of the intermediate  *)
(* results, and an induction along it (InductTo) what the last one is.     *)
(***************************************************************************)
EXTENDS Startup, DataLemmas

\* The types the argument needs.
ProcessTypes ==
    /\ main \in [Instances -> {"off", "guard", "solo"}]
    /\ worker \in [Instances -> {"none", "starting", "serving", "exited", "stopped", "crashed"}]
    /\ ended \in [Instances -> BOOLEAN]

-----------------------------------------------------------------------------
(* What was stopped stays stopped.                                         *)

\* A guard whose last worker was stopped has not looked at it yet: what it sees
\* when it does makes it leave.  Nobody else could start a worker.
StoppedInv ==
    /\ ProcessTypes
    /\ \A i \in Instances : ended[i] =>
         \/ main[i] = "guard" /\ worker[i] = "stopped"
         \/ main[i] = "off" /\ worker[i] = "none"

\* What Ends does to the instance it is about, and to no other.
LEMMA EndsKeeps ==
    ASSUME StoppedInv, NEW i \in Instances, NEW how \in {"exited", "stopped", "crashed"},
           Ends(i, how)
    PROVE  StoppedInv'
<1>1. ProcessTypes'
  BY DEF StoppedInv, ProcessTypes, Ends
<1>2. ASSUME NEW j \in Instances, ended'[j]
      PROVE  \/ main'[j] = "guard" /\ worker'[j] = "stopped"
             \/ main'[j] = "off" /\ worker'[j] = "none"
  <2>1. CASE j = i
    BY <1>2, <2>1 DEF StoppedInv, ProcessTypes, Ends
  <2>2. CASE j # i
    <3>1. main'[j] = main[j] /\ worker'[j] = worker[j] /\ ended'[j] = ended[j]
      BY <2>2 DEF StoppedInv, ProcessTypes, Ends
    <3> QED BY <1>2, <3>1 DEF StoppedInv
  <2> QED BY <2>1, <2>2
<1> QED BY <1>1, <1>2 DEF StoppedInv

\* A step that changes neither the processes nor the history.
LEMMA Unmoved ==
    ASSUME StoppedInv, UNCHANGED <<main, worker, ended>>
    PROVE  StoppedInv'
BY DEF StoppedInv, ProcessTypes

\* At first nothing runs.
LEMMA StoppedInitially == Init => StoppedInv
BY DEF Init, StoppedInv, ProcessTypes

\* Every step keeps it; only a launch clears ended.
LEMMA StoppedInductive == StoppedInv /\ [Next]_vars => StoppedInv'
<1> SUFFICES ASSUME StoppedInv, [Next]_vars PROVE StoppedInv'
  OBVIOUS
<1>1. ASSUME NEW i \in Instances, NEW f \in Files, Launch(i, f) PROVE StoppedInv'
  BY <1>1 DEF StoppedInv, ProcessTypes, Launch
<1>2. ASSUME NEW i \in Instances, Fork(i) PROVE StoppedInv'
  BY <1>2 DEF StoppedInv, ProcessTypes, Fork
<1>3. ASSUME NEW i \in Instances, ForkFails(i) PROVE StoppedInv'
  BY <1>3 DEF StoppedInv, ProcessTypes, ForkFails
<1>4. ASSUME NEW i \in Instances, Reap(i) PROVE StoppedInv'
  BY <1>4 DEF StoppedInv, ProcessTypes, Reap
<1>5. ASSUME NEW i \in Instances, StartServer(i) PROVE StoppedInv'
  <2>1. CASE Ends(i, "stopped")
    BY <2>1, EndsKeeps DEF StoppedInv, ProcessTypes
  <2>2. CASE Ends(i, "crashed")
    BY <2>2, EndsKeeps DEF StoppedInv, ProcessTypes
  <2>3. CASE worker' = [worker EXCEPT ![i] = "serving"] /\ UNCHANGED <<main, ended>>
    BY <1>5, <2>3 DEF StoppedInv, ProcessTypes, StartServer
  <2> QED BY <1>5, <2>1, <2>2, <2>3 DEF StartServer
<1>6. ASSUME NEW i \in Instances, NEW f \in Hours, NEW n \in DOMAIN m_slots[i], NEW g \in Groups(i),
             onHashMapping(i, n, g, f)
      PROVE  StoppedInv'
  BY <1>6, Unmoved DEF onHashMapping, SaveTo
<1>7. ASSUME NEW i \in Instances, NEW f \in Hours, NEW k \in Keys, NEW g \in Groups(i),
             onAddKeyMapping(i, k, g, f)
      PROVE  StoppedInv'
  BY <1>7, Unmoved DEF onAddKeyMapping, SaveTo
<1>8. ASSUME NEW i \in Instances, NEW f \in Hours, NEW k \in Keys, onDelKeyMapping(i, k, f)
      PROVE  StoppedInv'
  BY <1>8, Unmoved DEF onDelKeyMapping, SaveTo
<1>9. ASSUME NEW i \in Instances, NEW force \in BOOLEAN, ShutDown(i, force) PROVE StoppedInv'
  BY <1>9, EndsKeeps DEF StoppedInv, ProcessTypes, ShutDown
<1>10. ASSUME NEW i \in Instances, Crash(i) PROVE StoppedInv'
  BY <1>10, EndsKeeps DEF StoppedInv, ProcessTypes, Crash
<1>11. ASSUME NEW i \in Instances, KillGuard(i) PROVE StoppedInv'
  BY <1>11 DEF StoppedInv, ProcessTypes, KillGuard
<1>12. CASE UNCHANGED vars
  BY <1>12, Unmoved DEF vars
<1> QED
  BY <1>1, <1>2, <1>3, <1>4, <1>5, <1>6, <1>7, <1>8, <1>9, <1>10, <1>11, <1>12 DEF Next

\* What was stopped stays stopped until it is launched again, whoever is killed
\* in between (guard, non-portable.cpp:230): a guard that has not yet seen the
\* end of its worker, one that cannot fork, and a worker that outlives its guard.
THEOREM StoppedStaysStopped == Spec => []StoppedForGood
<1>1. StoppedInv => StoppedForGood
  BY DEF StoppedInv, StoppedForGood
<1> QED
  BY <1>1, StoppedInitially, StoppedInductive, PTL DEF Spec

-----------------------------------------------------------------------------
(* The tables of a configuration: startOneCache.                           *)

\* One mapping read.
LEMMA MappingFold ==
    ASSUME NEW cfg, NEW g, NEW slots, NEW V,
           cfg.hashMapping \in Seq(ToSet(cfg.hashMapping)),
           slots \in [DOMAIN slots -> V],
           \A k \in DOMAIN cfg.hashMapping : groupNamed(cfg, g, cfg.hashMapping[k].group) \in V,
           \A v \in DOMAIN slots : v \in Covered(cfg, g) => cfg.groups[g].name \in V
    PROVE  \E t : /\ t[0] = [v \in DOMAIN slots |->
                              IF v \in Covered(cfg, g) THEN cfg.groups[g].name ELSE slots[v]]
                  /\ \A k \in 0..(Len(cfg.hashMapping) - 1) :
                       t[k + 1] = setSlot(t[k], cfg.hashMapping[k + 1].value,
                                          groupNamed(cfg, g, cfg.hashMapping[k + 1].group))
                  /\ t[Len(cfg.hashMapping)] = AddGroup(cfg, slots, g)
<1> DEFINE s == cfg.hashMapping
           n == Len(s)
           A == [DOMAIN slots -> V]
           base == [v \in DOMAIN slots |->
                      IF v \in Covered(cfg, g) THEN cfg.groups[g].name ELSE slots[v]]
           op(a, k) == setSlot(a, s[k].value, groupNamed(cfg, g, s[k].group))
           step == [p \in A \X (1..n) |-> op(p[1], p[2])]
           F == CHOOSE f : f = [S \in SUBSET (1..n) |->
                                  IF S = {} THEN base ELSE op(f[S \ {Max(S)}], Max(S))]
<1>1. n \in Nat /\ DOMAIN s = 1..n
  OBVIOUS
<1>2. base \in A
  OBVIOUS
<1>3. ASSUME NEW a \in A, NEW k \in 1..n PROVE op(a, k) \in A
  <2>1. groupNamed(cfg, g, s[k].group) \in V
    BY <1>1
  <2> QED BY <2>1 DEF setSlot
<1>4. AddGroup(cfg, slots, g) = F[1..n]
  <2>1. DOMAIN s = 1..n
    BY <1>1
  <2> QED BY <2>1 DEF AddGroup, FoldLeft, MapThenFoldSet
<1>5. step \in [A \X (1..n) -> A]
  <2> HIDE DEF A, op
  <2>1. \A p \in A \X (1..n) : op(p[1], p[2]) \in A
    BY <1>3
  <2> QED BY <2>1
<1>6. \A a \in A, k \in 1..n : step[<<a, k>>] = op(a, k)
  <2> HIDE DEF A, op
  <2> QED OBVIOUS
<1> HIDE DEF A, base, op, step, n
<1>7. PICK h : IsFold(h, n, A, base, step)
  BY <1>1, <1>2, <1>5, FoldExists
<1>8. h = [S \in SUBSET (1..n) |-> IF S = {} THEN base ELSE op(h[S \ {Max(S)}], Max(S))]
  <2>1. ASSUME NEW S \in SUBSET (1..n), S # {}
        PROVE  step[<<h[S \ {Max(S)}], Max(S)>>] = op(h[S \ {Max(S)}], Max(S))
    <3>1. Max(S) \in S
      BY <1>1, <2>1, Greatest
    <3>2. h[S \ {Max(S)}] \in A
      BY <1>7 DEF IsFold
    <3> QED BY <1>6, <3>1, <3>2
  <2>2. h = [S \in SUBSET (1..n) |-> h[S]]
    BY <1>7 DEF IsFold
  <2> QED BY <1>7, <2>1, <2>2 DEF IsFold
<1>9. \A S \in SUBSET (1..n) : F[S] = IF S = {} THEN base ELSE op(F[S \ {Max(S)}], Max(S))
  <2>1. F = [S \in SUBSET (1..n) |-> IF S = {} THEN base ELSE op(F[S \ {Max(S)}], Max(S))]
    BY <1>8
  <2> HIDE DEF F
  <2> QED BY <2>1
<1> HIDE DEF F
<1> DEFINE t == [k \in 0..n |-> F[1..k]]
<1>10. t[0] = base
  <2>1. 1..0 = {} /\ {} \in SUBSET (1..n) /\ 0 \in 0..n
    BY <1>1
  <2>2. F[{}] = base
    BY <1>9, <2>1
  <2>3. t[0] = F[1..0]
    BY <2>1
  <2> QED BY <2>1, <2>2, <2>3
<1>11. ASSUME NEW k \in 0..(n - 1) PROVE t[k + 1] = op(t[k], k + 1)
  <2>1. t[k + 1] = F[1..(k + 1)] /\ t[k] = F[1..k]
    BY <1>1
  <2>2. F[1..(k + 1)] = op(F[1..k], k + 1)
    <3> DEFINE S == 1..(k + 1)
    <3>1. S \in SUBSET (1..n) /\ S # {} /\ Max(S) = k + 1 /\ S \ {k + 1} = 1..k
      BY <1>1, PrefixMax
    <3> HIDE DEF S
    <3>2. F[S] = op(F[S \ {Max(S)}], Max(S))
      BY <1>9, <3>1
    <3> QED BY <3>1, <3>2 DEF S
  <2> QED BY <2>1, <2>2
<1>12. t[n] = AddGroup(cfg, slots, g)
  BY <1>1, <1>4
<1> HIDE DEF t
<1> QED BY <1>10, <1>11, <1>12 DEF base, op, n

PartialMaps(K, V) == UNION {[D -> V] : D \in SUBSET K}

\* a is m with a group for key, if it had none.
Added(m, key, group, a) ==
    /\ DOMAIN a = DOMAIN m \union ({key} \ {""})
    /\ \A k \in DOMAIN m : a[k] = m[k]
    /\ key \notin DOMAIN m /\ key # "" => a[key] = group

\* An entry is added to the key mapping, or nothing changes.
LEMMA AddedMapping ==
    ASSUME NEW K, NEW V, NEW m \in PartialMaps(K, V), NEW key \in K, NEW group \in V
    PROVE  /\ addGroupKeyMapping(m, key, group) \in PartialMaps(K, V)
           /\ Added(m, key, group, addGroupKeyMapping(m, key, group))
<1>1. PICK D \in SUBSET K : m \in [D -> V]
  BY DEF PartialMaps
<1>2. CASE key = "" \/ key \in DOMAIN m
  BY <1>2 DEF addGroupKeyMapping, Added
<1>3. CASE ~(key = "" \/ key \in DOMAIN m)
  <2> DEFINE a == [k \in D \union {key} |-> IF k = key THEN group ELSE m[k]]
  <2>1. addGroupKeyMapping(m, key, group) = a
    BY <1>1, <1>3 DEF addGroupKeyMapping
  <2>2. a \in [D \union {key} -> V] /\ D \union {key} \in SUBSET K
    BY <1>1
  <2>3. DOMAIN a = DOMAIN m \union ({key} \ {""}) /\ \A k \in DOMAIN m : a[k] = m[k]
    BY <1>1, <1>3
  <2>4. a[key] = group
    OBVIOUS
  <2> HIDE DEF a
  <2> QED BY <2>1, <2>2, <2>3, <2>4 DEF PartialMaps, Added
<1> QED BY <1>2, <1>3

\* keyTable adds one entry after the other.
LEMMA KeyFold ==
    ASSUME NEW cfg, cfg.keyMapping \in Seq(ToSet(cfg.keyMapping))
    PROVE  \E t : /\ t[0] = [k \in {} |-> NoGroup]
                  /\ \A k \in 0..(Len(cfg.keyMapping) - 1) :
                       t[k + 1] = addGroupKeyMapping(t[k], cfg.keyMapping[k + 1].key,
                                                     cfg.keyMapping[k + 1].group)
                  /\ t[Len(cfg.keyMapping)] = keyTable(cfg)
<1> DEFINE s == cfg.keyMapping
           n == Len(s)
           K == {s[k].key : k \in 1..n}
           V == {s[k].group : k \in 1..n}
           A == PartialMaps(K, V)
           base == [k \in {} |-> NoGroup]
           op(a, k) == addGroupKeyMapping(a, s[k].key, s[k].group)
           step == [p \in A \X (1..n) |-> op(p[1], p[2])]
           F == CHOOSE f : f = [S \in SUBSET (1..n) |->
                                  IF S = {} THEN base ELSE op(f[S \ {Max(S)}], Max(S))]
<1>1. n \in Nat /\ DOMAIN s = 1..n
  OBVIOUS
<1>2. base \in A
  <2>1. base \in [{} -> V] /\ {} \in SUBSET K
    OBVIOUS
  <2> QED BY <2>1 DEF PartialMaps
<1>3. ASSUME NEW a \in A, NEW k \in 1..n PROVE op(a, k) \in A
  BY AddedMapping
<1>4. keyTable(cfg) = F[1..n]
  <2>1. DOMAIN s = 1..n
    BY <1>1
  <2> QED BY <2>1 DEF keyTable, FoldLeft, MapThenFoldSet
<1>5. step \in [A \X (1..n) -> A]
  <2> HIDE DEF A, op
  <2>1. \A p \in A \X (1..n) : op(p[1], p[2]) \in A
    BY <1>3
  <2> QED BY <2>1
<1>6. \A a \in A, k \in 1..n : step[<<a, k>>] = op(a, k)
  <2> HIDE DEF A, op
  <2> QED OBVIOUS
<1> HIDE DEF A, base, op, step, n, K, V
<1>7. PICK h : IsFold(h, n, A, base, step)
  BY <1>1, <1>2, <1>5, FoldExists
<1>8. h = [S \in SUBSET (1..n) |-> IF S = {} THEN base ELSE op(h[S \ {Max(S)}], Max(S))]
  <2>1. ASSUME NEW S \in SUBSET (1..n), S # {}
        PROVE  step[<<h[S \ {Max(S)}], Max(S)>>] = op(h[S \ {Max(S)}], Max(S))
    <3>1. Max(S) \in S
      <4>1. S \in SUBSET (0..n)
        BY <1>1
      <4> HIDE DEF F
      <4> QED BY <1>1, <2>1, <4>1, Greatest
    <3>2. h[S \ {Max(S)}] \in A
      BY <1>7 DEF IsFold
    <3> QED BY <1>6, <3>1, <3>2
  <2>2. h = [S \in SUBSET (1..n) |-> h[S]]
    BY <1>7 DEF IsFold
  <2> QED BY <1>7, <2>1, <2>2 DEF IsFold
<1>9. \A S \in SUBSET (1..n) : F[S] = IF S = {} THEN base ELSE op(F[S \ {Max(S)}], Max(S))
  <2>1. F = [S \in SUBSET (1..n) |-> IF S = {} THEN base ELSE op(F[S \ {Max(S)}], Max(S))]
    BY <1>8
  <2> HIDE DEF F
  <2> QED BY <2>1
<1> HIDE DEF F
<1> DEFINE t == [k \in 0..n |-> F[1..k]]
<1>10. t[0] = base
  <2>1. 1..0 = {} /\ {} \in SUBSET (1..n) /\ 0 \in 0..n
    BY <1>1
  <2>2. F[{}] = base
    BY <1>9, <2>1
  <2>3. t[0] = F[1..0]
    BY <2>1
  <2> QED BY <2>1, <2>2, <2>3
<1>11. ASSUME NEW k \in 0..(n - 1) PROVE t[k + 1] = op(t[k], k + 1)
  <2>1. t[k + 1] = F[1..(k + 1)] /\ t[k] = F[1..k]
    BY <1>1
  <2>2. F[1..(k + 1)] = op(F[1..k], k + 1)
    <3> DEFINE S == 1..(k + 1)
    <3>1. S \in SUBSET (1..n) /\ S # {} /\ Max(S) = k + 1 /\ S \ {k + 1} = 1..k
      BY <1>1, PrefixMax
    <3> HIDE DEF S
    <3>2. F[S] = op(F[S \ {Max(S)}], Max(S))
      BY <1>9, <3>1
    <3> QED BY <3>1, <3>2 DEF S
  <2> QED BY <2>1, <2>2
<1>12. t[n] = keyTable(cfg)
  BY <1>1, <1>4
<1> HIDE DEF t
<1> QED BY <1>10, <1>11, <1>12 DEF base, op, n, s

\* The first entry for a key.
FirstEntry(s, key, j) == s[j].key = key /\ \A i \in 1..(j - 1) : s[i].key # key

\* A key table has the keys of the entries but the empty one, each with its first group.
LEMMA KeyTableIs ==
    ASSUME NEW cfg, cfg.keyMapping \in Seq(ToSet(cfg.keyMapping))
    PROVE  /\ DOMAIN keyTable(cfg) = {e.key : e \in ToSet(cfg.keyMapping)} \ {""}
           /\ \A key \in DOMAIN keyTable(cfg) :
                \E j \in DOMAIN cfg.keyMapping :
                  /\ FirstEntry(cfg.keyMapping, key, j)
                  /\ keyTable(cfg)[key] = cfg.keyMapping[j].group
           /\ keyTable(cfg) = [key \in DOMAIN keyTable(cfg) |-> keyTable(cfg)[key]]
<1> DEFINE s == cfg.keyMapping
           n == Len(s)
           K == {s[k].key : k \in 1..n}
           V == {s[k].group : k \in 1..n}
<1>1. n \in Nat /\ DOMAIN s = 1..n
  OBVIOUS
<1>2. PICK t : /\ t[0] = [k \in {} |-> NoGroup]
               /\ \A k \in 0..(n - 1) : t[k + 1] = addGroupKeyMapping(t[k], s[k + 1].key, s[k + 1].group)
               /\ t[n] = keyTable(cfg)
  BY KeyFold
<1> HIDE DEF n
<1> DEFINE Good(k) ==
             /\ t[k] \in PartialMaps(K, V)
             /\ DOMAIN t[k] = {s[j].key : j \in 1..k} \ {""}
             /\ \A x \in DOMAIN t[k] : \E j \in 1..k : FirstEntry(s, x, j) /\ t[k][x] = s[j].group
           G == {k \in 0..n : Good(k)}
<1>3. 0 \in G
  <2>1. t[0] \in [{} -> V] /\ {} \in SUBSET K /\ DOMAIN t[0] = {}
    BY <1>2
  <2>2. t[0] \in PartialMaps(K, V)
    BY <2>1 DEF PartialMaps
  <2>3. {s[j].key : j \in 1..0} = {} /\ 0 \in 0..n
    BY <1>1
  <2> QED BY <2>1, <2>2, <2>3
<1>4. ASSUME NEW k \in 0..(n - 1), k \in G PROVE k + 1 \in G
  <2> DEFINE key == s[k + 1].key
             group == s[k + 1].group
  <2>1. k \in Nat /\ k + 1 \in 1..n /\ k + 1 \in 0..n
    BY <1>1
  <2>2. Good(k) /\ t[k + 1] = addGroupKeyMapping(t[k], key, group) /\ key \in K /\ group \in V
    BY <1>2, <1>4, <2>1
  <2>3. /\ t[k + 1] \in PartialMaps(K, V)
        /\ DOMAIN t[k + 1] = DOMAIN t[k] \union ({key} \ {""})
        /\ \A x \in DOMAIN t[k] : t[k + 1][x] = t[k][x]
        /\ key \notin DOMAIN t[k] /\ key # "" => t[k + 1][key] = group
    <3>1. t[k] \in PartialMaps(K, V)
      BY <2>2
    <3> HIDE DEF K, V, key, group, Good
    <3>2. key \in K /\ group \in V /\ t[k + 1] = addGroupKeyMapping(t[k], key, group)
      BY <2>2
    <3>3. t[k + 1] \in PartialMaps(K, V) /\ Added(t[k], key, group, t[k + 1])
      BY <3>1, <3>2, AddedMapping
    <3> QED BY <3>3 DEF Added
  <2>4. {s[j].key : j \in 1..(k + 1)} = {s[j].key : j \in 1..k} \union {key}
    <3>1. \A j : j \in 1..(k + 1) <=> j \in 1..k \/ j = k + 1
      BY <2>1
    <3> QED BY <3>1
  <2>5. DOMAIN t[k + 1] = {s[j].key : j \in 1..(k + 1)} \ {""}
    BY <2>2, <2>3, <2>4
  <2>6. ASSUME NEW x \in DOMAIN t[k + 1]
        PROVE  \E j \in 1..(k + 1) : FirstEntry(s, x, j) /\ t[k + 1][x] = s[j].group
    <3>1. CASE x \in DOMAIN t[k]
      <4>1. PICK j \in 1..k : FirstEntry(s, x, j) /\ t[k][x] = s[j].group
        BY <2>2, <3>1
      <4>2. j \in 1..(k + 1)
        BY <2>1
      <4> QED BY <2>3, <3>1, <4>1, <4>2
    <3>2. CASE x \notin DOMAIN t[k]
      <4>1. x = key /\ key # ""
        BY <2>3, <3>2
      <4>2. \A i \in 1..k : s[i].key # x
        <5>1. x \notin {s[j].key : j \in 1..k}
          <6>1. DOMAIN t[k] = {s[j].key : j \in 1..k} \ {""}
            BY <2>2
          <6> HIDE DEF Good, G, s
          <6> QED BY <3>2, <4>1, <6>1
        <5> QED BY <5>1
      <4>3. k + 1 \in 1..(k + 1) /\ (k + 1) - 1 = k
        BY <2>1
      <4>4. FirstEntry(s, x, k + 1)
        BY <4>1, <4>2, <4>3 DEF FirstEntry
      <4> QED BY <2>3, <3>2, <4>1, <4>3, <4>4
    <3> QED BY <3>1, <3>2
  <2> QED BY <2>1, <2>3, <2>5, <2>6
<1>5. n \in G
  <2> HIDE DEF G
  <2>1. \A k \in 0..n : k \in G
    BY <1>1, <1>3, <1>4, InductTo
  <2> QED BY <1>1, <2>1
<1>6. Good(n)
  BY <1>5
<1>7. {s[j].key : j \in 1..n} = {e.key : e \in ToSet(s)}
  BY <1>1 DEF ToSet
<1>8. DOMAIN t[n] = {e.key : e \in ToSet(s)} \ {""}
  BY <1>6, <1>7
<1>9. ASSUME NEW x \in DOMAIN t[n]
      PROVE  \E j \in DOMAIN s : FirstEntry(s, x, j) /\ t[n][x] = s[j].group
  BY <1>1, <1>6
<1>10. t[n] = keyTable(cfg) /\ t[n] = [x \in DOMAIN t[n] |-> t[n][x]]
  <2>1. t[n] \in PartialMaps(K, V)
    BY <1>6
  <2> HIDE DEF K, V, Good, G
  <2> QED BY <1>2, <2>1 DEF PartialMaps
<1> HIDE DEF Good, G, K, V, n, s
<1>11. DOMAIN keyTable(cfg) = {e.key : e \in ToSet(s)} \ {""}
  BY <1>8, <1>10
<1>12. \A x \in DOMAIN keyTable(cfg) :
         \E j \in DOMAIN s : FirstEntry(s, x, j) /\ keyTable(cfg)[x] = s[j].group
  BY <1>9, <1>10
<1>13. keyTable(cfg) = [x \in DOMAIN keyTable(cfg) |-> keyTable(cfg)[x]]
  BY <1>10
<1> QED BY <1>11, <1>12, <1>13 DEF s

\* The last of the first k mappings of slot v.
LastMapping(s, v, j, k) == s[j].value = v /\ \A i \in (j + 1)..k : s[i].value # v

Unmapped(s, v, k) == \A i \in 1..k : s[i].value # v

\* A round over the groups sets a slot that has a mapping to the last one's group, another
\* one that is in the range to the group.
RoundDone(cfg, g, slots, v, r) ==
    \/ \E j \in DOMAIN cfg.hashMapping :
         /\ LastMapping(cfg.hashMapping, v, j, Len(cfg.hashMapping))
         /\ r = groupNamed(cfg, g, cfg.hashMapping[j].group)
    \/ /\ Unmapped(cfg.hashMapping, v, Len(cfg.hashMapping))
       /\ r = IF v \in Covered(cfg, g) THEN cfg.groups[g].name ELSE slots[v]

\* A round sets every slot as RoundDone says.
LEMMA AddGroupIs ==
    ASSUME NEW cfg, NEW g, NEW V, NEW D, NEW slots \in [D -> V],
           cfg.hashMapping \in Seq(ToSet(cfg.hashMapping)),
           \A k \in DOMAIN cfg.hashMapping : groupNamed(cfg, g, cfg.hashMapping[k].group) \in V,
           \A v \in D : v \in Covered(cfg, g) => cfg.groups[g].name \in V
    PROVE  /\ AddGroup(cfg, slots, g) \in [D -> V]
           /\ \A v \in D : RoundDone(cfg, g, slots, v, AddGroup(cfg, slots, g)[v])
<1> DEFINE s == cfg.hashMapping
           n == Len(s)
           ranged == [v \in DOMAIN slots |-> IF v \in Covered(cfg, g) THEN cfg.groups[g].name ELSE slots[v]]
           named(k) == groupNamed(cfg, g, s[k].group)
<1>1. n \in Nat /\ DOMAIN s = 1..n /\ DOMAIN slots = D
  OBVIOUS
<1>2. PICK t : /\ t[0] = ranged
               /\ \A k \in 0..(n - 1) : t[k + 1] = setSlot(t[k], s[k + 1].value, named(k + 1))
               /\ t[n] = AddGroup(cfg, slots, g)
  <2>1. slots \in [DOMAIN slots -> V] /\ \A v \in DOMAIN slots : v \in Covered(cfg, g) => cfg.groups[g].name \in V
    BY <1>1
  <2> QED BY <2>1, MappingFold
<1>3. ranged \in [D -> V]
  BY <1>1
<1>4. \A k \in 1..n : named(k) \in V
  BY <1>1
<1> HIDE DEF n, s, named
<1> DEFINE Value(v, k) == \/ \E j \in 1..k : LastMapping(s, v, j, k) /\ t[k][v] = named(j)
                          \/ Unmapped(s, v, k) /\ t[k][v] = ranged[v]
           Good(k) == t[k] \in [D -> V] /\ \A v \in D : Value(v, k)
           G == {k \in 0..n : Good(k)}
<1>5. 0 \in G
  <2>1. \A v : Unmapped(s, v, 0)
    BY DEF Unmapped
  <2> QED BY <1>1, <1>2, <1>3, <2>1
<1>6. ASSUME NEW k \in 0..(n - 1), k \in G PROVE k + 1 \in G
  <2>1. k \in Nat /\ k + 1 \in 1..n /\ k + 1 \in 0..n
    BY <1>1
  <2>2. t[k] \in [D -> V] /\ \A v \in D : Value(v, k)
    BY <1>6
  <2>3. t[k + 1] = setSlot(t[k], s[k + 1].value, named(k + 1)) /\ named(k + 1) \in V
    BY <1>2, <1>4, <2>1
  <2>4. /\ t[k + 1] \in [D -> V]
        /\ \A v \in D : t[k + 1][v] = IF v = s[k + 1].value THEN named(k + 1) ELSE t[k][v]
    <3>1. t[k] \in [D -> V]
      BY <2>2
    <3> QED BY <2>3, <3>1 DEF setSlot
  <2>5. ASSUME NEW v \in D PROVE Value(v, k + 1)
    <3>1. CASE v = s[k + 1].value
      <4>1. LastMapping(s, v, k + 1, k + 1) /\ k + 1 \in 1..(k + 1)
        BY <2>1, <3>1 DEF LastMapping
      <4>2. t[k + 1][v] = named(k + 1)
        BY <2>4, <3>1
      <4> QED BY <4>1, <4>2
    <3>2. CASE v # s[k + 1].value
      <4>1. t[k + 1][v] = t[k][v]
        BY <2>4, <3>2
      <4>2. CASE Unmapped(s, v, k) /\ t[k][v] = ranged[v]
        <5>1. Unmapped(s, v, k + 1)
          BY <2>1, <3>2, <4>2 DEF Unmapped
        <5> QED BY <4>1, <4>2, <5>1
      <4>3. ASSUME NEW j \in 1..k, LastMapping(s, v, j, k), t[k][v] = named(j) PROVE Value(v, k + 1)
        <5>1. LastMapping(s, v, j, k + 1) /\ j \in 1..(k + 1)
          BY <2>1, <3>2, <4>3 DEF LastMapping
        <5> QED BY <4>1, <4>3, <5>1
      <4> QED BY <2>2, <4>2, <4>3
    <3> QED BY <3>1, <3>2
  <2> HIDE DEF Value
  <2> QED BY <2>1, <2>4, <2>5
<1>7. n \in G
  <2> HIDE DEF G
  <2>1. \A k \in 0..n : k \in G
    BY <1>1, <1>5, <1>6, InductTo
  <2> QED BY <1>1, <2>1
<1>8. t[n] \in [D -> V] /\ \A v \in D : Value(v, n)
  BY <1>7
<1>9. ASSUME NEW v \in D PROVE RoundDone(cfg, g, slots, v, t[n][v])
  <2>1. CASE Unmapped(s, v, n) /\ t[n][v] = ranged[v]
    <3>1. t[n][v] = IF v \in Covered(cfg, g) THEN cfg.groups[g].name ELSE slots[v]
      BY <1>1, <2>1
    <3> QED BY <2>1, <3>1 DEF RoundDone, s, n
  <2>2. ASSUME NEW j \in 1..n, LastMapping(s, v, j, n), t[n][v] = named(j)
        PROVE  RoundDone(cfg, g, slots, v, t[n][v])
    BY <1>1, <2>2 DEF RoundDone, s, n, named
  <2> QED BY <1>8, <2>1, <2>2
<1> HIDE DEF Value, ranged
<1> QED BY <1>2, <1>8, <1>9

\* What isValid has of a configuration whose slots are dealt to ranges.
Dealt(cfg) ==
    /\ cfg.groups \in Seq(ToSet(cfg.groups)) /\ cfg.hashMapping \in Seq(ToSet(cfg.hashMapping))
    /\ cfg.hashValueMax \in Int
    /\ \A k \in DOMAIN cfg.hashMapping : cfg.hashMapping[k].group \in GroupNames(cfg)
    /\ \A g \in DOMAIN cfg.groups : \A h \in 1..(g - 1) : Covered(cfg, g) \intersect Covered(cfg, h) = {}
    /\ \A v \in 0..(cfg.hashValueMax - 1) : \E g \in DOMAIN cfg.groups : v \in Covered(cfg, g)

Slots(cfg) == 0..(cfg.hashValueMax - 1)

SlotValues(cfg) == GroupNames(cfg) \union {NoGroup}

\* A round of the loop keeps the table one of groups.
LEMMA RoundTypes ==
    ASSUME NEW cfg, Dealt(cfg), NEW a \in [Slots(cfg) -> SlotValues(cfg)], NEW g \in DOMAIN cfg.groups
    PROVE  /\ AddGroup(cfg, a, g) \in [Slots(cfg) -> SlotValues(cfg)]
           /\ \A v \in Slots(cfg) : RoundDone(cfg, g, a, v, AddGroup(cfg, a, g)[v])
<1>1. cfg.hashMapping \in Seq(ToSet(cfg.hashMapping))
  BY DEF Dealt
<1>2. \A k \in DOMAIN cfg.hashMapping : groupNamed(cfg, g, cfg.hashMapping[k].group) \in SlotValues(cfg)
  BY DEF Dealt, SlotValues, groupNamed
<1>3. cfg.groups[g].name \in SlotValues(cfg)
  BY DEF SlotValues, GroupNames
<1> QED BY <1>1, <1>2, <1>3, AddGroupIs

\* slotTable adds one group after the other.
LEMMA SlotFold ==
    ASSUME NEW cfg, Dealt(cfg), ~cfg.twemproxy
    PROVE  \E t : /\ t[0] = [v \in Slots(cfg) |-> NoGroup]
                  /\ \A k \in 0..(Len(cfg.groups) - 1) : t[k + 1] = AddGroup(cfg, t[k], k + 1)
                  /\ t[Len(cfg.groups)] = slotTable(cfg)
<1> DEFINE s == [g \in DOMAIN cfg.groups |-> g]
           n == Len(cfg.groups)
           A == [Slots(cfg) -> SlotValues(cfg)]
           base == [v \in Slots(cfg) |-> NoGroup]
           op(a, k) == AddGroup(cfg, a, s[k])
           step == [p \in A \X (1..n) |-> op(p[1], p[2])]
           F == CHOOSE f : f = [S \in SUBSET (1..n) |->
                                  IF S = {} THEN base ELSE op(f[S \ {Max(S)}], Max(S))]
<1>1. n \in Nat /\ DOMAIN cfg.groups = 1..n /\ DOMAIN s = 1..n
  BY DEF Dealt
<1>2. base \in A
  BY DEF SlotValues
<1>3. ASSUME NEW a \in A, NEW k \in 1..n PROVE op(a, k) \in A
  <2>1. k \in DOMAIN cfg.groups /\ s[k] = k
    BY <1>1
  <2> QED BY <2>1, RoundTypes
<1>4. slotTable(cfg) = F[1..n]
  <2>1. DOMAIN s = 1..n
    BY <1>1
  <2> QED BY <2>1 DEF slotTable, FoldLeft, MapThenFoldSet, Slots
<1>5. step \in [A \X (1..n) -> A]
  <2> HIDE DEF A, op
  <2>1. \A p \in A \X (1..n) : op(p[1], p[2]) \in A
    BY <1>3
  <2> QED BY <2>1
<1>6. \A a \in A, k \in 1..n : step[<<a, k>>] = op(a, k)
  <2> HIDE DEF A, op
  <2> QED OBVIOUS
<1> HIDE DEF A, base, op, step, n
<1>7. PICK h : IsFold(h, n, A, base, step)
  BY <1>1, <1>2, <1>5, FoldExists
<1>8. h = [S \in SUBSET (1..n) |-> IF S = {} THEN base ELSE op(h[S \ {Max(S)}], Max(S))]
  <2>1. ASSUME NEW S \in SUBSET (1..n), S # {}
        PROVE  step[<<h[S \ {Max(S)}], Max(S)>>] = op(h[S \ {Max(S)}], Max(S))
    <3>1. Max(S) \in S
      <4>1. S \in SUBSET (0..n)
        BY <1>1
      <4> HIDE DEF F
      <4> QED BY <1>1, <2>1, <4>1, Greatest
    <3>2. h[S \ {Max(S)}] \in A
      BY <1>7 DEF IsFold
    <3> QED BY <1>6, <3>1, <3>2
  <2>2. h = [S \in SUBSET (1..n) |-> h[S]]
    BY <1>7 DEF IsFold
  <2> QED BY <1>7, <2>1, <2>2 DEF IsFold
<1>9. \A S \in SUBSET (1..n) : F[S] = IF S = {} THEN base ELSE op(F[S \ {Max(S)}], Max(S))
  <2>1. F = [S \in SUBSET (1..n) |-> IF S = {} THEN base ELSE op(F[S \ {Max(S)}], Max(S))]
    BY <1>8
  <2> HIDE DEF F
  <2> QED BY <2>1
<1> HIDE DEF F
<1> DEFINE t == [k \in 0..n |-> F[1..k]]
<1>10. t[0] = base
  <2>1. 1..0 = {} /\ {} \in SUBSET (1..n) /\ 0 \in 0..n
    BY <1>1
  <2>2. F[{}] = base
    BY <1>9, <2>1
  <2>3. t[0] = F[1..0]
    BY <2>1
  <2> QED BY <2>1, <2>2, <2>3
<1>11. ASSUME NEW k \in 0..(n - 1) PROVE t[k + 1] = op(t[k], k + 1)
  <2>1. t[k + 1] = F[1..(k + 1)] /\ t[k] = F[1..k]
    BY <1>1
  <2>2. F[1..(k + 1)] = op(F[1..k], k + 1)
    <3> DEFINE S == 1..(k + 1)
    <3>1. S \in SUBSET (1..n) /\ S # {} /\ Max(S) = k + 1 /\ S \ {k + 1} = 1..k
      BY <1>1, PrefixMax
    <3> HIDE DEF S
    <3>2. F[S] = op(F[S \ {Max(S)}], Max(S))
      BY <1>9, <3>1
    <3> QED BY <3>1, <3>2 DEF S
  <2> QED BY <2>1, <2>2
<1>12. t[n] = slotTable(cfg)
  BY <1>1, <1>4
<1> HIDE DEF t
<1>13. \A k \in 0..(n - 1) : op(t[k], k + 1) = AddGroup(cfg, t[k], k + 1)
  <2>1. \A k \in 0..(n - 1) : s[k + 1] = k + 1
    BY <1>1
  <2> HIDE DEF s
  <2> QED BY <2>1 DEF op
<1> QED BY <1>10, <1>11, <1>12, <1>13 DEF base, n

\* A slot has the group of its last mapping, or else the one whose range it is in.
SlotDone(cfg, v, r) ==
    \/ \E j \in DOMAIN cfg.hashMapping :
         /\ LastMapping(cfg.hashMapping, v, j, Len(cfg.hashMapping))
         /\ r = cfg.hashMapping[j].group
    \/ /\ Unmapped(cfg.hashMapping, v, Len(cfg.hashMapping))
       /\ \E g \in DOMAIN cfg.groups : v \in Covered(cfg, g) /\ r = cfg.groups[g].name

\* After a round every group that was added has its range, but for mapped slots.
RangeDone(cfg, k, v, r) ==
    \A g \in 1..k : v \in Covered(cfg, g) => r = cfg.groups[g].name

\* A round adds its own range and, the ranges being disjoint, keeps the others.
LEMMA RangeStep ==
    ASSUME NEW cfg, Dealt(cfg), NEW k \in 0..(Len(cfg.groups) - 1), NEW a, NEW v, NEW r,
           Unmapped(cfg.hashMapping, v, Len(cfg.hashMapping)),
           RoundDone(cfg, k + 1, a, v, r), RangeDone(cfg, k, v, a[v])
    PROVE  RangeDone(cfg, k + 1, v, r)
<1>1. Len(cfg.groups) \in Nat /\ k + 1 \in DOMAIN cfg.groups /\ k \in Nat
  BY DEF Dealt
<1>2. r = IF v \in Covered(cfg, k + 1) THEN cfg.groups[k + 1].name ELSE a[v]
  <2>1. Len(cfg.hashMapping) \in Nat /\ DOMAIN cfg.hashMapping = 1..Len(cfg.hashMapping)
    BY DEF Dealt
  <2> QED BY <2>1 DEF RoundDone, Unmapped, LastMapping
<1>3. ASSUME NEW g \in 1..(k + 1), v \in Covered(cfg, g) PROVE r = cfg.groups[g].name
  <2>1. CASE g = k + 1
    BY <1>2, <1>3, <2>1
  <2>2. CASE g # k + 1
    <3>1. g \in 1..k /\ g \in 1..((k + 1) - 1)
      BY <1>1, <2>2
    <3>2. Covered(cfg, k + 1) \intersect Covered(cfg, g) = {}
      BY <1>1, <3>1 DEF Dealt
    <3>3. v \notin Covered(cfg, k + 1)
      BY <1>3, <3>2
    <3>4. a[v] = cfg.groups[g].name
      BY <1>3, <3>1 DEF RangeDone
    <3> QED BY <1>2, <3>3, <3>4
  <2> QED BY <2>1, <2>2
<1> QED BY <1>3 DEF RangeDone

\* After the last round every slot has its group.
LEMMA SlotTableIs ==
    ASSUME NEW cfg, Dealt(cfg), ~cfg.twemproxy
    PROVE  /\ slotTable(cfg) \in [Slots(cfg) -> SlotValues(cfg)]
           /\ \A v \in Slots(cfg) : SlotDone(cfg, v, slotTable(cfg)[v])
<1> DEFINE n == Len(cfg.groups)
           m == Len(cfg.hashMapping)
           A == [Slots(cfg) -> SlotValues(cfg)]
<1>1. /\ n \in Nat /\ DOMAIN cfg.groups = 1..n
      /\ m \in Nat /\ DOMAIN cfg.hashMapping = 1..m
  BY DEF Dealt
<1>2. PICK t : /\ t[0] = [v \in Slots(cfg) |-> NoGroup]
               /\ \A k \in 0..(n - 1) : t[k + 1] = AddGroup(cfg, t[k], k + 1)
               /\ t[n] = slotTable(cfg)
  BY SlotFold
<1> HIDE DEF n
<1> DEFINE Good(k) ==
             /\ t[k] \in A
             /\ k > 0 => \A v \in Slots(cfg) : RoundDone(cfg, k, t[k - 1], v, t[k][v])
             /\ \A v \in Slots(cfg) :
                  Unmapped(cfg.hashMapping, v, m) => RangeDone(cfg, k, v, t[k][v])
           G == {k \in 0..n : Good(k)}
<1>3. 0 \in G
  <2>1. t[0] \in A
    BY <1>2 DEF SlotValues
  <2>2. \A v : RangeDone(cfg, 0, v, t[0][v])
    BY DEF RangeDone
  <2> QED BY <1>1, <2>1, <2>2
<1>4. ASSUME NEW k \in 0..(n - 1), k \in G PROVE k + 1 \in G
  <2>1. k + 1 \in 1..n /\ k + 1 \in 0..n /\ (k + 1) - 1 = k /\ k + 1 \in DOMAIN cfg.groups
    BY <1>1
  <2>2. t[k] \in A
    BY <1>4
  <2>3. t[k + 1] = AddGroup(cfg, t[k], k + 1)
    BY <1>2
  <2>4. t[k + 1] \in A /\ \A v \in Slots(cfg) : RoundDone(cfg, k + 1, t[k], v, t[k + 1][v])
    BY <2>1, <2>2, <2>3, RoundTypes
  <2>5. ASSUME NEW v \in Slots(cfg), Unmapped(cfg.hashMapping, v, m)
        PROVE  RangeDone(cfg, k + 1, v, t[k + 1][v])
    <3>1. RangeDone(cfg, k, v, t[k][v])
      BY <1>4, <2>5
    <3> QED BY <2>4, <2>5, <3>1, RangeStep DEF n
  <2> QED BY <2>1, <2>4, <2>5
<1>5. n \in G
  <2> HIDE DEF G
  <2>1. \A k \in 0..n : k \in G
    BY <1>1, <1>3, <1>4, InductTo
  <2> QED BY <1>1, <2>1
<1>6. Good(n)
  BY <1>5
<1>7. ASSUME NEW v \in Slots(cfg) PROVE SlotDone(cfg, v, t[n][v])
  <2>1. PICK g \in 1..n : v \in Covered(cfg, g)
    BY <1>1 DEF Dealt, Slots
  <2>2. RoundDone(cfg, n, t[n - 1], v, t[n][v])
    BY <1>1, <1>6, <2>1
  <2>3. CASE Unmapped(cfg.hashMapping, v, m)
    <3>1. t[n][v] = cfg.groups[g].name
      BY <1>6, <2>1, <2>3 DEF RangeDone
    <3> QED BY <1>1, <2>1, <2>3, <3>1 DEF SlotDone
  <2>4. CASE ~Unmapped(cfg.hashMapping, v, m)
    <3>1. PICK j \in DOMAIN cfg.hashMapping :
             /\ LastMapping(cfg.hashMapping, v, j, m)
             /\ t[n][v] = groupNamed(cfg, n, cfg.hashMapping[j].group)
      BY <2>2, <2>4 DEF RoundDone
    <3>2. cfg.hashMapping[j].group \in GroupNames(cfg)
      BY DEF Dealt
    <3>3. groupNamed(cfg, n, cfg.hashMapping[j].group) = cfg.hashMapping[j].group
      BY <1>1, <3>2 DEF groupNamed, GroupNames
    <3> QED BY <3>1, <3>3 DEF SlotDone
  <2> QED BY <2>3, <2>4
<1> QED BY <1>2, <1>6, <1>7

\* The slot table of a valid configuration is what the file says.
LEMMA SlotsAsConfigured ==
    ASSUME NEW cfg, Dealt(cfg), ~cfg.twemproxy
    PROVE  /\ slotTable(cfg) = [n \in 0..(cfg.hashValueMax - 1) |-> SlotOwner(cfg, n)]
           /\ slotTable(cfg) \in [Slots(cfg) -> GroupNames(cfg)]
<1> DEFINE s == cfg.hashMapping
           m == Len(s)
<1>1. /\ m \in Nat /\ DOMAIN s = 1..m
      /\ Len(cfg.groups) \in Nat /\ DOMAIN cfg.groups = 1..Len(cfg.groups)
  BY DEF Dealt
<1>2. slotTable(cfg) \in [Slots(cfg) -> SlotValues(cfg)]
  BY SlotTableIs
<1>3. ASSUME NEW v \in Slots(cfg)
      PROVE  slotTable(cfg)[v] = SlotOwner(cfg, v) /\ slotTable(cfg)[v] \in GroupNames(cfg)
  <2> DEFINE r == slotTable(cfg)[v]
  <2>1. SlotDone(cfg, v, r)
    BY SlotTableIs
  <2> HIDE DEF r
  <2>2. MappingOf(cfg, v) = {k \in 1..m : s[k].value = v}
    BY <1>1 DEF MappingOf
  <2>3. ASSUME NEW j \in DOMAIN s, LastMapping(s, v, j, m), r = s[j].group
        PROVE  r = SlotOwner(cfg, v) /\ r \in GroupNames(cfg)
    <3>1. j \in MappingOf(cfg, v) /\ \A k \in MappingOf(cfg, v) : k <= j
      BY <1>1, <2>2, <2>3 DEF LastMapping
    <3>2. MappingOf(cfg, v) \in SUBSET (0..m) /\ MappingOf(cfg, v) # {}
      BY <2>2, <3>1
    <3>3. Max(MappingOf(cfg, v)) \in MappingOf(cfg, v) /\ Max(MappingOf(cfg, v)) >= j
      BY <1>1, <3>1, <3>2, Greatest
    <3>4. Max(MappingOf(cfg, v)) = j
      <4>1. Max(MappingOf(cfg, v)) <= j /\ Max(MappingOf(cfg, v)) \in 1..m
        BY <2>2, <3>1, <3>3
      <4> QED BY <1>1, <3>3, <4>1
    <3>5. SlotOwner(cfg, v) = s[j].group
      BY <3>2, <3>4 DEF SlotOwner
    <3> QED BY <2>3, <3>5 DEF Dealt
  <2>4. ASSUME Unmapped(s, v, m), NEW g \in DOMAIN cfg.groups, v \in Covered(cfg, g), r = cfg.groups[g].name
        PROVE  r = SlotOwner(cfg, v) /\ r \in GroupNames(cfg)
    <3>1. MappingOf(cfg, v) = {}
      BY <2>2, <2>4 DEF Unmapped
    <3> DEFINE c == CHOOSE x \in ToSet(cfg.groups) : v \in x.hashMin..x.hashMax
    <3>2. cfg.groups[g] \in ToSet(cfg.groups) /\ v \in cfg.groups[g].hashMin..cfg.groups[g].hashMax
      BY <2>4 DEF ToSet, Covered
    <3>3. c \in ToSet(cfg.groups) /\ v \in c.hashMin..c.hashMax
      BY <3>2
    <3> HIDE DEF c
    <3>4. PICK h \in DOMAIN cfg.groups : c = cfg.groups[h]
      BY <1>1, <3>3 DEF ToSet
    <3>5. v \in Covered(cfg, h)
      BY <3>3, <3>4 DEF Covered
    <3>6. h = g
      <4>1. \A x \in DOMAIN cfg.groups : \A y \in 1..(x - 1) :
              Covered(cfg, x) \intersect Covered(cfg, y) = {}
        BY DEF Dealt
      <4>2. ~(h < g)
        <5>1. h < g => h \in 1..(g - 1)
          BY <1>1
        <5> QED BY <2>4, <3>5, <4>1, <5>1
      <4>3. ~(g < h)
        <5>1. g < h => g \in 1..(h - 1)
          BY <1>1
        <5> QED BY <2>4, <3>5, <4>1, <5>1
      <4> QED BY <1>1, <4>2, <4>3
    <3>7. SlotOwner(cfg, v) = c.name
      BY <3>1 DEF SlotOwner, c
    <3> QED BY <2>4, <3>4, <3>6, <3>7 DEF GroupNames
  <2>5. r = SlotOwner(cfg, v) /\ r \in GroupNames(cfg)
    BY <2>1, <2>3, <2>4 DEF SlotDone
  <2> QED BY <2>5 DEF r
<1>4. slotTable(cfg) = [n \in Slots(cfg) |-> slotTable(cfg)[n]]
  BY <1>2
<1>5. slotTable(cfg) = [n \in Slots(cfg) |-> SlotOwner(cfg, n)]
  BY <1>3, <1>4
<1> QED BY <1>2, <1>3, <1>5 DEF Slots

\* The key table has the first group of each key.
LEMMA KeysAsConfigured ==
    ASSUME NEW cfg, cfg.keyMapping \in Seq(ToSet(cfg.keyMapping))
    PROVE  /\ DOMAIN keyTable(cfg) = {e.key : e \in ToSet(cfg.keyMapping)} \ {""}
           /\ \A k \in DOMAIN keyTable(cfg) : keyTable(cfg)[k] = cfg.keyMapping[Min(EntriesOf(cfg, k))].group
           /\ \A k \in DOMAIN keyTable(cfg) : \E j \in DOMAIN cfg.keyMapping :
                keyTable(cfg)[k] = cfg.keyMapping[j].group
<1> DEFINE s == cfg.keyMapping
<1>1. Len(s) \in Nat /\ DOMAIN s = 1..Len(s)
  OBVIOUS
<1>2. ASSUME NEW x \in DOMAIN keyTable(cfg)
      PROVE  /\ keyTable(cfg)[x] = s[Min(EntriesOf(cfg, x))].group
             /\ \E j \in DOMAIN s : keyTable(cfg)[x] = s[j].group
  <2>1. PICK j \in DOMAIN s : FirstEntry(s, x, j) /\ keyTable(cfg)[x] = s[j].group
    BY KeyTableIs
  <2>2. EntriesOf(cfg, x) = {k \in 1..Len(s) : s[k].key = x}
    BY <1>1 DEF EntriesOf
  <2>3. j \in EntriesOf(cfg, x) /\ \A k \in EntriesOf(cfg, x) : j <= k
    BY <1>1, <2>1, <2>2 DEF FirstEntry
  <2>4. EntriesOf(cfg, x) \in SUBSET Nat /\ EntriesOf(cfg, x) # {}
    BY <2>2, <2>3
  <2>5. Min(EntriesOf(cfg, x)) \in EntriesOf(cfg, x) /\ Min(EntriesOf(cfg, x)) <= j
    BY <2>3, <2>4, MinIsLeast
  <2>6. Min(EntriesOf(cfg, x)) = j
    <3>1. Min(EntriesOf(cfg, x)) \in Nat /\ j \in Nat /\ j <= Min(EntriesOf(cfg, x))
      BY <2>3, <2>4, <2>5
    <3> QED BY <2>5, <3>1
  <2> QED BY <2>1, <2>6
<1>3. DOMAIN keyTable(cfg) = {e.key : e \in ToSet(s)} \ {""}
  BY KeyTableIs
<1> QED BY <1>2, <1>3

-----------------------------------------------------------------------------
(* The continuum of the twemproxy mode.                                    *)

\* The points of a group, and of all groups.
PointsOf(name) == {[value |-> Ketama[name][k], group |-> name] : k \in DOMAIN Ketama[name]}

Points(cfg) == UNION {PointsOf(cfg.groups[g].name) : g \in DOMAIN cfg.groups}

\* The points are finitely many.
LEMMA PointsFinite ==
    ASSUME NEW cfg, cfg.groups \in Seq(ToSet(cfg.groups)),
           \A g \in DOMAIN cfg.groups : cfg.groups[g].name \in DOMAIN Ketama
    PROVE  IsFiniteSet(Points(cfg))
<1>1. ASSUME NEW name \in DOMAIN Ketama PROVE IsFiniteSet(PointsOf(name))
  <2> DEFINE f == [k \in DOMAIN Ketama[name] |-> [value |-> Ketama[name][k], group |-> name]]
  <2>1. Ketama[name] \in Seq(Nat)
    BY KetamaAssumption
  <2>2. Len(Ketama[name]) \in Nat /\ DOMAIN Ketama[name] = 1..Len(Ketama[name])
    BY <2>1
  <2>3. IsFiniteSet(DOMAIN Ketama[name])
    BY <2>2, FS_Interval
  <2>4. PointsOf(name) = {f[k] : k \in DOMAIN Ketama[name]}
    BY DEF PointsOf
  <2> HIDE DEF f
  <2> QED BY <2>3, <2>4, FiniteImage
<1> DEFINE F == [g \in DOMAIN cfg.groups |-> PointsOf(cfg.groups[g].name)]
           U == {F[g] : g \in DOMAIN cfg.groups}
<1>2. IsFiniteSet(DOMAIN cfg.groups)
  <2>1. Len(cfg.groups) \in Nat /\ DOMAIN cfg.groups = 1..Len(cfg.groups)
    OBVIOUS
  <2> QED BY <2>1, FS_Interval
<1>3. IsFiniteSet(U)
  <2> HIDE DEF F
  <2> QED BY <1>2, FiniteImage
<1>4. \A T \in U : IsFiniteSet(T)
  BY <1>1
<1>5. Points(cfg) = UNION U
  BY DEF Points
<1> HIDE DEF U
<1> QED BY <1>3, <1>4, <1>5, FS_UNION

\* The continuum has as many slots as there are points, each with a group of the file.
LEMMA ContinuumGroups ==
    ASSUME NEW cfg, cfg.groups \in Seq(ToSet(cfg.groups)),
           \A g \in DOMAIN cfg.groups : cfg.groups[g].name \in DOMAIN Ketama
    PROVE  /\ Cardinality(Points(cfg)) \in Nat
           /\ Continuum(cfg) \in [0..(Cardinality(Points(cfg)) - 1) -> GroupNames(cfg)]
<1> DEFINE P == Points(cfg)
           before(p) == {q \in P : q.value < p.value}
           pick(n) == CHOOSE p \in P : Cardinality(before(p)) = n
           c == Cardinality(P)
<1>1. IsFiniteSet(P)
  BY PointsFinite
<1>2. ASSUME NEW p \in P
      PROVE  \E g \in DOMAIN cfg.groups : \E k \in DOMAIN Ketama[cfg.groups[g].name] :
               p = [value |-> Ketama[cfg.groups[g].name][k], group |-> cfg.groups[g].name]
  BY DEF Points, PointsOf
<1>3. \A p \in P : p.value \in Nat /\ p.group \in GroupNames(cfg)
  <2> SUFFICES ASSUME NEW p \in P PROVE p.value \in Nat /\ p.group \in GroupNames(cfg)
    OBVIOUS
  <2>1. PICK g \in DOMAIN cfg.groups : \E k \in DOMAIN Ketama[cfg.groups[g].name] :
               p = [value |-> Ketama[cfg.groups[g].name][k], group |-> cfg.groups[g].name]
    BY <1>2
  <2>2. PICK k \in DOMAIN Ketama[cfg.groups[g].name] :
               p = [value |-> Ketama[cfg.groups[g].name][k], group |-> cfg.groups[g].name]
    BY <2>1
  <2>3. Ketama[cfg.groups[g].name] \in Seq(Nat)
    BY KetamaAssumption
  <2>4. Ketama[cfg.groups[g].name][k] \in Nat
    BY <2>3
  <2> QED BY <2>2, <2>4 DEF GroupNames
<1>4. ASSUME NEW p \in P, NEW q \in P, p # q PROVE p.value # q.value
  <2>1. PICK g \in DOMAIN cfg.groups : \E k \in DOMAIN Ketama[cfg.groups[g].name] :
               p = [value |-> Ketama[cfg.groups[g].name][k], group |-> cfg.groups[g].name]
    BY <1>2
  <2>2. PICK k \in DOMAIN Ketama[cfg.groups[g].name] :
               p = [value |-> Ketama[cfg.groups[g].name][k], group |-> cfg.groups[g].name]
    BY <2>1
  <2>3. PICK h \in DOMAIN cfg.groups : \E j \in DOMAIN Ketama[cfg.groups[h].name] :
               q = [value |-> Ketama[cfg.groups[h].name][j], group |-> cfg.groups[h].name]
    BY <1>2
  <2>4. PICK j \in DOMAIN Ketama[cfg.groups[h].name] :
               q = [value |-> Ketama[cfg.groups[h].name][j], group |-> cfg.groups[h].name]
    BY <2>3
  <2>5. p.value = Ketama[cfg.groups[g].name][k] /\ q.value = Ketama[cfg.groups[h].name][j]
    BY <2>2, <2>4
  <2>6. ASSUME p.value = q.value PROVE cfg.groups[g].name = cfg.groups[h].name /\ k = j
    <3> DEFINE a == cfg.groups[g].name
               b == cfg.groups[h].name
    <3>1. a \in DOMAIN Ketama /\ b \in DOMAIN Ketama
      OBVIOUS
    <3>2. k \in DOMAIN Ketama[a] /\ j \in DOMAIN Ketama[b] /\ Ketama[a][k] = Ketama[b][j]
      BY <2>5, <2>6
    <3> HIDE DEF a, b
    <3>3. a = b /\ k = j
      BY <3>1, <3>2, KetamaAssumption
    <3> QED BY <3>3 DEF a, b
  <2> QED BY <1>4, <2>2, <2>4, <2>6
<1> HIDE DEF P
<1> DEFINE R == {e \in P \X P : e[1].value < e[2].value}
<1>5. \A p, q \in P : <<p, q>> \in R <=> p.value < q.value
  OBVIOUS
<1>6. \A p \in P : {q \in P : <<q, p>> \in R} = before(p)
  BY <1>5
<1>7. /\ \A p \in P : <<p, p>> \notin R
      /\ \A x, y, z \in P : <<x, y>> \in R /\ <<y, z>> \in R => <<x, z>> \in R
      /\ \A x, y \in P : x # y => <<x, y>> \in R \/ <<y, x>> \in R
  <2>1. \A p \in P : ~(p.value < p.value)
    BY <1>3
  <2>2. \A x, y, z \in P : x.value < y.value /\ y.value < z.value => x.value < z.value
    BY <1>3
  <2>3. \A x, y \in P : x # y => x.value < y.value \/ y.value < x.value
    BY <1>3, <1>4
  <2> HIDE DEF R
  <2> QED BY <1>5, <2>1, <2>2, <2>3
<1> HIDE DEF R
<1>8. c \in Nat /\ \A n \in 0..(c - 1) : \E p \in P : Cardinality({q \in P : <<q, p>> \in R}) = n
  <2> DEFINE Place(p) == Cardinality({q \in P : <<q, p>> \in R})
  <2>1. c \in Nat /\ \A n \in 0..(c - 1) : \E p \in P : Place(p) = n
    BY <1>1, <1>7, InOrder
  <2> QED BY <2>1
<1>9. ASSUME NEW n \in 0..(c - 1) PROVE pick(n).group \in GroupNames(cfg)
  <2>1. \E p \in P : Cardinality(before(p)) = n
    <3>1. PICK p \in P : Cardinality({q \in P : <<q, p>> \in R}) = n
      BY <1>8
    <3>2. {q \in P : <<q, p>> \in R} = before(p)
      BY <1>6
    <3> QED BY <3>1, <3>2
  <2> HIDE DEF before
  <2>2. pick(n) \in P
    BY <2>1
  <2> HIDE DEF pick
  <2> QED BY <1>3, <2>2
<1>10. Continuum(cfg) = [n \in 0..(c - 1) |-> pick(n).group]
  BY DEF Continuum, P, Points, PointsOf
<1> HIDE DEF pick, c
<1> QED BY <1>8, <1>9, <1>10 DEF P, c

-----------------------------------------------------------------------------
(* The groups and their hosts.                                             *)

\* The groups that are built from info.
Built(info, N) ==
    [name : {info.name}, policy : {createPolicy(info.policy)}, m_master : Seq(N), m_slaver : Seq(N)]

\* A list with one more server, if there is room.
Grown(list, name) == IF Len(list) >= MaxServantCount THEN list ELSE Append(list, name)

\* A host is added to the list of its role.
LEMMA AddServer ==
    ASSUME NEW info, NEW N, NEW a \in Built(info, N), NEW host, host.master \in BOOLEAN, host.name \in N
    PROVE  /\ addServer(a, host) \in Built(info, N)
           /\ addServer(a, host).m_master = IF host.master THEN Grown(a.m_master, host.name) ELSE a.m_master
           /\ addServer(a, host).m_slaver = IF host.master THEN a.m_slaver ELSE Grown(a.m_slaver, host.name)
<1>1. a.m_master \in Seq(N) /\ a.m_slaver \in Seq(N)
  BY DEF Built
<1>2. Append(a.m_master, host.name) \in Seq(N) /\ Append(a.m_slaver, host.name) \in Seq(N)
  BY <1>1
<1>3. CASE host.master
  <2>1. addServer(a, host) =
          IF Len(a.m_master) >= MaxServantCount THEN a
          ELSE [a EXCEPT !.m_master = Append(a.m_master, host.name)]
    BY <1>3 DEF addServer
  <2> QED BY <1>1, <1>2, <1>3, <2>1 DEF Built, Grown
<1>4. CASE ~host.master
  <2>1. addServer(a, host) =
          IF Len(a.m_slaver) >= MaxServantCount THEN a
          ELSE [a EXCEPT !.m_slaver = Append(a.m_slaver, host.name)]
    BY <1>4 DEF addServer
  <2> QED BY <1>1, <1>2, <1>4, <2>1 DEF Built, Grown
<1> QED BY <1>3, <1>4

IsHosts(hosts) == hosts \in Seq(ToSet(hosts)) /\ \A k \in DOMAIN hosts : hosts[k].master \in BOOLEAN

HostNames(hosts) == {hosts[k].name : k \in DOMAIN hosts}

\* BuildGroup adds one server after the other.
LEMMA GroupFold ==
    ASSUME NEW info, IsHosts(info.hosts)
    PROVE  \E t : /\ t[0] = [name |-> info.name, policy |-> createPolicy(info.policy),
                             m_master |-> <<>>, m_slaver |-> <<>>]
                  /\ \A k \in 0..(Len(info.hosts) - 1) : t[k + 1] = addServer(t[k], info.hosts[k + 1])
                  /\ t[Len(info.hosts)] = BuildGroup(info)
<1> DEFINE s == info.hosts
           n == Len(s)
           A == Built(info, HostNames(s))
           base == [name |-> info.name, policy |-> createPolicy(info.policy),
                    m_master |-> <<>>, m_slaver |-> <<>>]
           op(a, k) == addServer(a, s[k])
           step == [p \in A \X (1..n) |-> op(p[1], p[2])]
           F == CHOOSE f : f = [S \in SUBSET (1..n) |->
                                  IF S = {} THEN base ELSE op(f[S \ {Max(S)}], Max(S))]
<1>1. n \in Nat /\ DOMAIN s = 1..n
  BY DEF IsHosts
<1>2. base \in A
  BY DEF Built
<1>3. ASSUME NEW a \in A, NEW k \in 1..n PROVE op(a, k) \in A
  <2>1. s[k].master \in BOOLEAN /\ s[k].name \in HostNames(s)
    BY <1>1 DEF IsHosts, HostNames
  <2> QED BY <2>1, AddServer
<1>4. BuildGroup(info) = F[1..n]
  <2>1. DOMAIN s = 1..n
    BY <1>1
  <2> QED BY <2>1 DEF BuildGroup, FoldLeft, MapThenFoldSet
<1>5. step \in [A \X (1..n) -> A]
  <2> HIDE DEF A, op
  <2>1. \A p \in A \X (1..n) : op(p[1], p[2]) \in A
    BY <1>3
  <2> QED BY <2>1
<1>6. \A a \in A, k \in 1..n : step[<<a, k>>] = op(a, k)
  <2> HIDE DEF A, op
  <2> QED OBVIOUS
<1> HIDE DEF A, base, op, step, n
<1>7. PICK h : IsFold(h, n, A, base, step)
  BY <1>1, <1>2, <1>5, FoldExists
<1>8. h = [S \in SUBSET (1..n) |-> IF S = {} THEN base ELSE op(h[S \ {Max(S)}], Max(S))]
  <2>1. ASSUME NEW S \in SUBSET (1..n), S # {}
        PROVE  step[<<h[S \ {Max(S)}], Max(S)>>] = op(h[S \ {Max(S)}], Max(S))
    <3>1. Max(S) \in S
      <4>1. S \in SUBSET (0..n)
        BY <1>1
      <4> HIDE DEF F
      <4> QED BY <1>1, <2>1, <4>1, Greatest
    <3>2. h[S \ {Max(S)}] \in A
      BY <1>7 DEF IsFold
    <3> QED BY <1>6, <3>1, <3>2
  <2>2. h = [S \in SUBSET (1..n) |-> h[S]]
    BY <1>7 DEF IsFold
  <2> QED BY <1>7, <2>1, <2>2 DEF IsFold
<1>9. \A S \in SUBSET (1..n) : F[S] = IF S = {} THEN base ELSE op(F[S \ {Max(S)}], Max(S))
  <2>1. F = [S \in SUBSET (1..n) |-> IF S = {} THEN base ELSE op(F[S \ {Max(S)}], Max(S))]
    BY <1>8
  <2> HIDE DEF F
  <2> QED BY <2>1
<1> HIDE DEF F
<1> DEFINE t == [k \in 0..n |-> F[1..k]]
<1>10. t[0] = base
  <2>1. 1..0 = {} /\ {} \in SUBSET (1..n) /\ 0 \in 0..n
    BY <1>1
  <2>2. F[{}] = base
    BY <1>9, <2>1
  <2>3. t[0] = F[1..0]
    BY <2>1
  <2> QED BY <2>1, <2>2, <2>3
<1>11. ASSUME NEW k \in 0..(n - 1) PROVE t[k + 1] = op(t[k], k + 1)
  <2>1. t[k + 1] = F[1..(k + 1)] /\ t[k] = F[1..k]
    BY <1>1
  <2>2. F[1..(k + 1)] = op(F[1..k], k + 1)
    <3> DEFINE S == 1..(k + 1)
    <3>1. S \in SUBSET (1..n) /\ S # {} /\ Max(S) = k + 1 /\ S \ {k + 1} = 1..k
      BY <1>1, PrefixMax
    <3> HIDE DEF S
    <3>2. F[S] = op(F[S \ {Max(S)}], Max(S))
      BY <1>9, <3>1
    <3> QED BY <3>1, <3>2 DEF S
  <2> QED BY <2>1, <2>2
<1>12. t[n] = BuildGroup(info)
  BY <1>1, <1>4
<1> HIDE DEF t
<1> QED BY <1>10, <1>11, <1>12 DEF base, op, n, s

\* The hosts of a role among the first k.
Role(hosts, master, k) == {j \in 1..k : hosts[j].master = master}

\* One more host has the role, or none.
LEMMA RoleGrows ==
    ASSUME NEW hosts, NEW master, NEW k \in Nat
    PROVE  /\ IsFiniteSet(Role(hosts, master, k))
           /\ Cardinality(Role(hosts, master, k)) \in 0..k
           /\ hosts[k + 1].master = master =>
                Role(hosts, master, k + 1) = Role(hosts, master, k) \union {k + 1}
           /\ hosts[k + 1].master = master =>
                Cardinality(Role(hosts, master, k + 1)) = Cardinality(Role(hosts, master, k)) + 1
           /\ hosts[k + 1].master # master => Role(hosts, master, k + 1) = Role(hosts, master, k)
<1>1. IsFiniteSet(1..k) /\ Cardinality(1..k) = k /\ Role(hosts, master, k) \in SUBSET (1..k)
  BY FS_Interval DEF Role
<1>2. IsFiniteSet(Role(hosts, master, k)) /\ Cardinality(Role(hosts, master, k)) <= k
  BY <1>1, FS_Subset
<1>3. Cardinality(Role(hosts, master, k)) \in Nat
  BY <1>2, FS_CardinalityType
<1>4. hosts[k + 1].master = master =>
        Role(hosts, master, k + 1) = Role(hosts, master, k) \union {k + 1}
  BY DEF Role
<1>5. hosts[k + 1].master # master => Role(hosts, master, k + 1) = Role(hosts, master, k)
  BY DEF Role
<1>6. k + 1 \notin Role(hosts, master, k)
  BY DEF Role
<1>7. Cardinality(Role(hosts, master, k) \union {k + 1}) = Cardinality(Role(hosts, master, k)) + 1
  BY <1>2, <1>6, FS_AddElement
<1>8. Cardinality(Role(hosts, master, k)) \in 0..k
  BY <1>2, <1>3
<1>9. hosts[k + 1].master = master =>
        Cardinality(Role(hosts, master, k + 1)) = Cardinality(Role(hosts, master, k)) + 1
  BY <1>4, <1>7
<1> QED BY <1>2, <1>4, <1>5, <1>8, <1>9, Zenon

\* A list has the hosts of a role among the first k, in order.
Listed(list, hosts, master, k) ==
    /\ Len(list) = Cardinality(Role(hosts, master, k))
    /\ \A j \in Role(hosts, master, k) : list[Cardinality(Role(hosts, master, j))] = hosts[j].name

\* A host's place is among those of its role.
LEMMA PlaceInList ==
    ASSUME NEW hosts, NEW master, NEW k \in Nat, NEW j \in Role(hosts, master, k)
    PROVE  Cardinality(Role(hosts, master, j)) \in 1..Cardinality(Role(hosts, master, k))
<1>1. j \in 1..k /\ j \in Nat /\ j \in Role(hosts, master, j)
  BY DEF Role
<1>2. Role(hosts, master, j) \in SUBSET Role(hosts, master, k)
  BY <1>1 DEF Role
<1>3. IsFiniteSet(Role(hosts, master, k)) /\ IsFiniteSet(Role(hosts, master, j))
      /\ Cardinality(Role(hosts, master, k)) \in Nat /\ Cardinality(Role(hosts, master, j)) \in Nat
  BY <1>1, RoleGrows
<1>4. Cardinality(Role(hosts, master, j)) <= Cardinality(Role(hosts, master, k))
  BY <1>2, <1>3, FS_Subset
<1>5. Cardinality(Role(hosts, master, j)) # 0
  BY <1>1, <1>3, FS_EmptySet
<1> QED BY <1>3, <1>4, <1>5

\* A list in order stays so when the next host is added, while there is room.
LEMMA ListGrows ==
    ASSUME NEW hosts, NEW master, NEW k \in Nat, NEW list, NEW N, list \in Seq(N), hosts[k + 1].name \in N,
           Listed(list, hosts, master, k), k < MaxServantCount
    PROVE  /\ hosts[k + 1].master = master => Listed(Grown(list, hosts[k + 1].name), hosts, master, k + 1)
           /\ hosts[k + 1].master # master => Listed(list, hosts, master, k + 1)
<1> DEFINE c == Cardinality(Role(hosts, master, k))
           name == hosts[k + 1].name
<1>1. c \in 0..k /\ Len(list) = c
  BY RoleGrows DEF Listed
<1>2. ASSUME hosts[k + 1].master = master
      PROVE  Listed(Grown(list, name), hosts, master, k + 1)
  <2>1. Grown(list, name) = Append(list, name)
    BY <1>1, ServantCountAssumption DEF Grown
  <2>2. /\ Role(hosts, master, k + 1) = Role(hosts, master, k) \union {k + 1}
        /\ Cardinality(Role(hosts, master, k + 1)) = c + 1
    BY <1>2, RoleGrows
  <2>3. Len(Append(list, name)) = c + 1
    BY <1>1
  <2>4. Append(list, name)[c + 1] = name
    BY <1>1
  <2>5. ASSUME NEW j \in Role(hosts, master, k)
        PROVE  Append(list, name)[Cardinality(Role(hosts, master, j))] = hosts[j].name
    <3>1. Cardinality(Role(hosts, master, j)) \in 1..c
      BY PlaceInList
    <3>2. Append(list, name)[Cardinality(Role(hosts, master, j))] = list[Cardinality(Role(hosts, master, j))]
      BY <1>1, <3>1
    <3> QED BY <3>2 DEF Listed
  <2> HIDE DEF name, c
  <2> QED BY <2>1, <2>2, <2>3, <2>4, <2>5 DEF Listed, name
<1>3. ASSUME hosts[k + 1].master # master PROVE Listed(list, hosts, master, k + 1)
  <2>1. Role(hosts, master, k + 1) = Role(hosts, master, k)
    BY <1>3, RoleGrows
  <2> QED BY <2>1 DEF Listed
<1> QED BY <1>2, <1>3

\* A group has every host of the file in one role, if they are not too many.
LEMMA BuiltInFileOrder ==
    ASSUME NEW info, IsHosts(info.hosts)
    PROVE  /\ BuildGroup(info).name = info.name
           /\ Len(info.hosts) <= MaxServantCount =>
                /\ InFileOrder(BuildGroup(info).m_master, info.hosts, TRUE)
                /\ InFileOrder(BuildGroup(info).m_slaver, info.hosts, FALSE)
<1> DEFINE s == info.hosts
           n == Len(s)
           N == HostNames(s)
<1>1. n \in Nat /\ DOMAIN s = 1..n
  BY DEF IsHosts
<1>2. PICK t : /\ t[0] = [name |-> info.name, policy |-> createPolicy(info.policy),
                          m_master |-> <<>>, m_slaver |-> <<>>]
               /\ \A k \in 0..(n - 1) : t[k + 1] = addServer(t[k], s[k + 1])
               /\ t[n] = BuildGroup(info)
  BY GroupFold
<1> HIDE DEF n, N
<1> DEFINE Good(k) == /\ t[k] \in Built(info, N)
                      /\ n <= MaxServantCount =>
                           Listed(t[k].m_master, s, TRUE, k) /\ Listed(t[k].m_slaver, s, FALSE, k)
           G == {k \in 0..n : Good(k)}
<1>3. 0 \in G
  <2>1. t[0] \in Built(info, N) /\ t[0].m_master = <<>> /\ t[0].m_slaver = <<>>
    BY <1>2 DEF Built
  <2>2. \A master : Role(s, master, 0) = {}
    BY DEF Role
  <2>3. ASSUME NEW master PROVE Listed(<<>>, s, master, 0)
    <3>1. Role(s, master, 0) = {} /\ Cardinality({}) = 0
      BY <2>2, FS_EmptySet
    <3>2. Len(<<>>) = Cardinality(Role(s, master, 0))
      BY <3>1
    <3> HIDE DEF s
    <3> QED BY <3>1, <3>2 DEF Listed
  <2>4. Listed(<<>>, s, TRUE, 0) /\ Listed(<<>>, s, FALSE, 0)
    BY <2>3
  <2>5. Good(0)
    BY <2>1, <2>4
  <2> HIDE DEF Good
  <2> QED BY <1>1, <2>5
<1>4. ASSUME NEW k \in 0..(n - 1), k \in G PROVE k + 1 \in G
  <2>1. k \in Nat /\ k + 1 \in 1..n /\ k + 1 \in 0..n /\ k < n
    BY <1>1
  <2>2. t[k] \in Built(info, N) /\ t[k + 1] = addServer(t[k], s[k + 1])
    BY <1>2, <1>4
  <2>3. s[k + 1].master \in BOOLEAN /\ s[k + 1].name \in N
    BY <1>1, <2>1 DEF IsHosts, HostNames, N
  <2>4. /\ t[k + 1] \in Built(info, N)
        /\ t[k + 1].m_master = IF s[k + 1].master THEN Grown(t[k].m_master, s[k + 1].name) ELSE t[k].m_master
        /\ t[k + 1].m_slaver = IF s[k + 1].master THEN t[k].m_slaver ELSE Grown(t[k].m_slaver, s[k + 1].name)
    BY <2>2, <2>3, AddServer
  <2>5. t[k].m_master \in Seq(N) /\ t[k].m_slaver \in Seq(N)
    BY <2>2 DEF Built
  <2>6. ASSUME n <= MaxServantCount
        PROVE  Listed(t[k + 1].m_master, s, TRUE, k + 1) /\ Listed(t[k + 1].m_slaver, s, FALSE, k + 1)
    <3>1. k < MaxServantCount
      BY <1>1, <2>1, <2>6, ServantCountAssumption
    <3>2. Listed(t[k].m_master, s, TRUE, k) /\ Listed(t[k].m_slaver, s, FALSE, k)
      BY <1>4, <2>6
    <3>3. /\ s[k + 1].master = TRUE => Listed(Grown(t[k].m_master, s[k + 1].name), s, TRUE, k + 1)
          /\ s[k + 1].master # TRUE => Listed(t[k].m_master, s, TRUE, k + 1)
      BY <2>1, <2>3, <2>5, <3>1, <3>2, ListGrows
    <3>4. /\ s[k + 1].master = FALSE => Listed(Grown(t[k].m_slaver, s[k + 1].name), s, FALSE, k + 1)
          /\ s[k + 1].master # FALSE => Listed(t[k].m_slaver, s, FALSE, k + 1)
      BY <2>1, <2>3, <2>5, <3>1, <3>2, ListGrows
    <3> QED BY <2>3, <2>4, <3>3, <3>4
  <2> QED BY <2>1, <2>4, <2>6
<1>5. n \in G
  <2> HIDE DEF G
  <2>1. \A k \in 0..n : k \in G
    BY <1>1, <1>3, <1>4, InductTo
  <2> QED BY <1>1, <2>1
<1>6. Good(n)
  BY <1>5
<1>7. ASSUME NEW list, NEW master, Listed(list, s, master, n) PROVE InFileOrder(list, s, master)
  <2>1. Role(s, master, n) = {k \in DOMAIN s : s[k].master = master}
    BY <1>1 DEF Role
  <2>2. \A k \in 1..n : Role(s, master, k) = Role(s, master, n) \intersect 1..k
    BY <1>1 DEF Role
  <2>3. \A k \in Role(s, master, n) : list[Cardinality(Role(s, master, n) \intersect 1..k)] = s[k].name
    <3> SUFFICES ASSUME NEW k \in Role(s, master, n)
                 PROVE  list[Cardinality(Role(s, master, n) \intersect 1..k)] = s[k].name
      OBVIOUS
    <3>1. k \in 1..n
      BY DEF Role
    <3>2. Role(s, master, k) = Role(s, master, n) \intersect 1..k
      BY <2>2, <3>1
    <3>3. list[Cardinality(Role(s, master, k))] = s[k].name
      BY <1>7 DEF Listed
    <3> QED BY <3>2, <3>3
  <2>4. Len(list) = Cardinality(Role(s, master, n))
    BY <1>7 DEF Listed
  <2> QED BY <2>1, <2>3, <2>4 DEF InFileOrder
<1>8. BuildGroup(info).name = info.name
  BY <1>2, <1>6 DEF Built
<1> QED BY <1>2, <1>6, <1>7, <1>8 DEF n

-----------------------------------------------------------------------------
(* Reading a document: loadCfg.                                            *)

\* The nodes of a document that have a name, collected one after the other.
IsCollection(t, nodes, tag) ==
    /\ t[0] = <<>>
    /\ \A k \in 0..(Len(nodes) - 1) :
         t[k + 1] = IF nodes[k + 1].tag = tag THEN Append(t[k], nodes[k + 1]) ELSE t[k]

Named(nodes, tag) == {n \in ToSet(nodes) : n.tag = tag}

\* Children collects the nodes of a name one after the other.
LEMMA ChildrenFold ==
    ASSUME NEW doc, NEW tag, IsSeq(doc.nodes)
    PROVE  \E t : /\ t \in [0..Len(doc.nodes) -> Seq(Named(doc.nodes, tag))]
                  /\ IsCollection(t, doc.nodes, tag)
                  /\ t[Len(doc.nodes)] = Children(doc, tag)
<1> DEFINE s == doc.nodes
           n == Len(s)
           A == Seq(Named(s, tag))
           op(a, k) == IF s[k].tag = tag THEN Append(a, s[k]) ELSE a
           step == [p \in A \X (1..n) |-> op(p[1], p[2])]
           F == CHOOSE f : f = [k \in 0..n |-> IF k = 0 THEN <<>>
                                               ELSE IF s[k].tag = tag THEN Append(f[k - 1], s[k])
                                               ELSE f[k - 1]]
<1>1. n \in Nat /\ DOMAIN s = 1..n
  BY DEF IsSeq
<1>2. <<>> \in A
  OBVIOUS
<1>3. ASSUME NEW a \in A, NEW k \in 1..n PROVE op(a, k) \in A
  <2>1. s[k] \in ToSet(s)
    BY <1>1 DEF ToSet
  <2>2. CASE s[k].tag = tag
    <3>1. s[k] \in Named(s, tag)
      BY <2>1, <2>2 DEF Named
    <3>2. Append(a, s[k]) \in A
      BY <3>1, AppendProperties
    <3> QED BY <2>2, <3>2
  <2>3. CASE s[k].tag # tag
    BY <2>3
  <2> QED BY <2>2, <2>3
<1>4. Children(doc, tag) = F[n]
  BY DEF Children
<1>5. step \in [A \X (1..n) -> A]
  <2> HIDE DEF A, op
  <2>1. \A p \in A \X (1..n) : op(p[1], p[2]) \in A
    BY <1>3
  <2> QED BY <2>1
<1>6. \A a \in A, k \in 1..n : step[<<a, k>>] = op(a, k)
  <2> HIDE DEF A, op
  <2> QED OBVIOUS
<1> HIDE DEF A, step, n, s
<1>7. PICK h : IsRecursion(h, n, A, <<>>, step)
  BY <1>1, <1>2, <1>5, RecursionExists
<1>8. h = [k \in 0..n |-> IF k = 0 THEN <<>>
                          ELSE IF s[k].tag = tag THEN Append(h[k - 1], s[k]) ELSE h[k - 1]]
  <2>1. ASSUME NEW k \in 0..n, k # 0 PROVE step[<<h[k - 1], k>>] = op(h[k - 1], k)
    <3>1. k \in 1..n /\ k - 1 \in 0..n
      BY <1>1, <2>1
    <3>2. h[k - 1] \in A
      BY <1>7, <3>1 DEF IsRecursion
    <3> HIDE DEF op
    <3> QED BY <1>6, <3>1, <3>2
  <2>2. h = [k \in 0..n |-> h[k]]
    BY <1>7 DEF IsRecursion
  <2>3. ASSUME NEW k \in 0..n
        PROVE  h[k] = IF k = 0 THEN <<>>
                      ELSE IF s[k].tag = tag THEN Append(h[k - 1], s[k]) ELSE h[k - 1]
    BY <1>7, <2>1 DEF IsRecursion
  <2> QED BY <2>2, <2>3
<1>9. F = [k \in 0..n |-> IF k = 0 THEN <<>>
                          ELSE IF s[k].tag = tag THEN Append(F[k - 1], s[k]) ELSE F[k - 1]]
  BY <1>8
<1> HIDE DEF F, op
<1>10. IsCollection(F, s, tag)
  <2>1. F[0] = <<>>
    BY <1>1, <1>9
  <2>2. ASSUME NEW k \in 0..(n - 1)
        PROVE  F[k + 1] = IF s[k + 1].tag = tag THEN Append(F[k], s[k + 1]) ELSE F[k]
    <3>1. k + 1 \in 0..n /\ k + 1 # 0 /\ (k + 1) - 1 = k
      BY <1>1
    <3> QED BY <1>9, <3>1
  <2> QED BY <2>1, <2>2 DEF IsCollection, n
<1>11. F \in [0..n -> A]
  <2> DEFINE T == {k \in 0..n : F[k] \in A}
  <2>1. 0 \in T
    BY <1>1, <1>2, <1>10 DEF IsCollection
  <2>2. ASSUME NEW k \in 0..(n - 1), k \in T PROVE k + 1 \in T
    <3>1. k + 1 \in 1..n /\ k + 1 \in 0..n
      BY <1>1
    <3>2. F[k + 1] = op(F[k], k + 1)
      BY <1>10 DEF IsCollection, op, n
    <3> QED BY <1>3, <2>2, <3>1, <3>2
  <2>3. \A k \in 0..n : k \in T
    <3> HIDE DEF T
    <3> QED BY <1>1, <2>1, <2>2, InductTo
  <2>4. F = [k \in 0..n |-> F[k]]
    BY <1>9
  <2> QED BY <2>3, <2>4
<1>12. F[n] = Children(doc, tag)
  BY <1>4
<1> QED BY <1>10, <1>11, <1>12 DEF n, s, A

\* The children of a name are nodes of the document.
LEMMA ChildrenAre ==
    ASSUME NEW doc, NEW tag, IsSeq(doc.nodes)
    PROVE  Children(doc, tag) \in Seq(Named(doc.nodes, tag))
<1>1. Len(doc.nodes) \in Nat
  BY DEF IsSeq
<1> QED BY <1>1, ChildrenFold

\* A setting has the type of the attribute and of the elements.
LEMMA SettingType ==
    ASSUME NEW doc, NEW tag, IsSeq(doc.nodes), NEW T, NEW attribute \in T,
           \A m \in ToSet(doc.nodes) : m.tag = tag => m.value \in T
    PROVE  Setting(doc, tag, attribute) \in T
<1> DEFINE c == Children(doc, tag)
<1>1. c \in Seq(Named(doc.nodes, tag))
  BY ChildrenAre
<1>2. CASE c = <<>>
  BY <1>2 DEF Setting
<1>3. CASE c # <<>>
  <2>1. Len(c) \in 1..Len(c)
    <3> HIDE DEF c
    <3> QED BY <1>1, <1>3
  <2>2. c[Len(c)] \in Named(doc.nodes, tag)
    <3> HIDE DEF c
    <3> QED BY <1>1, <2>1
  <2>3. c[Len(c)].value \in T
    BY <2>2 DEF Named
  <2> QED BY <1>3, <2>3 DEF Setting
<1> QED BY <1>2, <1>3

\* All nodes of the name are collected.
LEMMA ChildrenAll ==
    ASSUME NEW doc, NEW tag, IsSeq(doc.nodes)
    PROVE  ToSet(Children(doc, tag)) = Named(doc.nodes, tag)
<1> DEFINE s == doc.nodes
           n == Len(s)
           N == Named(s, tag)
           c == Children(doc, tag)
<1>1. n \in Nat /\ DOMAIN s = 1..n
  BY DEF IsSeq
<1>2. c \in Seq(N)
  BY ChildrenAre
<1>3. PICK t : t \in [0..n -> Seq(N)] /\ IsCollection(t, s, tag) /\ t[n] = c
  BY ChildrenFold
<1> HIDE DEF n, s, N, c
<1> DEFINE T == {k \in 0..n : \A j \in 1..k : s[j].tag = tag => s[j] \in ToSet(t[k])}
<1>4. 0 \in T
  BY <1>1
<1>5. ASSUME NEW k \in 0..(n - 1), k \in T PROVE k + 1 \in T
  <2>1. k \in Nat /\ k + 1 \in 1..n /\ k + 1 \in 0..n /\ k \in 0..n
    BY <1>1
  <2>2. t[k] \in Seq(N)
    BY <1>3, <2>1
  <2>3. s[k + 1].tag = tag => s[k + 1] \in N
    BY <1>1, <2>1 DEF Named, N, ToSet, s
  <2>4. CASE s[k + 1].tag = tag
    <3>1. t[k + 1] = Append(t[k], s[k + 1])
      BY <1>3, <2>4 DEF IsCollection, n
    <3>2. /\ DOMAIN t[k] = 1..Len(t[k]) /\ Len(t[k]) \in Nat
          /\ DOMAIN t[k + 1] = 1..(Len(t[k]) + 1)
          /\ \A i \in 1..Len(t[k]) : t[k + 1][i] = t[k][i]
          /\ t[k + 1][Len(t[k]) + 1] = s[k + 1]
      BY <2>2, <2>3, <2>4, <3>1
    <3>3. ToSet(t[k]) \subseteq ToSet(t[k + 1]) /\ s[k + 1] \in ToSet(t[k + 1])
      <4> HIDE DEF T
      <4>1. \A i \in DOMAIN t[k] : i \in DOMAIN t[k + 1] /\ t[k + 1][i] = t[k][i]
        BY <3>2
      <4>2. Len(t[k]) + 1 \in DOMAIN t[k + 1]
        BY <3>2
      <4>3. ASSUME NEW x \in ToSet(t[k]) PROVE x \in ToSet(t[k + 1])
        <5>1. PICK i \in DOMAIN t[k] : x = t[k][i]
          BY DEF ToSet
        <5> QED BY <4>1, <5>1 DEF ToSet
      <4> QED BY <3>2, <4>2, <4>3 DEF ToSet
    <3>4. ASSUME NEW j \in 1..(k + 1), s[j].tag = tag PROVE s[j] \in ToSet(t[k + 1])
      <4>1. CASE j = k + 1
        BY <3>3, <4>1
      <4>2. CASE j # k + 1
        <5>1. j \in 1..k
          BY <2>1, <4>2
        <5>2. s[j] \in ToSet(t[k])
          BY <1>5, <3>4, <5>1
        <5> HIDE DEF T
        <5> QED BY <3>3, <5>2
      <4> QED BY <4>1, <4>2
    <3> QED BY <2>1, <3>4
  <2>5. CASE s[k + 1].tag # tag
    <3>1. t[k + 1] = t[k]
      BY <1>3, <2>5 DEF IsCollection, n
    <3>2. ASSUME NEW j \in 1..(k + 1), s[j].tag = tag PROVE s[j] \in ToSet(t[k + 1])
      <4>1. j \in 1..k
        BY <2>1, <2>5, <3>2
      <4> QED BY <1>5, <3>1, <3>2, <4>1
    <3> QED BY <2>1, <3>2
  <2> QED BY <2>4, <2>5
<1>6. n \in T
  <2> HIDE DEF T
  <2>1. \A k \in 0..n : k \in T
    BY <1>1, <1>4, <1>5, InductTo
  <2> QED BY <1>1, <2>1
<1>7. ASSUME NEW x \in N PROVE x \in ToSet(c)
  <2>1. PICK j \in 1..n : x = s[j]
    BY <1>1 DEF N, Named, ToSet
  <2>2. s[j].tag = tag
    BY <2>1 DEF N, Named
  <2> QED BY <1>3, <1>6, <2>1, <2>2
<1>8. ToSet(c) \subseteq N
  <2>1. \A i \in DOMAIN c : c[i] \in N
    BY <1>2
  <2> QED BY <2>1 DEF ToSet
<1> QED BY <1>7, <1>8 DEF N, c, s

\* The items of all nodes of a name.
ItemSet(doc, tag) == UNION {ToSet(n.items) : n \in Named(doc.nodes, tag)}

\* The lists of the nodes of a name.
LEMMA ItemLists ==
    ASSUME NEW doc, NEW tag, IsSeq(doc.nodes), \A n \in Named(doc.nodes, tag) : IsSeq(n.items),
           NEW nodes, nodes = Children(doc, tag)
    PROVE  [k \in DOMAIN nodes |-> nodes[k].items] \in Seq(Seq(ItemSet(doc, tag)))
<1> DEFINE X == ItemSet(doc, tag)
<1>1. nodes \in Seq(Named(doc.nodes, tag))
  BY ChildrenAre
<1>2. Len(nodes) \in Nat /\ DOMAIN nodes = 1..Len(nodes)
  BY <1>1
<1>3. ASSUME NEW k \in DOMAIN nodes PROVE nodes[k].items \in Seq(X)
  <2>1. nodes[k] \in Named(doc.nodes, tag)
    BY <1>1
  <2>2. nodes[k].items \in Seq(ToSet(nodes[k].items)) /\ ToSet(nodes[k].items) \subseteq X
    BY <2>1 DEF IsSeq, ItemSet
  <2> HIDE DEF X
  <2> QED BY <2>2, SeqMonotone
<1> HIDE DEF X
<1>4. [k \in DOMAIN nodes |-> nodes[k].items] \in [1..Len(nodes) -> Seq(X)]
  BY <1>2, <1>3
<1> QED BY <1>2, <1>4 DEF X

\* The items of a name are those of all its nodes.
LEMMA ItemsAre ==
    ASSUME NEW doc, NEW tag, IsSeq(doc.nodes), \A n \in Named(doc.nodes, tag) : IsSeq(n.items)
    PROVE  Items(doc, tag) \in Seq(ItemSet(doc, tag)) /\ ToSet(Items(doc, tag)) = ItemSet(doc, tag)
<1> DEFINE X == ItemSet(doc, tag)
           nodes == Children(doc, tag)
           s == [k \in DOMAIN nodes |-> nodes[k].items]
           n == Len(s)
<1>1. s \in Seq(Seq(X))
  <2> HIDE DEF nodes
  <2> QED BY ItemLists DEF nodes
<1>2. ToSet(nodes) = Named(doc.nodes, tag) /\ DOMAIN s = DOMAIN nodes /\ n \in Nat /\ DOMAIN s = 1..n
  <2>1. DOMAIN s = DOMAIN nodes
    OBVIOUS
  <2> HIDE DEF s
  <2> QED BY <1>1, <2>1, ChildrenAll
<1>3. Items(doc, tag) = FlattenSeq(s)
  BY DEF Items
<1>4. PICK t : /\ t \in [0..n -> Seq(X)] /\ t[0] = <<>>
               /\ \A k \in 0..(n - 1) : t[k + 1] = t[k] \o s[k + 1]
               /\ t[n] = FlattenSeq(s)
  <2> HIDE DEF s, X
  <2> QED BY <1>1, FlattenFold
<1> DEFINE T == {k \in 0..n : \A j \in 1..k : ToSet(s[j]) \subseteq ToSet(t[k])}
<1>5. \A k \in 1..n : s[k] = nodes[k].items /\ s[k] \in Seq(X)
  <2>1. \A k \in 1..n : s[k] = nodes[k].items
    BY <1>2
  <2> HIDE DEF s, X
  <2> QED BY <1>1, <1>2, <2>1
<1> HIDE DEF X, nodes, s, n
<1>6. 0 \in T
  BY <1>2
<1>7. ASSUME NEW k \in 0..(n - 1), k \in T PROVE k + 1 \in T
  <2>1. k \in Nat /\ k + 1 \in 1..n /\ k + 1 \in 0..n /\ k \in 0..n
    BY <1>2
  <2>2. t[k] \in Seq(X) /\ s[k + 1] \in Seq(X) /\ t[k + 1] = t[k] \o s[k + 1]
    BY <1>4, <1>5, <2>1
  <2> DEFINE p == t[k]
             q == s[k + 1]
  <2> HIDE DEF p, q
  <2>3. p \in Seq(X) /\ q \in Seq(X)
    BY <2>2 DEF p, q
  <2>4. /\ Len(p) \in Nat /\ Len(q) \in Nat /\ DOMAIN p = 1..Len(p) /\ DOMAIN q = 1..Len(q)
        /\ DOMAIN (p \o q) = 1..(Len(p) + Len(q))
        /\ \A i \in 1..Len(p) : (p \o q)[i] = p[i]
        /\ \A i \in 1..Len(q) : (p \o q)[Len(p) + i] = q[i]
    BY <2>3
  <2>5. ToSet(p) \subseteq ToSet(p \o q)
    <3> SUFFICES ASSUME NEW i \in DOMAIN p PROVE p[i] \in ToSet(p \o q)
      BY DEF ToSet
    <3>1. i \in DOMAIN (p \o q) /\ (p \o q)[i] = p[i]
      BY <2>4
    <3> QED BY <3>1 DEF ToSet
  <2>6. ToSet(q) \subseteq ToSet(p \o q)
    <3> SUFFICES ASSUME NEW i \in DOMAIN q PROVE q[i] \in ToSet(p \o q)
      BY DEF ToSet
    <3>1. Len(p) + i \in DOMAIN (p \o q) /\ (p \o q)[Len(p) + i] = q[i]
      BY <2>4
    <3> QED BY <3>1 DEF ToSet
  <2>7. ToSet(t[k]) \subseteq ToSet(t[k + 1]) /\ ToSet(s[k + 1]) \subseteq ToSet(t[k + 1])
    BY <2>2, <2>5, <2>6 DEF p, q
  <2>8. ASSUME NEW j \in 1..(k + 1) PROVE ToSet(s[j]) \subseteq ToSet(t[k + 1])
    <3>1. CASE j = k + 1
      BY <2>7, <3>1
    <3>2. CASE j # k + 1
      <4>1. j \in 1..k
        BY <2>1, <3>2
      <4>2. ToSet(s[j]) \subseteq ToSet(t[k])
        BY <1>7, <4>1
      <4> QED BY <2>7, <4>2
    <3> QED BY <3>1, <3>2
  <2> QED BY <2>1, <2>8
<1>8. n \in T
  <2> HIDE DEF T
  <2>1. \A k \in 0..n : k \in T
    BY <1>2, <1>6, <1>7, InductTo
  <2> QED BY <1>2, <2>1
<1>9. t[n] \in Seq(X)
  BY <1>2, <1>4
<1>10. ToSet(t[n]) \subseteq X
  <2>1. \A i \in DOMAIN t[n] : t[n][i] \in X
    BY <1>9
  <2> QED BY <2>1 DEF ToSet
<1>11. ASSUME NEW x \in X PROVE x \in ToSet(t[n])
  <2>1. PICK m \in Named(doc.nodes, tag) : x \in ToSet(m.items)
    BY DEF X, ItemSet
  <2>2. PICK j \in DOMAIN nodes : m = nodes[j]
    BY <1>2 DEF ToSet
  <2>3. j \in 1..n /\ s[j] = m.items
    BY <1>2, <1>5, <2>2
  <2>4. ToSet(s[j]) \subseteq ToSet(t[n])
    BY <1>8, <2>3
  <2> QED BY <2>1, <2>3, <2>4
<1> QED BY <1>3, <1>4, <1>9, <1>10, <1>11 DEF X

\* What a valid document has been read into.
IsGroupInfo(info) ==
    /\ info.name \in DOMAIN Ketama /\ info.hashMin \in Int /\ info.hashMax \in Int
    /\ IsHosts(info.hosts)

\* A group is read with numbers for its range and a role for every host.
LEMMA GroupTypes ==
    ASSUME NEW node, IsGroup(node)
    PROVE  IsGroupInfo(getGroupNode(node))
<1>1. IsSeq(node.nodes)
  BY DEF IsGroup
<1>2. Setting(node, "name", node.name) \in DOMAIN Ketama
  BY <1>1, SettingType DEF IsGroup
<1>3. Setting(node, "hash_min", node.hashMin) \in Int /\ Setting(node, "hash_max", node.hashMax) \in Int
  BY <1>1, SettingType DEF IsGroup
<1> DEFINE c == Children(node, "host")
           hosts == [k \in DOMAIN c |-> LoadHost(c[k])]
<1>4. c \in Seq(Named(node.nodes, "host"))
  BY <1>1, ChildrenAre
<1>5. \A k \in DOMAIN c : IsHost(c[k])
  <2> SUFFICES ASSUME NEW k \in DOMAIN c PROVE IsHost(c[k])
    OBVIOUS
  <2>1. c[k] \in Named(node.nodes, "host")
    BY <1>4
  <2> QED BY <2>1 DEF Named, IsGroup
<1>6. \A k \in DOMAIN hosts : hosts[k].master \in BOOLEAN
  <2> SUFFICES ASSUME NEW k \in DOMAIN c PROVE LoadHost(c[k]).master \in BOOLEAN
    OBVIOUS
  <2>1. IsHost(c[k])
    BY <1>5
  <2>2. Setting(c[k], "master", c[k].master) \in BOOLEAN
    BY <2>1, SettingType DEF IsHost
  <2> QED BY <2>2 DEF LoadHost
<1>7. hosts \in Seq(ToSet(hosts))
  <2>1. hosts = [k \in DOMAIN c |-> hosts[k]]
    OBVIOUS
  <2> HIDE DEF c, hosts
  <2> QED BY <1>4, <2>1, MappedSeq
<1>8. getGroupNode(node).hosts = hosts
  BY DEF getGroupNode
<1>9. IsHosts(getGroupNode(node).hosts)
  <2> HIDE DEF hosts
  <2> QED BY <1>6, <1>7, <1>8 DEF IsHosts
<1>10. /\ getGroupNode(node).name = Setting(node, "name", node.name)
       /\ getGroupNode(node).hashMin = Setting(node, "hash_min", node.hashMin)
       /\ getGroupNode(node).hashMax = Setting(node, "hash_max", node.hashMax)
  BY DEF getGroupNode
<1> QED BY <1>2, <1>3, <1>9, <1>10 DEF IsGroupInfo

IsConfig(cfg) ==
    /\ cfg.guard \in BOOLEAN /\ cfg.twemproxy \in BOOLEAN /\ cfg.hashValueMax \in Int
    /\ cfg.groups \in Seq(ToSet(cfg.groups)) /\ \A g \in DOMAIN cfg.groups : IsGroupInfo(cfg.groups[g])
    /\ cfg.hashMapping \in Seq(ToSet(cfg.hashMapping)) /\ cfg.keyMapping \in Seq(ToSet(cfg.keyMapping))
    /\ \A k \in DOMAIN cfg.hashMapping : cfg.hashMapping[k].value \in Int

\* The nodes of a document are a sequence, and so are the items of its mappings.
LEMMA DocumentNodes ==
    ASSUME NEW doc, IsDocument(doc)
    PROVE  /\ IsSeq(doc.nodes)
           /\ \A tag \in {"hash_mapping", "key_mapping"} : \A n \in Named(doc.nodes, tag) : IsSeq(n.items)
<1>1. IsSeq(doc.nodes)
  BY DEF IsDocument, IsSeq
<1>2. ASSUME NEW tag \in {"hash_mapping", "key_mapping"}, NEW n \in Named(doc.nodes, tag) PROVE IsSeq(n.items)
  BY DEF Named, IsDocument, IsNode
<1> QED BY <1>1, <1>2

\* What loadCfg reads from a document.
LEMMA LoadTypes ==
    ASSUME NEW doc, IsDocument(doc)
    PROVE  IsConfig(Load(doc))
<1> DEFINE cfg == Load(doc)
           c == Children(doc, "group")
           groups == [k \in DOMAIN c |-> getGroupNode(c[k])]
<1>1. IsSeq(doc.nodes)
  BY DocumentNodes
<1>2. doc.guard \in BOOLEAN /\ doc.twemproxy \in BOOLEAN /\ doc.hash_value_max \in Int
  BY DEF IsDocument
<1>3. \A n \in ToSet(doc.nodes) : IsNode(n)
  BY DEF IsDocument
<1>4. Setting(doc, "hash", doc.hash_value_max) \in Int
  BY <1>1, <1>2, <1>3, SettingType DEF IsNode
<1>5. c \in Seq(Named(doc.nodes, "group"))
  BY <1>1, ChildrenAre
<1>6. ASSUME NEW k \in DOMAIN c PROVE IsGroupInfo(getGroupNode(c[k]))
  <2>1. c[k] \in Named(doc.nodes, "group")
    BY <1>5
  <2>2. IsGroup(c[k])
    BY <1>3, <2>1 DEF Named, IsNode
  <2> QED BY <2>2, GroupTypes
<1>7. groups \in Seq(ToSet(groups)) /\ DOMAIN groups = DOMAIN c
  <2>1. groups = [k \in DOMAIN c |-> groups[k]]
    OBVIOUS
  <2> HIDE DEF c, groups
  <2> QED BY <1>5, <2>1, MappedSeq
<1>8. \A k \in DOMAIN groups : IsGroupInfo(groups[k])
  <2> HIDE DEF c
  <2> QED BY <1>6, <1>7
<1>9. /\ Items(doc, "hash_mapping") \in Seq(ItemSet(doc, "hash_mapping"))
      /\ Items(doc, "key_mapping") \in Seq(ItemSet(doc, "key_mapping"))
  BY <1>1, DocumentNodes, ItemsAre
<1>10. \A x \in ItemSet(doc, "hash_mapping") : x.value \in Int
  BY <1>3 DEF ItemSet, Named, IsNode
<1>11. /\ Items(doc, "hash_mapping") \in Seq(ToSet(Items(doc, "hash_mapping")))
       /\ Items(doc, "key_mapping") \in Seq(ToSet(Items(doc, "key_mapping")))
  BY <1>9, SeqOfItself
<1>12. \A k \in DOMAIN Items(doc, "hash_mapping") : Items(doc, "hash_mapping")[k].value \in Int
  <2> SUFFICES ASSUME NEW k \in DOMAIN Items(doc, "hash_mapping")
               PROVE  Items(doc, "hash_mapping")[k].value \in Int
    OBVIOUS
  <2>1. Items(doc, "hash_mapping")[k] \in ItemSet(doc, "hash_mapping")
    BY <1>9
  <2> QED BY <1>10, <2>1
<1>13. /\ cfg.guard = doc.guard /\ cfg.twemproxy = doc.twemproxy
       /\ cfg.hashValueMax = Setting(doc, "hash", doc.hash_value_max)
       /\ cfg.groups = groups
       /\ cfg.hashMapping = Items(doc, "hash_mapping") /\ cfg.keyMapping = Items(doc, "key_mapping")
  BY DEF Load
<1> HIDE DEF cfg, groups
<1> QED BY <1>2, <1>4, <1>7, <1>8, <1>11, <1>12, <1>13 DEF IsConfig, cfg

\* The tables a worker begins with, of a valid configuration.
LEMMA ConfiguredTables ==
    ASSUME NEW cfg, IsConfig(cfg), isValid(cfg)
    PROVE  /\ \A n \in DOMAIN slotTable(cfg) : slotTable(cfg)[n] \in GroupNames(cfg)
           /\ \E c \in Int : DOMAIN slotTable(cfg) = 0..(c - 1)
           /\ ~cfg.twemproxy => Dealt(cfg)
           /\ ~cfg.twemproxy => DOMAIN slotTable(cfg) = Slots(cfg)
           /\ \A k \in DOMAIN keyTable(cfg) : keyTable(cfg)[k] \in GroupNames(cfg)
<1>1. ~cfg.twemproxy => Dealt(cfg)
  <2> SUFFICES ASSUME ~cfg.twemproxy PROVE Dealt(cfg)
    OBVIOUS
  <2>1. RangesFit(cfg)
    <3>1. cfg.twemproxy \/ RangesFit(cfg)
      BY DEF isValid
    <3> QED BY <3>1
  <2>2. /\ \A g \in DOMAIN cfg.groups : \A h \in 1..(g - 1) : Covered(cfg, g) \intersect Covered(cfg, h) = {}
        /\ \A v \in 0..(cfg.hashValueMax - 1) : \E g \in DOMAIN cfg.groups : v \in Covered(cfg, g)
    BY <2>1 DEF RangesFit
  <2>3. \A k \in DOMAIN cfg.hashMapping : cfg.hashMapping[k].group \in GroupNames(cfg)
    BY DEF isValid, MappingsFit
  <2> QED BY <2>2, <2>3 DEF IsConfig, Dealt
<1>2. ASSUME ~cfg.twemproxy
      PROVE  /\ \A n \in DOMAIN slotTable(cfg) : slotTable(cfg)[n] \in GroupNames(cfg)
             /\ DOMAIN slotTable(cfg) = Slots(cfg)
             /\ \E c \in Int : DOMAIN slotTable(cfg) = 0..(c - 1)
  <2>1. slotTable(cfg) \in [Slots(cfg) -> GroupNames(cfg)]
    BY <1>1, <1>2, SlotsAsConfigured
  <2>2. cfg.hashValueMax \in Int
    BY DEF IsConfig
  <2> QED BY <2>1, <2>2 DEF Slots
<1>3. ASSUME cfg.twemproxy
      PROVE  /\ \A n \in DOMAIN slotTable(cfg) : slotTable(cfg)[n] \in GroupNames(cfg)
             /\ \E c \in Int : DOMAIN slotTable(cfg) = 0..(c - 1)
  <2>1. cfg.groups \in Seq(ToSet(cfg.groups)) /\ \A g \in DOMAIN cfg.groups : cfg.groups[g].name \in DOMAIN Ketama
    BY DEF IsConfig, IsGroupInfo
  <2>2. /\ Cardinality(Points(cfg)) \in Nat
        /\ Continuum(cfg) \in [0..(Cardinality(Points(cfg)) - 1) -> GroupNames(cfg)]
    BY <2>1, ContinuumGroups
  <2>3. slotTable(cfg) = Continuum(cfg)
    BY <1>3 DEF slotTable
  <2> QED BY <2>2, <2>3
<1>4. ASSUME NEW k \in DOMAIN keyTable(cfg) PROVE keyTable(cfg)[k] \in GroupNames(cfg)
  <2>1. PICK j \in DOMAIN cfg.keyMapping : keyTable(cfg)[k] = cfg.keyMapping[j].group
    BY KeysAsConfigured DEF IsConfig
  <2> QED BY <2>1 DEF isValid, MappingsFit
<1>5. cfg.twemproxy \in BOOLEAN
  BY DEF IsConfig
<1>6. CASE cfg.twemproxy
  BY <1>1, <1>3, <1>4, <1>6
<1>7. CASE ~cfg.twemproxy
  BY <1>1, <1>2, <1>4, <1>7
<1> QED BY <1>5, <1>6, <1>7

-----------------------------------------------------------------------------
(* Replacing a list of a document.                                         *)

\* Only the nodes count.
LEMMA SameNodes ==
    ASSUME NEW d, NEW e, d.nodes = e.nodes, NEW tag
    PROVE  Children(d, tag) = Children(e, tag)
BY DEF Children

\* One more node.
Grows(d, e, x, tag) ==
    /\ x.tag = tag => Children(e, tag) = Append(Children(d, tag), x)
    /\ x.tag # tag => Children(e, tag) = Children(d, tag)

\* A node that is appended is the last of its name, and of no other.
LEMMA ChildrenAppend ==
    ASSUME NEW d, NEW e, NEW x, NEW tag, IsSeq(d.nodes), IsSeq(e.nodes), e.nodes = Append(d.nodes, x)
    PROVE  Grows(d, e, x, tag)
<1> DEFINE s == d.nodes
           n == Len(s)
           r == e.nodes
<1>1. n \in Nat /\ Len(r) = n + 1 /\ r[n + 1] = x /\ \A k \in 1..n : r[k] = s[k]
  BY DEF IsSeq
<1>2. PICK t : IsCollection(t, s, tag) /\ t[n] = Children(d, tag)
  BY ChildrenFold
<1>3. PICK u : IsCollection(u, r, tag) /\ u[Len(r)] = Children(e, tag)
  BY ChildrenFold
<1> HIDE DEF s, n, r
<1> DEFINE T == {k \in 0..n : u[k] = t[k]}
<1>4. 0 \in T
  BY <1>1, <1>2, <1>3 DEF IsCollection
<1>5. ASSUME NEW k \in 0..(n - 1), k \in T PROVE k + 1 \in T
  <2>1. k + 1 \in 1..n /\ k + 1 \in 0..n /\ k \in 0..(Len(s) - 1) /\ k \in 0..(Len(r) - 1)
    BY <1>1 DEF n
  <2>2. t[k + 1] = IF s[k + 1].tag = tag THEN Append(t[k], s[k + 1]) ELSE t[k]
    BY <1>2, <2>1 DEF IsCollection
  <2>3. u[k + 1] = IF r[k + 1].tag = tag THEN Append(u[k], r[k + 1]) ELSE u[k]
    BY <1>3, <2>1 DEF IsCollection
  <2>4. r[k + 1] = s[k + 1] /\ u[k] = t[k]
    BY <1>1, <1>5, <2>1
  <2> QED BY <2>1, <2>2, <2>3, <2>4
<1>6. u[n] = t[n]
  <2> HIDE DEF T
  <2>1. \A k \in 0..n : k \in T
    BY <1>1, <1>4, <1>5, InductTo
  <2> QED BY <1>1, <2>1 DEF T
<1>7. u[n + 1] = IF x.tag = tag THEN Append(u[n], x) ELSE u[n]
  <2>1. n \in 0..(Len(r) - 1)
    BY <1>1
  <2>2. u[n + 1] = IF r[n + 1].tag = tag THEN Append(u[n], r[n + 1]) ELSE u[n]
    BY <1>3, <2>1 DEF IsCollection
  <2> QED BY <1>1, <2>2
<1> QED BY <1>1, <1>2, <1>3, <1>6, <1>7 DEF Grows

\* Without a node of another name.
LEMMA ChildrenRemove ==
    ASSUME NEW d, NEW e, NEW m \in DOMAIN d.nodes, NEW tag, IsSeq(d.nodes),
           e.nodes = RemoveAt(d.nodes, m), d.nodes[m].tag # tag
    PROVE  Children(e, tag) = Children(d, tag)
<1> DEFINE s == d.nodes
           n == Len(s)
           r == e.nodes
           at(k) == IF k < m THEN k ELSE k - 1
<1>1. n \in Nat /\ DOMAIN s = 1..n /\ m \in 1..n
  BY DEF IsSeq
<1>2. /\ IsSeq(r) /\ Len(r) = n - 1
      /\ \A k \in 1..(n - 1) : r[k] = IF k < m THEN s[k] ELSE s[k + 1]
  <2>1. s \in Seq(ToSet(s))
    BY DEF IsSeq
  <2>2. r \in Seq(ToSet(s))
    BY <1>1, <2>1, WithoutElement
  <2> QED BY <1>1, <2>1, <2>2, WithoutElement, SeqOfItself DEF IsSeq
<1>3. PICK t : IsCollection(t, s, tag) /\ t[n] = Children(d, tag)
  BY ChildrenFold
<1>4. PICK u : IsCollection(u, r, tag) /\ u[Len(r)] = Children(e, tag)
  BY <1>2, ChildrenFold
<1>5. s[m].tag # tag
  OBVIOUS
<1> HIDE DEF s, n, r
<1> DEFINE T == {k \in 0..n : t[k] = u[at(k)]}
<1>6. 0 \in T
  BY <1>1, <1>3, <1>4 DEF IsCollection
<1>7. ASSUME NEW k \in 0..(n - 1), k \in T PROVE k + 1 \in T
  <2>1. k \in Nat /\ k + 1 \in 0..n /\ m \in Nat
    BY <1>1
  <2>2. t[k + 1] = IF s[k + 1].tag = tag THEN Append(t[k], s[k + 1]) ELSE t[k]
    BY <1>3 DEF IsCollection, n
  <2>3. CASE k + 1 = m
    <3>1. t[k + 1] = t[k] /\ at(k + 1) = k /\ at(k) = k
      BY <1>5, <2>1, <2>2, <2>3
    <3> QED BY <1>7, <2>1, <3>1
  <2>4. CASE k + 1 < m
    <3>1. k \in 0..(Len(r) - 1) /\ at(k + 1) = k + 1 /\ at(k) = k /\ r[k + 1] = s[k + 1]
      BY <1>1, <1>2, <2>1, <2>4
    <3>2. u[k + 1] = IF r[k + 1].tag = tag THEN Append(u[k], r[k + 1]) ELSE u[k]
      BY <1>4, <3>1 DEF IsCollection
    <3>3. t[k] = u[k]
      BY <1>7, <3>1
    <3>4. t[k + 1] = u[k + 1]
      BY <2>2, <3>1, <3>2, <3>3
    <3> QED BY <2>1, <3>1, <3>4
  <2>5. CASE m < k + 1
    <3>1. k - 1 \in 0..(Len(r) - 1) /\ (k - 1) + 1 = k /\ at(k + 1) = k /\ at(k) = k - 1 /\ r[k] = s[k + 1]
      BY <1>1, <1>2, <2>1, <2>5
    <3>2. u[(k - 1) + 1] = IF r[(k - 1) + 1].tag = tag THEN Append(u[k - 1], r[(k - 1) + 1]) ELSE u[k - 1]
      BY <1>4, <3>1 DEF IsCollection
    <3>3. t[k] = u[k - 1]
      BY <1>7, <3>1
    <3>4. t[k + 1] = u[k]
      BY <2>2, <3>1, <3>2, <3>3
    <3> QED BY <2>1, <3>1, <3>4
  <2> QED BY <2>1, <2>3, <2>4, <2>5
<1>8. t[n] = u[n - 1]
  <2> HIDE DEF T
  <2>1. \A k \in 0..n : k \in T
    BY <1>1, <1>6, <1>7, InductTo
  <2>2. t[n] = u[at(n)]
    BY <1>1, <2>1 DEF T
  <2>3. at(n) = n - 1
    BY <1>1
  <2> QED BY <2>2, <2>3
<1> QED BY <1>2, <1>3, <1>4, <1>8

MappingNode(tag, items) == [tag |-> tag, exact |-> TRUE, items |-> items]

\* The first node of exactly that name is gone, if there is one.
LEMMA NamedRemoved ==
    ASSUME NEW nodes, NEW tag, IsSeq(nodes)
    PROVE  \/ RemoveNamed(nodes, tag) = nodes
           \/ \E m \in DOMAIN nodes : nodes[m].tag = tag /\ RemoveNamed(nodes, tag) = RemoveAt(nodes, m)
<1> DEFINE found == {k \in DOMAIN nodes : nodes[k].tag = tag /\ nodes[k].exact}
<1>1. DOMAIN nodes = 1..Len(nodes) /\ Len(nodes) \in Nat
  BY DEF IsSeq
<1>2. CASE found = {}
  BY <1>2 DEF RemoveNamed
<1>3. CASE found # {}
  <2>1. found \in SUBSET Nat
    BY <1>1
  <2>2. Min(found) \in found
    <3> HIDE DEF found
    <3> QED BY <1>3, <2>1, MinIsLeast
  <2>3. RemoveNamed(nodes, tag) = RemoveAt(nodes, Min(found))
    BY <1>3 DEF RemoveNamed
  <2> QED BY <2>2, <2>3
<1> QED BY <1>2, <1>3

\* Removing the node of a name leaves the nodes of the other names.
LEMMA AfterRemoval ==
    ASSUME NEW d, NEW e, NEW tag, IsSeq(d.nodes), e.nodes = RemoveNamed(d.nodes, tag)
    PROVE  /\ IsSeq(e.nodes) /\ ToSet(e.nodes) \subseteq ToSet(d.nodes)
           /\ \A other : other # tag => Children(e, other) = Children(d, other)
<1> DEFINE s == d.nodes
<1>1. DOMAIN s = 1..Len(s) /\ Len(s) \in Nat /\ s \in Seq(ToSet(s))
  BY DEF IsSeq
<1>2. CASE RemoveNamed(s, tag) = s
  <2>1. e.nodes = d.nodes
    BY <1>2
  <2> QED BY <2>1, SameNodes
<1>3. ASSUME NEW m \in DOMAIN s, s[m].tag = tag, RemoveNamed(s, tag) = RemoveAt(s, m)
      PROVE  /\ IsSeq(e.nodes) /\ ToSet(e.nodes) \subseteq ToSet(d.nodes)
             /\ \A other : other # tag => Children(e, other) = Children(d, other)
  <2>1. e.nodes = RemoveAt(s, m)
    BY <1>3
  <2>2. e.nodes \in Seq(ToSet(s))
    BY <1>1, <2>1, WithoutElement
  <2>3. IsSeq(e.nodes)
    BY <2>2, SeqOfItself DEF IsSeq
  <2>4. ToSet(e.nodes) \subseteq ToSet(s)
    <3>1. \A i \in DOMAIN e.nodes : e.nodes[i] \in ToSet(s)
      BY <2>2
    <3> QED BY <3>1 DEF ToSet
  <2>5. ASSUME NEW other, other # tag PROVE Children(e, other) = Children(d, other)
    <3>1. d.nodes[m].tag # other /\ m \in DOMAIN d.nodes
      BY <1>3, <2>5
    <3> QED BY <2>1, <3>1, ChildrenRemove
  <2> QED BY <2>3, <2>4, <2>5
<1>4. IsSeq(s)
  OBVIOUS
<1> HIDE DEF s
<1>5. CASE \E m \in DOMAIN s : s[m].tag = tag /\ RemoveNamed(s, tag) = RemoveAt(s, m)
  BY <1>3, <1>5
<1> QED BY <1>2, <1>4, <1>5, NamedRemoved

\* A node is replaced: the others stay, the new one is the last of its name.
Replaced(d, e, tag, items) ==
    /\ IsSeq(e.nodes) /\ ToSet(e.nodes) \subseteq ToSet(d.nodes) \union {MappingNode(tag, items)}
    /\ \A other : other # tag => Children(e, other) = Children(d, other)
    /\ \E c \in Seq(Named(d.nodes, tag)) : Children(e, tag) = Append(c, MappingNode(tag, items))

\* Replace does so.
LEMMA AfterReplacement ==
    ASSUME NEW d, NEW e, NEW tag, NEW items, IsSeq(d.nodes), e.nodes = Replace(d.nodes, tag, items)
    PROVE  Replaced(d, e, tag, items)
<1> DEFINE x == MappingNode(tag, items)
           m == [nodes |-> RemoveNamed(d.nodes, tag)]
           X == ToSet(d.nodes) \union {x}
<1>1. m.nodes = RemoveNamed(d.nodes, tag)
  OBVIOUS
<1> HIDE DEF m
<1>2. IsSeq(m.nodes) /\ ToSet(m.nodes) \subseteq ToSet(d.nodes)
  BY <1>1, AfterRemoval
<1>3. \A other : other # tag => Children(m, other) = Children(d, other)
  BY <1>1, AfterRemoval
<1>4. e.nodes = Append(m.nodes, x)
  BY <1>1 DEF Replace, MappingNode
<1>5. x.tag = tag
  BY DEF MappingNode
<1> HIDE DEF x
<1>6. m.nodes \in Seq(X)
  <2>1. m.nodes \in Seq(ToSet(m.nodes)) /\ ToSet(m.nodes) \subseteq X
    BY <1>2 DEF IsSeq
  <2> HIDE DEF X
  <2> QED BY <2>1, SeqMonotone
<1>7. e.nodes \in Seq(X)
  <2>1. x \in X
    OBVIOUS
  <2> HIDE DEF X
  <2> QED BY <1>4, <1>6, <2>1, AppendProperties
<1>8. IsSeq(e.nodes) /\ ToSet(e.nodes) \subseteq X
  <2>1. \A i \in DOMAIN e.nodes : e.nodes[i] \in X
    BY <1>7
  <2>2. IsSeq(e.nodes)
    BY <1>7, SeqOfItself DEF IsSeq
  <2> HIDE DEF X
  <2> QED BY <2>1, <2>2 DEF ToSet
<1>9. ASSUME NEW other PROVE Grows(m, e, x, other)
  <2>1. IsSeq(m.nodes) /\ IsSeq(e.nodes) /\ e.nodes = Append(m.nodes, x)
    BY <1>2, <1>4, <1>8
  <2> HIDE DEF X
  <2> QED BY <2>1, ChildrenAppend
<1>10. \A other : other # tag => Children(e, other) = Children(d, other)
  <2> SUFFICES ASSUME NEW other, other # tag PROVE Children(e, other) = Children(d, other)
    OBVIOUS
  <2>1. Children(m, other) = Children(d, other)
    BY <1>3
  <2>2. Children(e, other) = Children(m, other)
    BY <1>5, <1>9 DEF Grows
  <2> QED BY <2>1, <2>2
<1>11. Children(e, tag) = Append(Children(m, tag), x)
  BY <1>5, <1>9 DEF Grows
<1>12. Children(m, tag) \in Seq(Named(d.nodes, tag))
  <2>1. Children(m, tag) \in Seq(Named(m.nodes, tag))
    BY <1>2, ChildrenAre
  <2>2. Named(m.nodes, tag) \subseteq Named(d.nodes, tag)
    BY <1>2 DEF Named
  <2> QED BY <2>1, <2>2, SeqMonotone
<1> QED BY <1>8, <1>10, <1>11, <1>12 DEF x, Replaced

\* The tables a worker can save.
IsTable(slots) == \E c \in Int : DOMAIN slots = 0..(c - 1)

IsKeyTable(mapping) == IsFiniteSet(DOMAIN mapping)

\* The list of the slots has every slot at its place.
LEMMA HashItemsAre ==
    ASSUME NEW slots, IsTable(slots)
    PROVE  /\ Cardinality(DOMAIN slots) \in Nat /\ DOMAIN slots = 0..(Cardinality(DOMAIN slots) - 1)
           /\ IsSeq(HashItems(slots)) /\ Len(HashItems(slots)) = Cardinality(DOMAIN slots)
           /\ \A k \in 1..Cardinality(DOMAIN slots) :
                HashItems(slots)[k].value = k - 1 /\ HashItems(slots)[k].group = slots[k - 1]
<1> DEFINE n == Cardinality(DOMAIN slots)
<1>1. PICK c \in Int : DOMAIN slots = 0..(c - 1)
  BY DEF IsTable
<1>2. n = IF 0 > c - 1 THEN 0 ELSE c
  <2>1. 0 \in Int /\ c - 1 \in Int /\ (c - 1) - 0 + 1 = c
    OBVIOUS
  <2> QED BY <1>1, <2>1, FS_Interval
<1>3. n \in Nat /\ DOMAIN slots = 0..(n - 1)
  BY <1>1, <1>2
<1> HIDE DEF n
<1>4. HashItems(slots) = [k \in 1..n |-> [value |-> k - 1, group |-> slots[k - 1]]]
  BY DEF HashItems, n
<1>5. \A k \in 1..n : HashItems(slots)[k].value = k - 1 /\ HashItems(slots)[k].group = slots[k - 1]
  BY <1>4
<1>6. HashItems(slots) \in [1..n -> ToSet(HashItems(slots))]
  BY <1>4 DEF ToSet
<1>7. HashItems(slots) \in Seq(ToSet(HashItems(slots))) /\ Len(HashItems(slots)) = n
  <2> HIDE DEF HashItems
  <2> QED BY <1>3, <1>6
<1> QED BY <1>3, <1>5, <1>7 DEF n, IsSeq

\* The list of the keys has every key, with its group.
LEMMA KeyItemsAre ==
    ASSUME NEW mapping, IsKeyTable(mapping)
    PROVE  /\ IsSeq(KeyItems(mapping))
           /\ \A k \in DOMAIN KeyItems(mapping) :
                /\ KeyItems(mapping)[k].key \in DOMAIN mapping
                /\ KeyItems(mapping)[k].group = mapping[KeyItems(mapping)[k].key]
           /\ \A key \in DOMAIN mapping : \E k \in DOMAIN KeyItems(mapping) : KeyItems(mapping)[k].key = key
<1> DEFINE K == DOMAIN mapping
           n == Cardinality(K)
           keys == SetToSeq(K)
           items == [k \in DOMAIN keys |-> [key |-> keys[k], group |-> mapping[keys[k]]]]
<1>1. IsFiniteSet(K) /\ n \in Nat /\ ExistsBijection(1..n, K)
  BY FS_CardinalityType DEF IsKeyTable
<1>2. keys \in [1..n -> K] /\ IsInjective(keys)
  <2>1. \E f \in [1..n -> K] : IsInjective(f)
    BY <1>1 DEF ExistsBijection, Bijection, Injection
  <2> QED BY <2>1 DEF SetToSeq
<1> HIDE DEF K, n, keys
<1>3. keys \in Surjection(1..n, K)
  <2>1. keys \in Injection(1..n, K)
    BY <1>2 DEF Injection
  <2>2. IsFiniteSet(1..n) /\ Cardinality(1..n) = n
    BY <1>1, FS_Interval
  <2>3. Cardinality(1..n) = Cardinality(K)
    BY <2>2 DEF n
  <2> QED BY <1>1, <2>1, <2>3, FS_Injection
<1>4. KeyItems(mapping) = items
  BY DEF KeyItems, keys, K
<1>5. DOMAIN items = 1..n /\ \A k \in 1..n : items[k].key = keys[k] /\ items[k].group = mapping[keys[k]]
  BY <1>2
<1>6. items \in Seq(ToSet(items))
  <2>1. items \in [1..n -> ToSet(items)]
    BY <1>5 DEF ToSet
  <2> HIDE DEF items
  <2> QED BY <1>1, <2>1
<1> HIDE DEF items
<1>7. \A k \in 1..n : items[k].key \in K /\ items[k].group = mapping[items[k].key]
  BY <1>2, <1>5
<1>8. \A key \in K : \E k \in 1..n : items[k].key = key
  BY <1>3, <1>5 DEF Surjection
<1> QED BY <1>4, <1>5, <1>6, <1>7, <1>8 DEF K, IsSeq

\* A list of mappings that can be saved.
Savable(tag, items) ==
    /\ tag \in {"hash_mapping", "key_mapping"} /\ IsSeq(items)
    /\ tag = "hash_mapping" => \A item \in ToSet(items) : item.value \in Int

\* One list of a document is replaced.
Resaved(d, e, tag, items) ==
    /\ IsDocument(e) /\ e.nodes = Replace(d.nodes, tag, items)
    /\ e.port = d.port /\ e.thread_num = d.thread_num /\ e.hash_value_max = d.hash_value_max
    /\ e.guard = d.guard /\ e.twemproxy = d.twemproxy /\ e.vip = d.vip

\* A document with a list replaced is a document.
LEMMA DocumentReplaced ==
    ASSUME NEW d, IsDocument(d), NEW tag, NEW items, Savable(tag, items),
           NEW e, e = [d EXCEPT !.nodes = Replace(@, tag, items)]
    PROVE  Resaved(d, e, tag, items)
<1> DEFINE r == Replace(d.nodes, tag, items)
           x == MappingNode(tag, items)
<1>1. d \in [port : Int, thread_num : Int, hash_value_max : Int, guard : BOOLEAN,
             twemproxy : BOOLEAN, vip : BOOLEAN, nodes : Seq(ToSet(d.nodes))]
  BY DEF IsDocument
<1>2. e = [d EXCEPT !.nodes = r]
  OBVIOUS
<1> HIDE DEF r
<1>3. e.nodes = r
  BY <1>1, <1>2
<1>4. IsSeq(d.nodes)
  BY DocumentNodes
<1>5. IsSeq(e.nodes) /\ ToSet(e.nodes) \subseteq ToSet(d.nodes) \union {x}
  <2>1. e.nodes = Replace(d.nodes, tag, items)
    BY <1>3 DEF r
  <2>2. Replaced(d, e, tag, items)
    BY <1>4, <2>1, AfterReplacement
  <2> QED BY <2>2 DEF Replaced
<1>6. e \in [port : Int, thread_num : Int, hash_value_max : Int, guard : BOOLEAN,
             twemproxy : BOOLEAN, vip : BOOLEAN, nodes : Seq(ToSet(e.nodes))]
  <2> DEFINE A == Seq(ToSet(d.nodes))
             B == Seq(ToSet(e.nodes))
  <2>1. r \in B
    BY <1>3, <1>5 DEF IsSeq
  <2>2. d \in [port : Int, thread_num : Int, hash_value_max : Int, guard : BOOLEAN,
               twemproxy : BOOLEAN, vip : BOOLEAN, nodes : A]
    BY <1>1
  <2> HIDE DEF A, B
  <2>3. [d EXCEPT !.nodes = r] \in [port : Int, thread_num : Int, hash_value_max : Int, guard : BOOLEAN,
                                    twemproxy : BOOLEAN, vip : BOOLEAN, nodes : B]
    BY <2>1, <2>2
  <2> QED BY <1>2, <2>3 DEF B
<1>7. \A n \in ToSet(d.nodes) : IsNode(n)
  BY DEF IsDocument
<1>8. IsNode(x)
  BY DEF MappingNode, IsNode, Savable
<1>9. IsDocument(e)
  <2> HIDE DEF x
  <2>1. \A n \in ToSet(e.nodes) : IsNode(n)
    BY <1>5, <1>7, <1>8
  <2> QED BY <1>6, <2>1 DEF IsDocument
<1>10. /\ e.port = d.port /\ e.thread_num = d.thread_num /\ e.hash_value_max = d.hash_value_max
       /\ e.guard = d.guard /\ e.twemproxy = d.twemproxy /\ e.vip = d.vip
  BY <1>1, <1>2
<1> QED BY <1>3, <1>9, <1>10 DEF Resaved, r

\* What is not a mapping is read from a saved document as from the original.
SameSettings(cfg, old) ==
    /\ cfg.port = old.port /\ cfg.threadNum = old.threadNum /\ cfg.hashValueMax = old.hashValueMax
    /\ cfg.guard = old.guard /\ cfg.twemproxy = old.twemproxy /\ cfg.vip = old.vip
    /\ cfg.groups = old.groups /\ cfg.groupOption = old.groupOption

\* The list of a name, when its node is the last: a rest of other nodes, and it.
Ending(e, tag, items) ==
    \E F \in Seq(ItemSet(e, tag)) :
      /\ Items(e, tag) = F \o items
      /\ Len(Children(e, tag)) = 1 => F = <<>>

\* The items of a name end with those of its last node.
LEMMA LastItems ==
    ASSUME NEW e, NEW tag, NEW items, IsSeq(e.nodes), \A n \in Named(e.nodes, tag) : IsSeq(n.items),
           NEW C, NEW c \in Seq(C), Children(e, tag) = Append(c, MappingNode(tag, items))
    PROVE  Ending(e, tag, items)
<1> DEFINE X == ItemSet(e, tag)
           nodes == Children(e, tag)
           s == [k \in DOMAIN nodes |-> nodes[k].items]
           m == Len(c)
           x == MappingNode(tag, items)
<1>1. m \in Nat /\ Len(nodes) = m + 1 /\ DOMAIN nodes = 1..(m + 1) /\ nodes[m + 1] = x
  <2> HIDE DEF nodes, x
  <2>1. nodes = Append(c, x)
    BY DEF nodes, x
  <2> QED BY <2>1
<1>2. s \in Seq(Seq(X)) /\ Len(s) = m + 1
  <2>1. s \in Seq(Seq(X))
    <3> HIDE DEF nodes
    <3> QED BY ItemLists DEF nodes
  <2>2. DOMAIN s = 1..(m + 1)
    BY <1>1
  <2> HIDE DEF s, X
  <2> QED BY <1>1, <2>1, <2>2
<1>3. s[m + 1] = items
  <2>1. m + 1 \in DOMAIN nodes
    BY <1>1
  <2>2. s[m + 1] = nodes[m + 1].items
    BY <2>1
  <2> QED BY <1>1, <2>2 DEF MappingNode
<1>4. Items(e, tag) = FlattenSeq(s)
  BY DEF Items
<1> HIDE DEF s, X, nodes
<1>5. PICK t : /\ t \in [0..Len(s) -> Seq(X)] /\ t[0] = <<>>
               /\ \A k \in 0..(Len(s) - 1) : t[k + 1] = t[k] \o s[k + 1]
               /\ t[Len(s)] = FlattenSeq(s)
  BY <1>2, FlattenFold
<1>6. t[m] \in Seq(X) /\ t[m + 1] = t[m] \o s[m + 1]
  <2> HIDE DEF m
  <2>1. m \in 0..(Len(s) - 1) /\ m \in 0..Len(s)
    BY <1>1, <1>2
  <2> QED BY <1>5, <2>1
<1>7. Items(e, tag) = t[m] \o items
  BY <1>2, <1>3, <1>4, <1>5, <1>6
<1>8. Len(nodes) = 1 => t[m] = <<>>
  BY <1>1, <1>5
<1> QED BY <1>6, <1>7, <1>8 DEF Ending, X, nodes

-----------------------------------------------------------------------------
(* What is saved is restored: saveProxyLastState.                          *)

\* What a saved document has of the original, and what is new.
SavedFrom(doc, e, slots, mapping) ==
    /\ IsDocument(e) /\ SameSettings(Load(e), Load(doc))
    /\ Ending(e, "hash_mapping", HashItems(slots)) /\ Ending(e, "key_mapping", KeyItems(mapping))
    /\ ItemSet(e, "hash_mapping") \subseteq ItemSet(doc, "hash_mapping") \union ToSet(HashItems(slots))
    /\ ItemSet(e, "key_mapping") \subseteq ItemSet(doc, "key_mapping") \union ToSet(KeyItems(mapping))

\* The tables of a worker can be saved.
LEMMA SavableTables ==
    ASSUME NEW slots, IsTable(slots), NEW mapping, IsKeyTable(mapping)
    PROVE  Savable("hash_mapping", HashItems(slots)) /\ Savable("key_mapping", KeyItems(mapping))
<1> DEFINE H == HashItems(slots)
<1>1. IsSeq(H)
  BY HashItemsAre
<1>2. ASSUME NEW item \in ToSet(H) PROVE item.value \in Int
  <2>1. PICK k \in DOMAIN H : item = H[k]
    BY DEF ToSet
  <2>2. Cardinality(DOMAIN slots) \in Nat /\ Len(H) = Cardinality(DOMAIN slots)
    BY HashItemsAre
  <2>3. k \in 1..Cardinality(DOMAIN slots)
    <3>1. DOMAIN H = 1..Len(H)
      BY <1>1 DEF IsSeq
    <3> QED BY <2>2, <3>1
  <2>4. H[k].value = k - 1
    BY <2>3, HashItemsAre
  <2> QED BY <2>1, <2>2, <2>3, <2>4
<1>3. IsSeq(KeyItems(mapping))
  BY KeyItemsAre
<1> QED BY <1>1, <1>2, <1>3 DEF Savable

\* The items of a name, after one list was replaced.
LEMMA ItemsReplaced ==
    ASSUME NEW d, NEW e, NEW tag, NEW items, Replaced(d, e, tag, items), NEW other
    PROVE  ItemSet(e, other) \subseteq ItemSet(d, other) \union (IF other = tag THEN ToSet(items) ELSE {})
<1> DEFINE x == MappingNode(tag, items)
<1>1. ToSet(e.nodes) \subseteq ToSet(d.nodes) \union {x}
  BY DEF Replaced
<1>2. x.tag = tag /\ x.items = items
  BY DEF MappingNode
<1> HIDE DEF x
<1> QED BY <1>1, <1>2 DEF ItemSet, Named

\* Settings, groups and options are read from other nodes than the mappings.
LEMMA SameLoad ==
    ASSUME NEW d, NEW e, e.port = d.port, e.thread_num = d.thread_num, e.hash_value_max = d.hash_value_max,
           e.guard = d.guard, e.twemproxy = d.twemproxy, e.vip = d.vip,
           \A tag : tag \notin {"hash_mapping", "key_mapping"} => Children(e, tag) = Children(d, tag)
    PROVE  SameSettings(Load(e), Load(d))
<1>1. /\ Children(e, "port") = Children(d, "port") /\ Children(e, "thread_num") = Children(d, "thread_num")
      /\ Children(e, "hash") = Children(d, "hash") /\ Children(e, "group") = Children(d, "group")
      /\ Children(e, "group_option") = Children(d, "group_option")
  OBVIOUS
<1>2. /\ Setting(e, "port", e.port) = Setting(d, "port", d.port)
      /\ Setting(e, "thread_num", e.thread_num) = Setting(d, "thread_num", d.thread_num)
      /\ Setting(e, "hash", e.hash_value_max) = Setting(d, "hash", d.hash_value_max)
  BY <1>1 DEF Setting
<1>3. Load(e).port = Load(d).port /\ Load(e).threadNum = Load(d).threadNum
  BY <1>2 DEF Load
<1>4. Load(e).hashValueMax = Load(d).hashValueMax
  BY <1>2 DEF Load
<1>5. Load(e).guard = Load(d).guard /\ Load(e).twemproxy = Load(d).twemproxy /\ Load(e).vip = Load(d).vip
  BY DEF Load
<1>6. Load(e).groups = Load(d).groups
  BY <1>1 DEF Load
<1>7. Load(e).groupOption = Load(d).groupOption
  BY <1>1 DEF Load
<1> QED BY <1>3, <1>4, <1>5, <1>6, <1>7 DEF SameSettings

\* Saving replaces two lists.
LEMMA SavedDocument ==
    ASSUME NEW doc, IsDocument(doc), NEW slots, IsTable(slots), NEW mapping, IsKeyTable(mapping),
           NEW e, e = saved(doc, slots, mapping)
    PROVE  SavedFrom(doc, e, slots, mapping)
<1> DEFINE H == HashItems(slots)
           K == KeyItems(mapping)
           m == [doc EXCEPT !.nodes = Replace(@, "hash_mapping", H)]
<1>1. Savable("hash_mapping", H) /\ Savable("key_mapping", K)
  BY SavableTables
<1>2. e = [doc EXCEPT !.nodes = Replace(Replace(@, "hash_mapping", H), "key_mapping", K)]
  BY DEF saved
<1> HIDE DEF H, K
<1>3. Resaved(doc, m, "hash_mapping", H)
  BY <1>1, DocumentReplaced
<1>4. e = [m EXCEPT !.nodes = Replace(@, "key_mapping", K)]
  <2>1. doc \in [port : Int, thread_num : Int, hash_value_max : Int, guard : BOOLEAN,
                 twemproxy : BOOLEAN, vip : BOOLEAN, nodes : Seq(ToSet(doc.nodes))]
    BY DEF IsDocument
  <2> DEFINE r == Replace(doc.nodes, "hash_mapping", H)
             q == Replace(r, "key_mapping", K)
  <2>2. m = [doc EXCEPT !.nodes = r] /\ e = [doc EXCEPT !.nodes = q]
    BY <1>2
  <2>3. m.nodes = r
    BY <2>1
  <2>4. Replace(m.nodes, "key_mapping", K) = q
    BY <2>3
  <2> HIDE DEF r, q
  <2>5. [m EXCEPT !.nodes = q] = [doc EXCEPT !.nodes = q]
    BY <2>1, <2>2
  <2> QED BY <2>2, <2>4, <2>5
<1> HIDE DEF m
<1>5. IsDocument(m)
  BY <1>3 DEF Resaved
<1>6. Resaved(m, e, "key_mapping", K)
  BY <1>1, <1>4, <1>5, DocumentReplaced
<1>7. IsDocument(e)
  BY <1>6 DEF Resaved
<1>8. IsSeq(doc.nodes) /\ IsSeq(m.nodes) /\ IsSeq(e.nodes)
  BY <1>5, <1>7, DocumentNodes
<1>9. Replaced(doc, m, "hash_mapping", H)
  <2>1. m.nodes = Replace(doc.nodes, "hash_mapping", H)
    BY <1>3 DEF Resaved
  <2> QED BY <1>8, <2>1, AfterReplacement
<1>10. Replaced(m, e, "key_mapping", K)
  <2>1. e.nodes = Replace(m.nodes, "key_mapping", K)
    BY <1>6 DEF Resaved
  <2> QED BY <1>8, <2>1, AfterReplacement
<1>11. SameSettings(Load(e), Load(doc))
  <2>1. \A tag : tag \notin {"hash_mapping", "key_mapping"} => Children(e, tag) = Children(doc, tag)
    BY <1>9, <1>10 DEF Replaced
  <2>2. /\ e.port = doc.port /\ e.thread_num = doc.thread_num /\ e.hash_value_max = doc.hash_value_max
        /\ e.guard = doc.guard /\ e.twemproxy = doc.twemproxy /\ e.vip = doc.vip
    BY <1>3, <1>6 DEF Resaved
  <2> QED BY <2>1, <2>2, SameLoad
<1>12. Ending(e, "hash_mapping", H)
  <2>1. PICK c \in Seq(Named(doc.nodes, "hash_mapping")) :
          Children(m, "hash_mapping") = Append(c, MappingNode("hash_mapping", H))
    BY <1>9 DEF Replaced
  <2>2. Children(e, "hash_mapping") = Append(c, MappingNode("hash_mapping", H))
    BY <1>10, <2>1 DEF Replaced
  <2>3. \A n \in Named(e.nodes, "hash_mapping") : IsSeq(n.items)
    BY <1>7, DocumentNodes
  <2> QED BY <1>8, <2>2, <2>3, LastItems
<1>13. Ending(e, "key_mapping", K)
  <2>1. PICK c \in Seq(Named(m.nodes, "key_mapping")) :
          Children(e, "key_mapping") = Append(c, MappingNode("key_mapping", K))
    BY <1>10 DEF Replaced
  <2>2. \A n \in Named(e.nodes, "key_mapping") : IsSeq(n.items)
    BY <1>7, DocumentNodes
  <2> QED BY <1>8, <2>1, <2>2, LastItems
<1>14. ASSUME NEW other \in {"hash_mapping", "key_mapping"}
       PROVE  /\ ItemSet(m, other) \subseteq ItemSet(doc, other) \union
                   (IF other = "hash_mapping" THEN ToSet(H) ELSE {})
              /\ ItemSet(e, other) \subseteq ItemSet(m, other) \union
                   (IF other = "key_mapping" THEN ToSet(K) ELSE {})
  BY <1>9, <1>10, ItemsReplaced
<1>15. /\ ItemSet(e, "hash_mapping") \subseteq ItemSet(doc, "hash_mapping") \union ToSet(H)
       /\ ItemSet(e, "key_mapping") \subseteq ItemSet(doc, "key_mapping") \union ToSet(K)
  BY <1>14
<1> QED BY <1>7, <1>11, <1>12, <1>13, <1>15 DEF SavedFrom, H, K

\* Tables that name groups of the configuration only.
TablesFit(cfg, slots, mapping) ==
    /\ IsTable(slots) /\ IsKeyTable(mapping)
    /\ \A n \in DOMAIN slots : slots[n] \in GroupNames(cfg)
    /\ \A k \in DOMAIN mapping : mapping[k] \in GroupNames(cfg)

\* What is saved can be loaded: no setting has changed, and no mapping is to a
\* group that is not there.
LEMMA SavedIsValid ==
    ASSUME NEW doc, IsDocument(doc), NEW slots, NEW mapping, TablesFit(Load(doc), slots, mapping),
           isValid(Load(doc)), NEW e, SavedFrom(doc, e, slots, mapping)
    PROVE  isValid(Load(e))
<1> DEFINE old == Load(doc)
           cfg == Load(e)
           H == HashItems(slots)
           K == KeyItems(mapping)
<1>1. SameSettings(cfg, old)
  BY DEF SavedFrom
<1>2. GroupNames(cfg) = GroupNames(old)
  <2> HIDE DEF cfg, old
  <2> QED BY <1>1 DEF SameSettings, GroupNames
<1>3. SettingsFit(cfg)
  <2>1. SettingsFit(old)
    BY DEF isValid
  <2> HIDE DEF cfg, old
  <2>2. cfg.port = old.port /\ cfg.threadNum = old.threadNum
    BY <1>1 DEF SameSettings
  <2> QED BY <2>1, <2>2 DEF SettingsFit
<1>4. GroupsFit(cfg)
  <2>1. GroupsFit(old)
    BY DEF isValid
  <2> HIDE DEF cfg, old
  <2>2. cfg.groups = old.groups
    BY <1>1 DEF SameSettings
  <2>3. \A g \in DOMAIN old.groups :
          /\ old.groups[g].name # ""
          /\ old.groups[g].policy \in {""} \union DOMAIN AnyCase
          /\ \A h \in 1..(g - 1) : old.groups[g].name # old.groups[h].name
    BY <2>1, Zenon DEF GroupsFit
  <2> QED BY <2>2, <2>3, Zenon DEF GroupsFit
<1>5. OptionsFit(cfg.groupOption)
  <2>1. OptionsFit(old.groupOption)
    BY DEF isValid
  <2> HIDE DEF cfg, old
  <2> QED BY <1>1, <2>1 DEF SameSettings
<1>6. cfg.twemproxy \/ RangesFit(cfg)
  <2>1. old.twemproxy \/ RangesFit(old)
    BY DEF isValid
  <2> HIDE DEF cfg, old
  <2>2. \A g : Covered(cfg, g) = Covered(old, g)
    BY <1>1 DEF SameSettings, Covered
  <2>3. cfg.groups = old.groups /\ cfg.hashValueMax = old.hashValueMax /\ cfg.twemproxy = old.twemproxy
    BY <1>1 DEF SameSettings
  <2>4. CASE old.twemproxy
    BY <2>3, <2>4
  <2>5. CASE RangesFit(old)
    BY <2>2, <2>3, <2>5 DEF RangesFit
  <2> QED BY <2>1, <2>4, <2>5
<1>7. IsSeq(doc.nodes) /\ IsSeq(e.nodes) /\ IsDocument(e)
  BY DocumentNodes DEF SavedFrom
<1>8. /\ \A n \in Named(doc.nodes, "hash_mapping") \union Named(doc.nodes, "key_mapping") : IsSeq(n.items)
      /\ \A n \in Named(e.nodes, "hash_mapping") \union Named(e.nodes, "key_mapping") : IsSeq(n.items)
  BY <1>7, DocumentNodes
<1>9. /\ ToSet(Items(doc, "hash_mapping")) = ItemSet(doc, "hash_mapping")
      /\ ToSet(Items(doc, "key_mapping")) = ItemSet(doc, "key_mapping")
      /\ ToSet(Items(e, "hash_mapping")) = ItemSet(e, "hash_mapping")
      /\ ToSet(Items(e, "key_mapping")) = ItemSet(e, "key_mapping")
  BY <1>7, <1>8, ItemsAre
<1>10. /\ cfg.hashMapping = Items(e, "hash_mapping") /\ cfg.keyMapping = Items(e, "key_mapping")
       /\ old.hashMapping = Items(doc, "hash_mapping") /\ old.keyMapping = Items(doc, "key_mapping")
  BY DEF Load
<1>11. ASSUME NEW item \in ToSet(H) PROVE item.value >= 0 /\ item.group \in GroupNames(old)
  <2>1. PICK k \in DOMAIN H : item = H[k]
    BY DEF ToSet
  <2>2. /\ Cardinality(DOMAIN slots) \in Nat /\ Len(H) = Cardinality(DOMAIN slots) /\ IsSeq(H)
        /\ DOMAIN slots = 0..(Cardinality(DOMAIN slots) - 1)
    BY HashItemsAre DEF TablesFit
  <2>3. k \in 1..Cardinality(DOMAIN slots)
    <3>1. DOMAIN H = 1..Len(H)
      BY <2>2 DEF IsSeq
    <3> QED BY <2>1, <2>2, <3>1
  <2>4. H[k].value = k - 1 /\ H[k].group = slots[k - 1]
    BY <2>3, HashItemsAre DEF TablesFit
  <2>5. k - 1 \in DOMAIN slots /\ k - 1 >= 0
    BY <2>2, <2>3
  <2>6. slots[k - 1] \in GroupNames(old)
    BY <2>5 DEF TablesFit
  <2> QED BY <2>1, <2>4, <2>5, <2>6
<1>12. ASSUME NEW item \in ToSet(K) PROVE item.group \in GroupNames(old)
  <2>1. PICK k \in DOMAIN K : item = K[k]
    BY DEF ToSet
  <2>2. K[k].key \in DOMAIN mapping /\ K[k].group = mapping[K[k].key]
    BY KeyItemsAre DEF TablesFit
  <2>3. mapping[K[k].key] \in GroupNames(old)
    BY <2>2 DEF TablesFit
  <2> QED BY <2>1, <2>2, <2>3
<1>13. MappingsFit(old)
  BY DEF isValid
<1>14. /\ ItemSet(e, "hash_mapping") \subseteq ToSet(old.hashMapping) \union ToSet(H)
       /\ ItemSet(e, "key_mapping") \subseteq ToSet(old.keyMapping) \union ToSet(K)
  BY <1>9, <1>10 DEF SavedFrom
<1> HIDE DEF cfg, old, H, K
<1>15. ASSUME NEW k \in DOMAIN cfg.hashMapping
       PROVE  cfg.hashMapping[k].value >= 0 /\ cfg.hashMapping[k].group \in GroupNames(cfg)
  <2>1. cfg.hashMapping[k] \in ToSet(old.hashMapping) \union ToSet(H)
    BY <1>9, <1>10, <1>14 DEF ToSet
  <2>2. CASE cfg.hashMapping[k] \in ToSet(old.hashMapping)
    <3>1. PICK j \in DOMAIN old.hashMapping : cfg.hashMapping[k] = old.hashMapping[j]
      BY <2>2 DEF ToSet
    <3> QED BY <1>2, <1>13, <3>1 DEF MappingsFit
  <2>3. CASE cfg.hashMapping[k] \in ToSet(H)
    BY <1>2, <1>11, <2>3
  <2> QED BY <2>1, <2>2, <2>3
<1>16. ASSUME NEW k \in DOMAIN cfg.keyMapping PROVE cfg.keyMapping[k].group \in GroupNames(cfg)
  <2>1. cfg.keyMapping[k] \in ToSet(old.keyMapping) \union ToSet(K)
    BY <1>9, <1>10, <1>14 DEF ToSet
  <2>2. CASE cfg.keyMapping[k] \in ToSet(old.keyMapping)
    <3>1. PICK j \in DOMAIN old.keyMapping : cfg.keyMapping[k] = old.keyMapping[j]
      BY <2>2 DEF ToSet
    <3> QED BY <1>2, <1>13, <3>1 DEF MappingsFit
  <2>3. CASE cfg.keyMapping[k] \in ToSet(K)
    BY <1>2, <1>12, <2>3
  <2> QED BY <2>1, <2>2, <2>3
<1>17. MappingsFit(cfg)
  BY <1>15, <1>16 DEF MappingsFit
<1>18. isValid(cfg)
  BY <1>3, <1>4, <1>5, <1>6, <1>17, Zenon DEF isValid
<1> QED BY <1>18 DEF cfg

\* The slots that were saved are the slots that are loaded: the list that was
\* saved is the last, and has every slot once.
LEMMA SavedSlots ==
    ASSUME NEW cfg, Dealt(cfg), ~cfg.twemproxy, NEW slots \in [Slots(cfg) -> GroupNames(cfg)],
           NEW X, NEW F \in Seq(X), cfg.hashMapping = F \o HashItems(slots)
    PROVE  slotTable(cfg) = slots
<1> DEFINE s == cfg.hashMapping
           H == HashItems(slots)
           c == Cardinality(DOMAIN slots)
           f == Len(F)
<1>1. IsTable(slots)
  BY DEF Slots, Dealt, IsTable
<1>2. /\ c \in Nat /\ Slots(cfg) = 0..(c - 1) /\ IsSeq(H) /\ Len(H) = c
      /\ \A k \in 1..c : H[k].value = k - 1 /\ H[k].group = slots[k - 1]
  BY <1>1, HashItemsAre
<1> HIDE DEF c, H
<1>3. /\ f \in Nat /\ DOMAIN s = 1..(f + c)
      /\ \A k \in 1..c : s[f + k] = H[k]
  <2>1. H \in Seq(ToSet(H))
    BY <1>2 DEF IsSeq
  <2>2. f \in Nat /\ Len(H) \in Nat /\ DOMAIN (F \o H) = 1..(f + Len(H))
        /\ \A k \in 1..Len(H) : (F \o H)[f + k] = H[k]
    BY <2>1
  <2> QED BY <1>2, <2>2 DEF H
<1> HIDE DEF f, s
<1>4. ASSUME NEW n \in Slots(cfg) PROVE SlotOwner(cfg, n) = slots[n]
  <2> DEFINE M == MappingOf(cfg, n)
             k == f + (n + 1)
  <2>1. n \in 0..(c - 1) /\ n + 1 \in 1..c /\ n \in Nat
    BY <1>2
  <2>2. M = {j \in 1..(f + c) : s[j].value = n}
    BY <1>3 DEF MappingOf, s
  <2>3. s[k].value = n /\ s[k].group = slots[n] /\ k \in 1..(f + c)
    <3>1. s[k] = H[n + 1]
      BY <1>3, <2>1
    <3>2. H[n + 1].value = (n + 1) - 1 /\ H[n + 1].group = slots[(n + 1) - 1]
      BY <1>2, <2>1
    <3>3. (n + 1) - 1 = n /\ k \in 1..(f + c)
      BY <1>2, <1>3, <2>1
    <3> QED BY <3>1, <3>2, <3>3
  <2>4. ASSUME NEW j \in M PROVE j <= k
    <3>1. j \in 1..(f + c) /\ s[j].value = n
      BY <2>2
    <3>2. SUFFICES ASSUME ~(j <= k) PROVE FALSE
      OBVIOUS
    <3>3. j - f \in 1..c /\ f + (j - f) = j /\ (j - f) - 1 # n
      BY <1>2, <1>3, <2>1, <3>1, <3>2
    <3>4. s[f + (j - f)] = H[j - f] /\ H[j - f].value = (j - f) - 1
      BY <1>2, <1>3, <3>3
    <3> QED BY <3>1, <3>3, <3>4
  <2>5. k \in M /\ M \in SUBSET (0..(f + c)) /\ M # {}
    BY <2>2, <2>3
  <2>6. Max(M) = k
    <3> HIDE DEF M, k
    <3>1. Max(M) \in M /\ \A y \in M : Max(M) >= y
      <4>1. f + c \in Nat
        BY <1>2, <1>3
      <4>2. M \in SUBSET (0..(f + c)) /\ M # {}
        BY <2>5
      <4> QED BY <4>1, <4>2, Greatest
    <3>2. Max(M) >= k /\ Max(M) <= k
      BY <2>4, <2>5, <3>1
    <3>3. Max(M) \in Int /\ k \in Int
      <4>1. \A y \in M : y \in Int
        BY <1>2, <1>3, <2>5
      <4> QED BY <2>5, <3>1, <4>1
    <3> QED BY <3>2, <3>3
  <2> QED BY <2>3, <2>5, <2>6 DEF SlotOwner, s
<1>5. slotTable(cfg) = [n \in Slots(cfg) |-> SlotOwner(cfg, n)]
  BY SlotsAsConfigured DEF Slots
<1> QED BY <1>4, <1>5

\* The keys that were saved are the keys that are loaded, if nothing else is.
LEMMA SavedKeys ==
    ASSUME NEW cfg, NEW mapping, IsKeyTable(mapping), "" \notin DOMAIN mapping,
           mapping = [k \in DOMAIN mapping |-> mapping[k]], cfg.keyMapping = KeyItems(mapping)
    PROVE  keyTable(cfg) = mapping
<1> DEFINE K == KeyItems(mapping)
<1>1. /\ IsSeq(K)
      /\ \A k \in DOMAIN K : K[k].key \in DOMAIN mapping /\ K[k].group = mapping[K[k].key]
      /\ \A key \in DOMAIN mapping : \E k \in DOMAIN K : K[k].key = key
  BY KeyItemsAre
<1> HIDE DEF K
<1>2. cfg.keyMapping \in Seq(ToSet(cfg.keyMapping)) /\ cfg.keyMapping = K
  BY <1>1 DEF IsSeq, K
<1>3. DOMAIN keyTable(cfg) = DOMAIN mapping
  <2>1. {e.key : e \in ToSet(K)} = DOMAIN mapping
    <3>1. \A item \in ToSet(K) : item.key \in DOMAIN mapping
      BY <1>1 DEF ToSet
    <3>2. \A x \in DOMAIN mapping : \E item \in ToSet(K) : item.key = x
      BY <1>1 DEF ToSet
    <3> QED BY <3>1, <3>2
  <2>2. DOMAIN keyTable(cfg) = {e.key : e \in ToSet(K)} \ {""}
    BY <1>2, KeysAsConfigured
  <2> QED BY <2>1, <2>2
<1>4. ASSUME NEW x \in DOMAIN mapping PROVE keyTable(cfg)[x] = mapping[x]
  <2>1. PICK j \in DOMAIN cfg.keyMapping : FirstEntry(cfg.keyMapping, x, j) /\ keyTable(cfg)[x] = cfg.keyMapping[j].group
    <3>1. x \in DOMAIN keyTable(cfg)
      BY <1>3
    <3>2. \A key \in DOMAIN keyTable(cfg) : \E j \in DOMAIN cfg.keyMapping :
            FirstEntry(cfg.keyMapping, key, j) /\ keyTable(cfg)[key] = cfg.keyMapping[j].group
      BY <1>2, KeyTableIs
    <3> QED BY <3>1, <3>2
  <2>2. K[j].key = x /\ keyTable(cfg)[x] = K[j].group /\ j \in DOMAIN K
    BY <1>2, <2>1 DEF FirstEntry
  <2> QED BY <1>1, <2>2
<1>5. keyTable(cfg) = [k \in DOMAIN keyTable(cfg) |-> keyTable(cfg)[k]]
  BY KeyTableIs, <1>2
<1> QED BY <1>3, <1>4, <1>5

\* A saved document restores the tables.
Restored(e, slots, mapping) ==
    LET cfg == Load(e) IN
    /\ isValid(cfg)
    /\ ~cfg.twemproxy => slotTable(cfg) = slots
    /\ Len(KeyNodes(e)) = 1 => keyTable(cfg) = mapping

\* The tables a worker may have, of its configuration.
TablesOf(cfg, slots, mapping) ==
    /\ TablesFit(cfg, slots, mapping)
    /\ ~cfg.twemproxy => slots \in [Slots(cfg) -> GroupNames(cfg)]
    /\ "" \notin DOMAIN mapping /\ mapping = [k \in DOMAIN mapping |-> mapping[k]]

\* What saveProxyLastState wrote is valid, and gives the tables when it is loaded.
LEMMA SavedRestored ==
    ASSUME NEW doc, IsDocument(doc), isValid(Load(doc)), NEW slots, NEW mapping,
           TablesOf(Load(doc), slots, mapping), NEW e, e = saved(doc, slots, mapping)
    PROVE  IsDocument(e) /\ SameSettings(Load(e), Load(doc)) /\ Restored(e, slots, mapping)
<1> DEFINE old == Load(doc)
           cfg == Load(e)
<1>1. SavedFrom(doc, e, slots, mapping)
  <2>1. IsTable(slots) /\ IsKeyTable(mapping)
    BY DEF TablesOf, TablesFit
  <2> QED BY <2>1, SavedDocument
<1>2. IsDocument(e) /\ SameSettings(cfg, old)
  BY <1>1 DEF SavedFrom
<1>3. isValid(cfg)
  <2>1. TablesFit(Load(doc), slots, mapping)
    BY DEF TablesOf
  <2> QED BY <1>1, <2>1, SavedIsValid
<1>4. cfg.hashMapping = Items(e, "hash_mapping") /\ cfg.keyMapping = Items(e, "key_mapping")
  BY DEF Load
<1>5. IsConfig(cfg)
  BY <1>2, LoadTypes
<1>6. ~cfg.twemproxy => Dealt(cfg)
  <2> HIDE DEF cfg
  <2> QED BY <1>3, <1>5, ConfiguredTables
<1>7. TablesOf(old, slots, mapping)
  OBVIOUS
<1> HIDE DEF cfg, old
<1>8. ASSUME ~cfg.twemproxy PROVE slotTable(cfg) = slots
  <2>1. slots \in [Slots(cfg) -> GroupNames(cfg)]
    <3>1. cfg.twemproxy = old.twemproxy /\ cfg.groups = old.groups /\ cfg.hashValueMax = old.hashValueMax
      BY <1>2 DEF SameSettings
    <3>2. ~old.twemproxy
      BY <1>8, <3>1
    <3>3. slots \in [Slots(old) -> GroupNames(old)]
      BY <1>7, <3>2 DEF TablesOf
    <3>4. Slots(cfg) = Slots(old) /\ GroupNames(cfg) = GroupNames(old)
      BY <3>1 DEF Slots, GroupNames
    <3> QED BY <3>3, <3>4
  <2>2. PICK F \in Seq(ItemSet(e, "hash_mapping")) : Items(e, "hash_mapping") = F \o HashItems(slots)
    BY <1>1 DEF SavedFrom, Ending
  <2>3. cfg.hashMapping = F \o HashItems(slots)
    BY <1>4, <2>2
  <2>4. Dealt(cfg)
    BY <1>6, <1>8
  <2> QED BY <1>8, <2>1, <2>3, <2>4, SavedSlots
<1>9. ASSUME Len(KeyNodes(e)) = 1 PROVE keyTable(cfg) = mapping
  <2>1. PICK F \in Seq(ItemSet(e, "key_mapping")) :
          Items(e, "key_mapping") = F \o KeyItems(mapping) /\ (Len(Children(e, "key_mapping")) = 1 => F = <<>>)
    BY <1>1 DEF SavedFrom, Ending
  <2>2. F = <<>>
    BY <1>9, <2>1 DEF KeyNodes
  <2>3. IsKeyTable(mapping) /\ "" \notin DOMAIN mapping /\ mapping = [k \in DOMAIN mapping |-> mapping[k]]
    BY <1>7 DEF TablesOf, TablesFit
  <2>4. KeyItems(mapping) \in Seq(ToSet(KeyItems(mapping)))
    BY <2>3, KeyItemsAre DEF IsSeq
  <2>5. <<>> \o KeyItems(mapping) = KeyItems(mapping)
    <3> HIDE DEF KeyItems
    <3> QED BY <2>4
  <2>6. cfg.keyMapping = KeyItems(mapping)
    BY <1>4, <2>1, <2>2, <2>5
  <2> QED BY <2>3, <2>6, SavedKeys
<1> QED BY <1>2, <1>3, <1>8, <1>9 DEF Restored, cfg, old

\* The tables a worker begins with.
LEMMA FirstTables ==
    ASSUME NEW cfg, IsConfig(cfg), isValid(cfg)
    PROVE  TablesOf(cfg, slotTable(cfg), keyTable(cfg))
<1> DEFINE slots == slotTable(cfg)
           mapping == keyTable(cfg)
<1>1. cfg.keyMapping \in Seq(ToSet(cfg.keyMapping))
  BY DEF IsConfig
<1>2. /\ DOMAIN mapping = {e.key : e \in ToSet(cfg.keyMapping)} \ {""}
      /\ mapping = [k \in DOMAIN mapping |-> mapping[k]]
  BY <1>1, KeyTableIs
<1>3. IsFiniteSet(DOMAIN mapping)
  <2> DEFINE s == cfg.keyMapping
             K == {s[k].key : k \in 1..Len(s)}
  <2>1. Len(s) \in Nat /\ DOMAIN s = 1..Len(s)
    BY <1>1
  <2>2. IsFiniteSet(K)
    <3>1. IsFiniteSet(1..Len(s))
      BY <2>1, FS_Interval
    <3> DEFINE f == [k \in 1..Len(s) |-> s[k].key]
    <3>2. K = {f[k] : k \in 1..Len(s)}
      OBVIOUS
    <3> HIDE DEF f, K
    <3> QED BY <3>1, <3>2, FiniteImage
  <2>3. DOMAIN mapping \subseteq K
    <3> HIDE DEF mapping
    <3> QED BY <1>2, <2>1 DEF ToSet
  <2> QED BY <2>2, <2>3, FS_Subset
<1>4. /\ \A n \in DOMAIN slots : slots[n] \in GroupNames(cfg)
      /\ \E c \in Int : DOMAIN slots = 0..(c - 1)
      /\ \A k \in DOMAIN mapping : mapping[k] \in GroupNames(cfg)
      /\ ~cfg.twemproxy => Dealt(cfg)
  BY ConfiguredTables
<1>5. ~cfg.twemproxy => slots \in [Slots(cfg) -> GroupNames(cfg)]
  BY <1>4, SlotsAsConfigured
<1>6. "" \notin DOMAIN mapping
  BY <1>2
<1> HIDE DEF slots, mapping
<1>7. TablesOf(cfg, slots, mapping)
  BY <1>2, <1>3, <1>4, <1>5, <1>6 DEF TablesOf, TablesFit, IsTable, IsKeyTable
<1> QED BY <1>7 DEF slots, mapping

\* The commands keep them so.
LEMMA SlotSet ==
    ASSUME NEW cfg, NEW slots, NEW mapping, TablesOf(cfg, slots, mapping),
           NEW n \in DOMAIN slots, NEW group \in GroupNames(cfg)
    PROVE  TablesOf(cfg, setSlot(slots, n, group), mapping)
<1> DEFINE r == setSlot(slots, n, group)
<1>1. r = [slots EXCEPT ![n] = group]
  BY DEF setSlot
<1>2. DOMAIN r = DOMAIN slots /\ \A v \in DOMAIN slots : r[v] = IF v = n THEN group ELSE slots[v]
  BY <1>1
<1>3. IsTable(r) /\ \A v \in DOMAIN r : r[v] \in GroupNames(cfg)
  <2> HIDE DEF r
  <2> QED BY <1>2 DEF TablesOf, TablesFit, IsTable
<1>4. ~cfg.twemproxy => r \in [Slots(cfg) -> GroupNames(cfg)]
  BY <1>1 DEF TablesOf
<1> HIDE DEF r
<1>5. TablesOf(cfg, r, mapping)
  BY <1>3, <1>4 DEF TablesOf, TablesFit
<1> QED BY <1>5 DEF r

\* ADDKEYMAPPING keeps them so.
LEMMA KeyAdded ==
    ASSUME NEW cfg, NEW slots, NEW mapping, TablesOf(cfg, slots, mapping),
           NEW x, NEW group \in GroupNames(cfg)
    PROVE  TablesOf(cfg, slots, addGroupKeyMapping(mapping, x, group))
<1> DEFINE r == addGroupKeyMapping(mapping, x, group)
           D == DOMAIN mapping \union {x}
<1>1. CASE x = "" \/ x \in DOMAIN mapping
  <2>1. r = mapping
    BY <1>1 DEF addGroupKeyMapping
  <2> QED BY <2>1
<1>2. CASE ~(x = "" \/ x \in DOMAIN mapping)
  <2>1. r = [k \in D |-> IF k = x THEN group ELSE mapping[k]]
    BY <1>2 DEF addGroupKeyMapping
  <2>2. IsFiniteSet(D)
    <3>1. IsFiniteSet(DOMAIN mapping)
      BY DEF TablesOf, TablesFit, IsKeyTable
    <3> QED BY <3>1, FS_AddElement
  <2>3. "" \notin D
    BY <1>2 DEF TablesOf
  <2>4. DOMAIN r = D /\ \A k \in D : r[k] = IF k = x THEN group ELSE mapping[k]
    BY <2>1
  <2>5. r = [k \in D |-> r[k]]
    BY <2>1
  <2>6. \A k \in D : r[k] \in GroupNames(cfg)
    BY <2>4 DEF TablesOf, TablesFit
  <2> HIDE DEF r, D
  <2>7. TablesOf(cfg, slots, r)
    BY <2>2, <2>3, <2>4, <2>5, <2>6 DEF TablesOf, TablesFit, IsKeyTable
  <2> QED BY <2>7 DEF r
<1> QED BY <1>1, <1>2

\* DELKEYMAPPING keeps them so.
LEMMA KeyRemoved ==
    ASSUME NEW cfg, NEW slots, NEW mapping, TablesOf(cfg, slots, mapping), NEW x
    PROVE  TablesOf(cfg, slots, removeGroupKeyMapping(mapping, x))
<1> DEFINE r == removeGroupKeyMapping(mapping, x)
           D == DOMAIN mapping \ {x}
<1>1. r = [k \in D |-> mapping[k]]
  BY DEF removeGroupKeyMapping
<1>2. IsFiniteSet(D)
  <2>1. IsFiniteSet(DOMAIN mapping)
    BY DEF TablesOf, TablesFit, IsKeyTable
  <2>2. D \subseteq DOMAIN mapping
    OBVIOUS
  <2> QED BY <2>1, <2>2, FS_Subset
<1>3. DOMAIN r = D /\ \A k \in D : r[k] = mapping[k]
  BY <1>1
<1>4. r = [k \in D |-> r[k]]
  BY <1>1
<1>5. "" \notin D /\ \A k \in D : r[k] \in GroupNames(cfg)
  BY <1>3 DEF TablesOf, TablesFit
<1> HIDE DEF r, D
<1>6. TablesOf(cfg, slots, r)
  BY <1>2, <1>3, <1>4, <1>5 DEF TablesOf, TablesFit, IsKeyTable
<1> QED BY <1>6 DEF r

-----------------------------------------------------------------------------
(* The invariant.                                                          *)

\* The memory of the instances.
MemoryTypes ==
    /\ DOMAIN document = Instances /\ DOMAIN loaded = Instances /\ DOMAIN changed = Instances
    /\ DOMAIN m_slots = Instances /\ DOMAIN m_keyMapping = Instances /\ DOMAIN m_groupList = Instances

Running(i) == worker[i] \in {"starting", "serving"}

\* The process that was launched has a valid configuration.
LoadedFits(i) ==
    IsDocument(loaded[i].document) /\ Config(i) = Load(loaded[i].document) /\ isValid(Config(i))

\* What a worker will save says the same as what it was launched with, but for the mappings.
DocumentFits(i) ==
    IsDocument(document[i]) /\ SameSettings(Load(document[i]), Config(i)) /\ isValid(Load(document[i]))

NoTables(i) == m_slots[i] = Empty /\ m_keyMapping[i] = Empty /\ m_groupList[i] = <<>>

ServingFits(i) ==
    /\ TablesOf(Config(i), m_slots[i], m_keyMapping[i])
    /\ m_groupList[i] = [g \in DOMAIN Config(i).groups |-> BuildGroup(Config(i).groups[g])]
    /\ ~changed[i] => m_slots[i] = slotTable(Config(i)) /\ m_keyMapping[i] = keyTable(Config(i))

InstanceFits(i) ==
    /\ main[i] = "solo" => Running(i)
    /\ main[i] = "guard" \/ Running(i) => LoadedFits(i)
    /\ Running(i) => DocumentFits(i)
    /\ ~Running(i) => NoTables(i)
    /\ ~Serving(i) => ~changed[i]
    /\ Serving(i) => ServingFits(i)

FilesFit ==
    /\ DOMAIN disk = Files /\ DOMAIN snapshot = Hours
    /\ disk["onecache.xml"] \in Documents
    /\ \A f \in Hours : disk[f] # NoDocument =>
         IsDocument(disk[f]) /\ Restored(disk[f], snapshot[f].slots, snapshot[f].keys)

MappingInv ==
    /\ ProcessTypes /\ MemoryTypes /\ commands \in 0..MaxCommands
    /\ FilesFit
    /\ \A i \in Instances : InstanceFits(i)

\* What an instance depends on is unchanged.
Kept(j) ==
    /\ main'[j] = main[j] /\ worker'[j] = worker[j] /\ loaded'[j] = loaded[j] /\ document'[j] = document[j]
    /\ m_slots'[j] = m_slots[j] /\ m_keyMapping'[j] = m_keyMapping[j] /\ m_groupList'[j] = m_groupList[j]
    /\ changed'[j] = changed[j]

\* An instance keeps what it satisfies while nothing it depends on changes.
LEMMA KeptFits ==
    ASSUME NEW j, InstanceFits(j), Kept(j)
    PROVE  InstanceFits(j)'
<1>1. Running(j)' <=> Running(j)
  BY DEF Kept, Running
<1>2. Serving(j)' <=> Serving(j)
  BY DEF Kept, Serving
<1>3. Config(j)' = Config(j)
  BY DEF Kept, Config
<1>4. LoadedFits(j)' <=> LoadedFits(j)
  BY <1>3 DEF Kept, LoadedFits
<1>5. DocumentFits(j)' <=> DocumentFits(j)
  BY <1>3 DEF Kept, DocumentFits
<1>6. NoTables(j)' <=> NoTables(j)
  BY DEF Kept, NoTables
<1>7. ServingFits(j)' <=> ServingFits(j)
  BY <1>3 DEF Kept, ServingFits
<1> QED BY <1>1, <1>2, <1>4, <1>5, <1>6, <1>7 DEF Kept, InstanceFits

\* A step of one instance that leaves the files alone.
LEMMA OneFits ==
    ASSUME MappingInv, ProcessTypes', MemoryTypes', UNCHANGED <<disk, snapshot, commands>>,
           NEW i \in Instances, \A j \in Instances \ {i} : Kept(j), InstanceFits(i)'
    PROVE  MappingInv'
<1>1. FilesFit'
  BY DEF MappingInv, FilesFit
<1>2. ASSUME NEW j \in Instances PROVE InstanceFits(j)'
  <2>1. CASE j = i
    BY <2>1
  <2>2. CASE j # i
    <3>1. InstanceFits(j) /\ Kept(j)
      BY <2>2 DEF MappingInv
    <3> QED BY <3>1, KeptFits
  <2> QED BY <2>1, <2>2
<1>3. (commands \in 0..MaxCommands)'
  BY DEF MappingInv
<1> QED BY <1>1, <1>2, <1>3 DEF MappingInv

\* At first there is a file, and nothing runs.
LEMMA MappingInitially == Init => MappingInv
<1> SUFFICES ASSUME Init PROVE MappingInv
  OBVIOUS
<1>1. ProcessTypes /\ MemoryTypes
  BY DEF Init, ProcessTypes, MemoryTypes
<1>2. commands \in 0..MaxCommands
  BY DocumentsAssumption DEF Init
<1>3. FilesFit
  <2>1. PICK d \in Documents : disk = [f \in Files |-> IF f = "onecache.xml" THEN d ELSE NoDocument]
    BY DEF Init
  <2>2. DOMAIN disk = Files /\ disk["onecache.xml"] = d
    BY <2>1 DEF Files
  <2>3. \A f \in Hours : disk[f] = NoDocument
    BY <2>1, DocumentsAssumption DEF Files
  <2>4. DOMAIN snapshot = Hours
    BY DEF Init
  <2> QED BY <2>2, <2>3, <2>4 DEF FilesFit
<1>4. ASSUME NEW i \in Instances PROVE InstanceFits(i)
  <2>1. main[i] = "off" /\ worker[i] = "none" /\ ~changed[i] /\ NoTables(i)
    BY DEF Init, NoTables
  <2> QED BY <2>1 DEF InstanceFits, Running, Serving
<1> QED BY <1>1, <1>2, <1>3, <1>4 DEF MappingInv

\* A launch checks the file before it loads it.
LEMMA MappingLaunch ==
    ASSUME MappingInv, NEW i \in Instances, NEW f \in Files, Launch(i, f)
    PROVE  MappingInv'
<1> DEFINE d == disk[f]
           cfg == Load(d)
<1>1. IsDocument(d)
  <2>1. CASE f \in Hours
    BY <2>1 DEF MappingInv, FilesFit, Launch
  <2>2. CASE f = "onecache.xml"
    BY <2>2, DocumentsAssumption DEF MappingInv, FilesFit
  <2> QED BY <2>1, <2>2 DEF Files
<1>2. isValid(cfg)
  BY DEF Launch
<1>3. cfg.guard \in BOOLEAN
  BY <1>1, LoadTypes DEF IsConfig
<1>4. /\ main' = [main EXCEPT ![i] = IF cfg.guard THEN "guard" ELSE "solo"]
      /\ worker' = [worker EXCEPT ![i] = IF cfg.guard THEN "none" ELSE "starting"]
      /\ loaded' = [loaded EXCEPT ![i] = [document |-> d, config |-> cfg]]
      /\ document' = [document EXCEPT ![i] = d]
      /\ ended' = [ended EXCEPT ![i] = FALSE]
      /\ main[i] = "off" /\ worker[i] = "none"
      /\ UNCHANGED <<disk, snapshot, m_slots, m_keyMapping, m_groupList, vip, changed, commands>>
  BY DEF Launch
<1> HIDE DEF d, cfg
<1>5. ProcessTypes'
  BY <1>4 DEF MappingInv, ProcessTypes
<1>6. MemoryTypes'
  BY <1>4 DEF MappingInv, MemoryTypes
<1>7. ASSUME NEW j \in Instances \ {i} PROVE Kept(j)
  BY <1>4 DEF MappingInv, ProcessTypes, MemoryTypes, Kept
<1>8. InstanceFits(i)'
  <2>1. /\ loaded'[i] = [document |-> d, config |-> cfg] /\ document'[i] = d
        /\ main'[i] = (IF cfg.guard THEN "guard" ELSE "solo")
        /\ worker'[i] = (IF cfg.guard THEN "none" ELSE "starting")
    BY <1>4 DEF MappingInv, ProcessTypes, MemoryTypes
  <2>2. Config(i)' = cfg /\ loaded'[i].document = d
    BY <2>1 DEF Config
  <2>3. LoadedFits(i)'
    BY <1>1, <1>2, <2>2 DEF LoadedFits, cfg
  <2>4. DocumentFits(i)'
    <3>1. SameSettings(cfg, cfg)
      BY DEF SameSettings
    <3> QED BY <1>1, <1>2, <2>1, <2>2, <3>1 DEF DocumentFits, cfg
  <2>5. NoTables(i)' /\ ~changed'[i]
    <3>1. NoTables(i) /\ ~changed[i]
      BY <1>4 DEF MappingInv, InstanceFits, Running, Serving
    <3> QED BY <1>4, <3>1 DEF NoTables
  <2>6. main'[i] = "solo" => worker'[i] = "starting"
    BY <1>3, <2>1
  <2>7. worker'[i] # "serving"
    BY <1>3, <2>1
  <2> QED BY <2>3, <2>4, <2>5, <2>6, <2>7 DEF InstanceFits, Running, Serving
<1> QED BY <1>4, <1>5, <1>6, <1>7, <1>8, OneFits

\* The end of a worker.
LEMMA MappingEnds ==
    ASSUME MappingInv, NEW i \in Instances, NEW how \in {"exited", "stopped", "crashed"}, Ends(i, how),
           UNCHANGED <<disk, snapshot, loaded, commands>>
    PROVE  MappingInv'
<1>1. ProcessTypes'
  BY DEF MappingInv, ProcessTypes, Ends
<1>2. MemoryTypes'
  BY DEF MappingInv, MemoryTypes, Ends
<1>3. ASSUME NEW j \in Instances \ {i} PROVE Kept(j)
  BY DEF MappingInv, ProcessTypes, MemoryTypes, Kept, Ends
<1>4. InstanceFits(i)'
  <2>1. /\ worker'[i] = (IF main[i] = "guard" THEN how ELSE "none")
        /\ main'[i] = (IF main[i] = "guard" THEN "guard" ELSE "off")
        /\ changed'[i] = FALSE /\ loaded' = loaded
        /\ m_slots'[i] = Empty /\ m_keyMapping'[i] = Empty /\ m_groupList'[i] = <<>>
    BY DEF MappingInv, ProcessTypes, MemoryTypes, Ends
  <2>2. NoTables(i)'
    BY <2>1 DEF NoTables, Empty
  <2>3. main'[i] = "guard" => LoadedFits(i)'
    <3>1. SUFFICES ASSUME main[i] = "guard" PROVE LoadedFits(i)'
      BY <2>1
    <3>2. LoadedFits(i)
      BY <3>1 DEF MappingInv, InstanceFits
    <3> QED BY <2>1, <3>2 DEF LoadedFits, Config
  <2>4. ~(worker'[i] \in {"starting", "serving"}) /\ main'[i] # "solo" /\ worker'[i] # "serving"
    BY <2>1
  <2> QED BY <2>1, <2>2, <2>3, <2>4 DEF InstanceFits, Running, Serving
<1> QED BY <1>1, <1>2, <1>3, <1>4, OneFits

\* Steps of the guard.
LEMMA MappingGuard ==
    ASSUME MappingInv, NEW i \in Instances, Fork(i) \/ ForkFails(i) \/ Reap(i) \/ KillGuard(i)
    PROVE  MappingInv'
<1>1. ProcessTypes'
  BY DEF MappingInv, ProcessTypes, Fork, ForkFails, Reap, KillGuard
<1>2. MemoryTypes'
  BY DEF MappingInv, MemoryTypes, Fork, ForkFails, Reap, KillGuard
<1>3. ASSUME NEW j \in Instances \ {i} PROVE Kept(j)
  BY DEF MappingInv, ProcessTypes, MemoryTypes, Kept, Fork, ForkFails, Reap, KillGuard
<1>4. InstanceFits(i) /\ main[i] = "guard" /\ LoadedFits(i)
  BY DEF MappingInv, InstanceFits, Fork, ForkFails, Reap, KillGuard
<1>5. UNCHANGED <<disk, snapshot, loaded, m_slots, m_keyMapping, m_groupList, changed, commands>>
  BY DEF Fork, ForkFails, Reap, KillGuard
<1>6. LoadedFits(i)'
  BY <1>4, <1>5 DEF LoadedFits, Config
<1>7. InstanceFits(i)'
  <2>1. CASE Fork(i)
    <3>1. /\ worker'[i] = "starting" /\ document'[i] = loaded[i].document
          /\ main'[i] = main[i] /\ worker[i] = "none"
      BY <2>1 DEF MappingInv, ProcessTypes, MemoryTypes, Fork
    <3>2. DocumentFits(i)'
      <4>1. SameSettings(Config(i), Config(i)) /\ Config(i)' = Config(i)
        BY <1>5 DEF SameSettings, Config
      <4> QED BY <1>4, <3>1, <4>1 DEF LoadedFits, DocumentFits
    <3>3. ~changed'[i]
      BY <1>4, <1>5, <3>1 DEF InstanceFits, Serving
    <3> QED BY <1>6, <3>1, <3>2, <3>3 DEF InstanceFits, Running, Serving
  <2>2. CASE ForkFails(i) \/ Reap(i)
    <3>1. /\ ~(worker[i] \in {"starting", "serving"}) /\ worker[i] # "serving"
          /\ worker'[i] = "none" /\ main'[i] \in {"off", "guard"}
      BY <2>2 DEF MappingInv, ProcessTypes, ForkFails, Reap
    <3>2. NoTables(i)' /\ ~changed'[i]
      <4>1. NoTables(i) /\ ~changed[i]
        BY <1>4, <3>1 DEF InstanceFits, Running, Serving
      <4> QED BY <1>5, <4>1 DEF NoTables
    <3> QED BY <1>6, <3>1, <3>2 DEF InstanceFits, Running, Serving
  <2>3. CASE KillGuard(i)
    <3>1. /\ main'[i] = "off" /\ document' = document
          /\ worker'[i] = IF worker[i] \in {"starting", "serving"} THEN worker[i] ELSE "none"
      BY <2>3 DEF MappingInv, ProcessTypes, KillGuard
    <3>2. Config(i)' = Config(i)
      BY <1>5 DEF Config
    <3>3. DocumentFits(i)' <=> DocumentFits(i)
      BY <3>1, <3>2 DEF DocumentFits
    <3>4. NoTables(i)' <=> NoTables(i)
      BY <1>5 DEF NoTables
    <3>5. ServingFits(i)' <=> ServingFits(i)
      BY <1>5, <3>2 DEF ServingFits
    <3>6. changed'[i] = changed[i]
      BY <1>5
    <3>7. (Running(i)' <=> Running(i)) /\ (Serving(i)' <=> Serving(i))
      BY <3>1 DEF Running, Serving
    <3> QED BY <1>4, <1>6, <3>1, <3>3, <3>4, <3>5, <3>6, <3>7 DEF InstanceFits
  <2> QED BY <2>1, <2>2, <2>3
<1> QED BY <1>1, <1>2, <1>3, <1>5, <1>7, OneFits

\* The server is run, or the worker ends at once.
LEMMA MappingStart ==
    ASSUME MappingInv, NEW i \in Instances, StartServer(i)
    PROVE  MappingInv'
<1> DEFINE cfg == Config(i)
<1>1. UNCHANGED <<disk, snapshot, commands>> /\ worker[i] = "starting"
  BY DEF StartServer
<1>2. CASE \E how \in {"stopped", "crashed"} : Ends(i, how) /\ UNCHANGED loaded
  BY <1>1, <1>2, MappingEnds
<1>3. CASE /\ worker' = [worker EXCEPT ![i] = "serving"]
           /\ m_groupList' = [m_groupList EXCEPT ![i] = [g \in DOMAIN cfg.groups |-> BuildGroup(cfg.groups[g])]]
           /\ m_slots' = [m_slots EXCEPT ![i] = slotTable(cfg)]
           /\ m_keyMapping' = [m_keyMapping EXCEPT ![i] = keyTable(cfg)]
           /\ UNCHANGED <<main, document, loaded, changed, ended>>
  <2>1. InstanceFits(i) /\ LoadedFits(i) /\ DocumentFits(i)
    BY <1>1 DEF MappingInv, InstanceFits, Running
  <2>2. IsConfig(cfg) /\ isValid(cfg)
    BY <2>1, LoadTypes DEF LoadedFits
  <2>3. TablesOf(cfg, slotTable(cfg), keyTable(cfg))
    BY <2>2, FirstTables
  <2> HIDE DEF cfg
  <2>4. ProcessTypes' /\ MemoryTypes'
    BY <1>3 DEF MappingInv, ProcessTypes, MemoryTypes
  <2>5. ASSUME NEW j \in Instances \ {i} PROVE Kept(j)
    BY <1>3 DEF MappingInv, ProcessTypes, MemoryTypes, Kept
  <2>6. /\ worker'[i] = "serving" /\ m_slots'[i] = slotTable(cfg) /\ m_keyMapping'[i] = keyTable(cfg)
        /\ m_groupList'[i] = [g \in DOMAIN cfg.groups |-> BuildGroup(cfg.groups[g])]
    BY <1>3 DEF MappingInv, ProcessTypes, MemoryTypes
  <2>7. cfg = Config(i) /\ Config(i)' = cfg
    BY <1>3 DEF cfg, Config
  <2>8. LoadedFits(i)' /\ DocumentFits(i)'
    BY <1>3, <2>1, <2>7 DEF LoadedFits, DocumentFits
  <2>9. ServingFits(i)'
    BY <2>3, <2>6, <2>7 DEF ServingFits
  <2>10. InstanceFits(i)'
    BY <2>6, <2>8, <2>9 DEF InstanceFits, Running, Serving
  <2> QED BY <1>1, <2>4, <2>5, <2>10, OneFits
<1> QED BY <1>2, <1>3 DEF StartServer

\* A command has changed the tables, and they are saved.
LEMMA MappingSave ==
    ASSUME MappingInv, NEW i \in Instances, NEW f \in Hours, Command(i), SaveTo(i, f),
           DOMAIN m_slots' = Instances, DOMAIN m_keyMapping' = Instances,
           \A j \in Instances \ {i} : m_slots'[j] = m_slots[j] /\ m_keyMapping'[j] = m_keyMapping[j],
           TablesOf(Config(i), m_slots'[i], m_keyMapping'[i])
    PROVE  MappingInv'
<1> DEFINE d == document[i]
           slots == m_slots'[i]
           mapping == m_keyMapping'[i]
           e == saved(d, slots, mapping)
           cfg == Config(i)
<1>1. /\ document' = [document EXCEPT ![i] = e] /\ disk' = [disk EXCEPT ![f] = e]
      /\ snapshot' = [snapshot EXCEPT ![f] = [slots |-> slots, keys |-> mapping]]
      /\ changed' = [changed EXCEPT ![i] = TRUE]
      /\ UNCHANGED <<main, worker, loaded, m_groupList, vip, ended>>
  BY DEF SaveTo
<1>2. worker[i] = "serving" /\ commands < MaxCommands /\ commands' = commands + 1
  BY DEF Command
<1>3. InstanceFits(i) /\ LoadedFits(i) /\ DocumentFits(i) /\ ServingFits(i)
  BY <1>2 DEF MappingInv, InstanceFits, Running, Serving
<1>4. SameSettings(Load(d), cfg) /\ IsDocument(d) /\ isValid(Load(d))
  BY <1>3 DEF DocumentFits
<1>5. TablesOf(Load(d), slots, mapping)
  <2> DEFINE old == Load(d)
  <2>1. TablesOf(cfg, slots, mapping)
    OBVIOUS
  <2>2. SameSettings(old, cfg)
    BY <1>4
  <2> HIDE DEF old, cfg, slots, mapping
  <2>3. old.twemproxy = cfg.twemproxy /\ old.groups = cfg.groups /\ old.hashValueMax = cfg.hashValueMax
    BY <2>2 DEF SameSettings
  <2>4. Slots(old) = Slots(cfg) /\ GroupNames(old) = GroupNames(cfg)
    BY <2>3 DEF Slots, GroupNames
  <2>5. TablesFit(old, slots, mapping)
    BY <2>1, <2>4 DEF TablesOf, TablesFit
  <2>6. ~old.twemproxy => slots \in [Slots(old) -> GroupNames(old)]
    <3>1. SUFFICES ASSUME ~old.twemproxy PROVE slots \in [Slots(cfg) -> GroupNames(cfg)]
      BY <2>4
    <3>2. ~cfg.twemproxy
      BY <2>3, <3>1
    <3> QED BY <2>1, <3>2 DEF TablesOf
  <2>7. "" \notin DOMAIN mapping /\ mapping = [k \in DOMAIN mapping |-> mapping[k]]
    BY <2>1 DEF TablesOf
  <2>8. TablesOf(old, slots, mapping)
    BY <2>5, <2>6, <2>7 DEF TablesOf
  <2> QED BY <2>8 DEF old
<1>6. IsDocument(e) /\ SameSettings(Load(e), Load(d)) /\ Restored(e, slots, mapping)
  <2> HIDE DEF d, slots, mapping
  <2> QED BY <1>4, <1>5, SavedRestored
<1> HIDE DEF e, d, cfg
<1>7. isValid(Load(e))
  BY <1>6 DEF Restored
<1>8. SameSettings(Load(e), cfg)
  BY <1>4, <1>6 DEF SameSettings
<1>9. ProcessTypes' /\ MemoryTypes'
  BY <1>1 DEF MappingInv, ProcessTypes, MemoryTypes
<1>10. FilesFit'
  <2>1. f # "onecache.xml" /\ f \in Files
    BY DocumentsAssumption DEF Files
  <2>2. DOMAIN disk' = Files /\ DOMAIN snapshot' = Hours /\ disk'["onecache.xml"] \in Documents
    BY <1>1, <2>1 DEF MappingInv, FilesFit
  <2>3. ASSUME NEW h \in Hours, disk'[h] # NoDocument
        PROVE  IsDocument(disk'[h]) /\ Restored(disk'[h], snapshot'[h].slots, snapshot'[h].keys)
    <3>1. CASE h = f
      <4>1. disk'[h] = e /\ snapshot'[h] = [slots |-> slots, keys |-> mapping]
        BY <1>1, <2>1, <3>1 DEF MappingInv, FilesFit
      <4> HIDE DEF slots, mapping
      <4>2. snapshot'[h].slots = slots /\ snapshot'[h].keys = mapping
        BY <4>1
      <4> QED BY <1>6, <4>1, <4>2
    <3>2. CASE h # f
      <4>1. disk'[h] = disk[h] /\ snapshot'[h] = snapshot[h]
        BY <1>1, <2>1, <3>2 DEF MappingInv, FilesFit, Files
      <4> QED BY <2>3, <4>1 DEF MappingInv, FilesFit
    <3> QED BY <3>1, <3>2
  <2> QED BY <2>2, <2>3 DEF FilesFit
<1>11. ASSUME NEW j \in Instances PROVE InstanceFits(j)'
  <2>1. CASE j # i
    <3>1. InstanceFits(j)
      BY DEF MappingInv
    <3>2. Kept(j)
      BY <1>1, <2>1 DEF MappingInv, MemoryTypes, Kept
    <3> QED BY <3>1, <3>2, KeptFits
  <2>2. CASE j = i
    <3>1. /\ document'[i] = e /\ changed'[i] = TRUE /\ worker'[i] = "serving"
          /\ loaded'[i] = loaded[i] /\ m_groupList'[i] = m_groupList[i]
      BY <1>1, <1>2 DEF MappingInv, MemoryTypes
    <3>2. Config(i)' = Config(i) /\ cfg = Config(i)
      BY <3>1 DEF Config, cfg
    <3>3. LoadedFits(i)'
      BY <1>3, <3>1, <3>2 DEF LoadedFits
    <3>4. DocumentFits(i)'
      BY <1>6, <1>7, <1>8, <3>1, <3>2 DEF DocumentFits
    <3>5. ServingFits(i)'
      BY <1>3, <3>1, <3>2 DEF ServingFits
    <3> QED BY <2>2, <3>1, <3>3, <3>4, <3>5 DEF InstanceFits, Running, Serving
  <2> QED BY <2>1, <2>2
<1>12. commands' \in 0..MaxCommands
  BY <1>2, DocumentsAssumption DEF MappingInv
<1> QED BY <1>9, <1>10, <1>11, <1>12 DEF MappingInv

\* The mapping commands name groups of the configuration only.
LEMMA MappingCommands ==
    ASSUME MappingInv, NEW i \in Instances, NEW f \in Hours,
           \/ \E n \in DOMAIN m_slots[i], g \in Groups(i) : onHashMapping(i, n, g, f)
           \/ \E k \in Keys, g \in Groups(i) : onAddKeyMapping(i, k, g, f)
           \/ \E k \in Keys : onDelKeyMapping(i, k, f)
    PROVE  MappingInv'
<1>1. MemoryTypes
  BY DEF MappingInv
<1>2. ASSUME worker[i] = "serving" PROVE TablesOf(Config(i), m_slots[i], m_keyMapping[i])
  BY <1>2 DEF MappingInv, InstanceFits, Serving, ServingFits
<1>3. ASSUME NEW n \in DOMAIN m_slots[i], NEW g, onHashMapping(i, n, g, f) PROVE MappingInv'
  <2>1. /\ Command(i) /\ SaveTo(i, f) /\ g \in GroupNames(Config(i)) /\ worker[i] = "serving"
        /\ m_slots' = [m_slots EXCEPT ![i] = setSlot(@, n, g)] /\ m_keyMapping' = m_keyMapping
    BY <1>3 DEF onHashMapping, Command
  <2>2. TablesOf(Config(i), setSlot(m_slots[i], n, g), m_keyMapping[i])
    BY <1>2, <2>1, SlotSet
  <2>3. /\ DOMAIN m_slots' = Instances /\ DOMAIN m_keyMapping' = Instances
        /\ \A j \in Instances \ {i} : m_slots'[j] = m_slots[j] /\ m_keyMapping'[j] = m_keyMapping[j]
        /\ m_slots'[i] = setSlot(m_slots[i], n, g) /\ m_keyMapping'[i] = m_keyMapping[i]
    BY <1>1, <2>1 DEF MemoryTypes
  <2>4. TablesOf(Config(i), m_slots'[i], m_keyMapping'[i])
    BY <2>2, <2>3
  <2> QED BY <2>1, <2>3, <2>4, MappingSave
<1>4. ASSUME NEW k, NEW g, onAddKeyMapping(i, k, g, f) PROVE MappingInv'
  <2>1. /\ Command(i) /\ SaveTo(i, f) /\ g \in GroupNames(Config(i)) /\ worker[i] = "serving"
        /\ m_keyMapping' = [m_keyMapping EXCEPT ![i] = addGroupKeyMapping(@, k, g)] /\ m_slots' = m_slots
    BY <1>4 DEF onAddKeyMapping, Command
  <2>2. TablesOf(Config(i), m_slots[i], addGroupKeyMapping(m_keyMapping[i], k, g))
    BY <1>2, <2>1, KeyAdded
  <2>3. /\ DOMAIN m_slots' = Instances /\ DOMAIN m_keyMapping' = Instances
        /\ \A j \in Instances \ {i} : m_slots'[j] = m_slots[j] /\ m_keyMapping'[j] = m_keyMapping[j]
        /\ m_slots'[i] = m_slots[i] /\ m_keyMapping'[i] = addGroupKeyMapping(m_keyMapping[i], k, g)
    BY <1>1, <2>1 DEF MemoryTypes
  <2>4. TablesOf(Config(i), m_slots'[i], m_keyMapping'[i])
    BY <2>2, <2>3
  <2> QED BY <2>1, <2>3, <2>4, MappingSave
<1>5. ASSUME NEW k, onDelKeyMapping(i, k, f) PROVE MappingInv'
  <2>1. /\ Command(i) /\ SaveTo(i, f) /\ worker[i] = "serving"
        /\ m_keyMapping' = [m_keyMapping EXCEPT ![i] = removeGroupKeyMapping(@, k)] /\ m_slots' = m_slots
    BY <1>5 DEF onDelKeyMapping, Command
  <2>2. TablesOf(Config(i), m_slots[i], removeGroupKeyMapping(m_keyMapping[i], k))
    BY <1>2, <2>1, KeyRemoved
  <2>3. /\ DOMAIN m_slots' = Instances /\ DOMAIN m_keyMapping' = Instances
        /\ \A j \in Instances \ {i} : m_slots'[j] = m_slots[j] /\ m_keyMapping'[j] = m_keyMapping[j]
        /\ m_slots'[i] = m_slots[i] /\ m_keyMapping'[i] = removeGroupKeyMapping(m_keyMapping[i], k)
    BY <1>1, <2>1 DEF MemoryTypes
  <2>4. TablesOf(Config(i), m_slots'[i], m_keyMapping'[i])
    BY <2>2, <2>3
  <2> QED BY <2>1, <2>3, <2>4, MappingSave
<1> QED BY <1>3, <1>4, <1>5

\* Nothing the invariant is about changes.
LEMMA MappingStutters ==
    ASSUME MappingInv, UNCHANGED vars
    PROVE  MappingInv'
<1>1. ProcessTypes' /\ MemoryTypes' /\ FilesFit' /\ commands' \in 0..MaxCommands
  BY DEF MappingInv, ProcessTypes, MemoryTypes, FilesFit, vars
<1>2. ASSUME NEW i \in Instances PROVE InstanceFits(i)'
  <2>1. InstanceFits(i) /\ Kept(i)
    BY DEF MappingInv, Kept, vars
  <2> QED BY <2>1, KeptFits
<1> QED BY <1>1, <1>2 DEF MappingInv

\* Every step keeps the invariant.
LEMMA MappingInductive == MappingInv /\ [Next]_vars => MappingInv'
<1> SUFFICES ASSUME MappingInv, [Next]_vars PROVE MappingInv'
  OBVIOUS
<1>1. ASSUME NEW i \in Instances, NEW f \in Files, Launch(i, f) PROVE MappingInv'
  BY <1>1, MappingLaunch
<1>2. ASSUME NEW i \in Instances, Fork(i) \/ ForkFails(i) \/ Reap(i) \/ KillGuard(i) PROVE MappingInv'
  BY <1>2, MappingGuard
<1>3. ASSUME NEW i \in Instances, StartServer(i) PROVE MappingInv'
  BY <1>3, MappingStart
<1>4. ASSUME NEW i \in Instances, NEW f \in Hours,
             \/ \E n \in DOMAIN m_slots[i], g \in Groups(i) : onHashMapping(i, n, g, f)
             \/ \E k \in Keys, g \in Groups(i) : onAddKeyMapping(i, k, g, f)
             \/ \E k \in Keys : onDelKeyMapping(i, k, f)
      PROVE  MappingInv'
  BY <1>4, MappingCommands
<1>5. ASSUME NEW i \in Instances, NEW force \in BOOLEAN, ShutDown(i, force) PROVE MappingInv'
  <2>1. PICK how \in {"exited", "stopped"} : Ends(i, how) /\ UNCHANGED <<disk, snapshot, loaded, commands>>
    BY <1>5 DEF ShutDown
  <2> QED BY <2>1, MappingEnds
<1>6. ASSUME NEW i \in Instances, Crash(i) PROVE MappingInv'
  <2>1. Ends(i, "crashed") /\ UNCHANGED <<disk, snapshot, loaded, commands>>
    BY <1>6 DEF Crash
  <2> QED BY <2>1, MappingEnds
<1>7. CASE UNCHANGED vars
  BY <1>7, MappingStutters
<1> QED BY <1>1, <1>2, <1>3, <1>4, <1>5, <1>6, <1>7 DEF Next

\* The invariant says what AsConfigured says.
LEMMA ConfiguredServes ==
    ASSUME MappingInv
    PROVE  AsConfigured
<1>1. TypeOK
  <2>1. ASSUME NEW i \in Instances
        PROVE  /\ main[i] = "solo" => worker[i] \in {"starting", "serving"}
               /\ worker[i] \notin {"starting", "serving"} =>
                    m_slots[i] = Empty /\ m_keyMapping[i] = Empty /\ m_groupList[i] = <<>>
               /\ worker[i] = "serving" => isValid(Config(i))
    BY DEF MappingInv, InstanceFits, Running, NoTables, LoadedFits
  <2> QED BY <2>1 DEF MappingInv, ProcessTypes, FilesFit, TypeOK
<1>2. ASSUME NEW i \in Instances, Serving(i)
      PROVE  /\ IsConfig(Config(i)) /\ isValid(Config(i)) /\ ServingFits(i)
             /\ Groups(i) = GroupNames(Config(i))
  <2>1. LoadedFits(i) /\ ServingFits(i)
    BY <1>2 DEF MappingInv, InstanceFits, Running, Serving
  <2>2. IsConfig(Config(i))
    BY <2>1, LoadTypes DEF LoadedFits
  <2> QED BY <1>2, <2>1, <2>2 DEF LoadedFits, Groups, Serving
<1>3. ASSUME NEW i \in Instances, Serving(i)
      PROVE  /\ \A n \in DOMAIN m_slots[i] : m_slots[i][n] \in Groups(i)
             /\ \A k \in DOMAIN m_keyMapping[i] : m_keyMapping[i][k] \in Groups(i)
  BY <1>2, <1>3 DEF ServingFits, TablesOf, TablesFit
<1>4. ASSUME NEW i \in Instances, Serving(i), NEW g \in DOMAIN m_groupList[i]
      PROVE  LET group == m_groupList[i][g]
                 hosts == Config(i).groups[g].hosts
             IN /\ group.name = Config(i).groups[g].name
                /\ Len(hosts) <= MaxServantCount =>
                     InFileOrder(group.m_master, hosts, TRUE) /\ InFileOrder(group.m_slaver, hosts, FALSE)
  <2> DEFINE info == Config(i).groups[g]
  <2>1. g \in DOMAIN Config(i).groups /\ m_groupList[i][g] = BuildGroup(info)
    BY <1>2, <1>4 DEF ServingFits
  <2>2. IsHosts(info.hosts)
    BY <1>2, <1>4, <2>1 DEF IsConfig, IsGroupInfo
  <2> HIDE DEF info
  <2>3. /\ BuildGroup(info).name = info.name
        /\ Len(info.hosts) <= MaxServantCount =>
             /\ InFileOrder(BuildGroup(info).m_master, info.hosts, TRUE)
             /\ InFileOrder(BuildGroup(info).m_slaver, info.hosts, FALSE)
    BY <2>2, BuiltInFileOrder
  <2> QED BY <2>1, <2>3 DEF info
<1>5. ASSUME NEW i \in Instances, Serving(i), ~changed[i]
      PROVE  LET cfg == Config(i) IN
             /\ ~cfg.twemproxy =>
                  m_slots[i] = [n \in 0..(cfg.hashValueMax - 1) |-> SlotOwner(cfg, n)]
             /\ DOMAIN m_keyMapping[i] = {e.key : e \in ToSet(cfg.keyMapping)} \ {""}
             /\ \A k \in DOMAIN m_keyMapping[i] :
                  m_keyMapping[i][k] = cfg.keyMapping[Min(EntriesOf(cfg, k))].group
  <2> DEFINE cfg == Config(i)
  <2>1. IsConfig(cfg) /\ isValid(cfg) /\ m_slots[i] = slotTable(cfg) /\ m_keyMapping[i] = keyTable(cfg)
    BY <1>2, <1>5 DEF ServingFits
  <2> HIDE DEF cfg
  <2>2. ASSUME ~cfg.twemproxy
        PROVE  m_slots[i] = [n \in 0..(cfg.hashValueMax - 1) |-> SlotOwner(cfg, n)]
    <3>1. Dealt(cfg)
      BY <2>1, <2>2, ConfiguredTables
    <3>2. slotTable(cfg) = [n \in 0..(cfg.hashValueMax - 1) |-> SlotOwner(cfg, n)]
      BY <2>2, <3>1, SlotsAsConfigured
    <3> QED BY <2>1, <3>2
  <2>3. /\ DOMAIN keyTable(cfg) = {e.key : e \in ToSet(cfg.keyMapping)} \ {""}
        /\ \A k \in DOMAIN keyTable(cfg) : keyTable(cfg)[k] = cfg.keyMapping[Min(EntriesOf(cfg, k))].group
    BY <2>1, KeysAsConfigured DEF IsConfig
  <2> QED BY <2>1, <2>2, <2>3 DEF cfg
<1> QED BY <1>1, <1>3, <1>4, <1>5 DEF AsConfigured

\* The invariant holds for ever.
LEMMA MappingAlways == Spec => []MappingInv
BY MappingInitially, MappingInductive, PTL DEF Spec

\* For any documents: a worker serves what its file says until a command changes
\* it, as startOneCache (main.cpp) builds the tables, started again after a crash
\* as well; and no slot, key or group is ever without a valid group.
THEOREM ServesItsFile == Spec => []AsConfigured
BY MappingAlways, ConfiguredServes, PTL

\* For any documents: whatever was launched, changed, killed and launched again
\* before, what saveProxyLastState (redis-proxy-config.cpp) left in a file is
\* valid, and gives the saved tables when it is loaded.
THEOREM SavedIsRestored == Spec => []SavedRestores
<1>1. MappingInv => SavedRestores
  BY DEF MappingInv, FilesFit, Restored, SavedRestores
<1> QED BY <1>1, MappingAlways, PTL
=============================================================================
