----------------------------- MODULE ProxyConfig -----------------------------
(***************************************************************************)
(* The configuration file: what CRedisProxyCfg::loadCfg reads from it,     *)
(* what CRedisProxyCfgChecker::isValid accepts, the tables startOneCache   *)
(* builds, and what saveProxyLastState writes back                         *)
(* (redis-proxy-config.cpp, main.cpp).                                     *)
(*                                                                         *)
(* A document is a record of the root's attributes and the sequence of its *)
(* children.  Names are compared without regard to case when they are      *)
(* read, and exactly when they are saved: exact says how a name is written.*)
(* Options that no other part of the models uses, and what a host is beside *)
(* its name and role, are left out.                                        *)
(***************************************************************************)
EXTENDS Integers, SequencesExt

CONSTANTS
    Ketama,         \* [group names -> sequence of values]: ketama_hash; no two
                    \* values are the same
    HashMax,        \* REDIS_PROXY_HASH_MAX
    MaxServantCount

ASSUME KetamaAssumption ==
    /\ \A g \in DOMAIN Ketama : Ketama[g] \in Seq(Nat)
    /\ \A g, h \in DOMAIN Ketama : \A j \in DOMAIN Ketama[g], k \in DOMAIN Ketama[h] :
         Ketama[g][j] = Ketama[h][k] => g = h /\ j = k

ASSUME ServantCountAssumption == MaxServantCount \in Nat

NoGroup == "NULL"

IsSeq(s) == s \in Seq(ToSet(s))

\* The nodes a document may have: numbers where numbers are read (atoi), and so on.
IsHost(n) ==
    /\ n.master \in BOOLEAN /\ IsSeq(n.nodes)
    /\ \A m \in ToSet(n.nodes) : m.tag = "master" => m.value \in BOOLEAN

IsGroup(n) ==
    /\ n.name \in DOMAIN Ketama /\ n.hashMin \in Int /\ n.hashMax \in Int /\ IsSeq(n.nodes)
    /\ \A m \in ToSet(n.nodes) :
         /\ m.tag = "name" => m.value \in DOMAIN Ketama
         /\ m.tag \in {"hash_min", "hash_max"} => m.value \in Int
         /\ m.tag = "host" => IsHost(m)

IsNode(n) ==
    /\ n.tag = "hash" => n.value \in Int
    /\ n.tag = "group" => IsGroup(n)
    /\ n.tag \in {"hash_mapping", "key_mapping"} => n.exact \in BOOLEAN /\ IsSeq(n.items)
    /\ n.tag = "hash_mapping" => \A item \in ToSet(n.items) : item.value \in Int

IsDocument(doc) ==
    /\ doc \in [port : Int, thread_num : Int, hash_value_max : Int, guard : BOOLEAN,
                twemproxy : BOOLEAN, vip : BOOLEAN, nodes : Seq(ToSet(doc.nodes))]
    /\ \A n \in ToSet(doc.nodes) : IsNode(n)

-----------------------------------------------------------------------------
(* loadCfg.                                                                *)

Children(doc, tag) ==
    LET found[n \in 0..Len(doc.nodes)] ==
          IF n = 0 THEN <<>>
          ELSE IF doc.nodes[n].tag = tag THEN Append(found[n - 1], doc.nodes[n])
          ELSE found[n - 1]
    IN found[Len(doc.nodes)]

\* Attributes are read first, then the elements: the last one counts.
Setting(doc, tag, attribute) ==
    LET elements == Children(doc, tag)
    IN IF elements = <<>> THEN attribute ELSE elements[Len(elements)].value

Items(doc, tag) ==
    LET nodes == Children(doc, tag) IN FlattenSeq([k \in DOMAIN nodes |-> nodes[k].items])

\* A group and its hosts: attributes, then elements.
LoadHost(node) ==
    [name |-> Setting(node, "host_name", node.name), master |-> Setting(node, "master", node.master)]

getGroupNode(node) ==
    [name |-> Setting(node, "name", node.name),
     policy |-> node.policy,
     hashMin |-> Setting(node, "hash_min", node.hashMin),
     hashMax |-> Setting(node, "hash_max", node.hashMax),
     hosts |-> LET hosts == Children(node, "host") IN [k \in DOMAIN hosts |-> LoadHost(hosts[k])]]

\* The attributes of all group_option nodes: a flag that is on stays on.
Flags == {"auto_eject_group", "eject_after_restore"}
GroupOption == [backend_retry_interval |-> 1, backend_retry_limit |-> 100, group_retry_time |-> 30,
                auto_eject_group |-> FALSE, eject_after_restore |-> FALSE]

setGroupOption(option, node) ==
    [name \in DOMAIN option |->
        IF name \notin DOMAIN node.attributes THEN option[name]
        ELSE IF name \in Flags THEN option[name] \/ node.attributes[name]
        ELSE node.attributes[name]]

\* The entries of all mapping nodes, however their names are written.
Load(doc) ==
    [port |-> Setting(doc, "port", doc.port),
     threadNum |-> Setting(doc, "thread_num", doc.thread_num),
     hashValueMax |-> Setting(doc, "hash", doc.hash_value_max),
     guard |-> doc.guard,
     twemproxy |-> doc.twemproxy,
     vip |-> doc.vip,
     groups |-> LET nodes == Children(doc, "group") IN [k \in DOMAIN nodes |-> getGroupNode(nodes[k])],
     groupOption |-> FoldLeft(setGroupOption, GroupOption, Children(doc, "group_option")),
     hashMapping |-> Items(doc, "hash_mapping"),
     keyMapping |-> Items(doc, "key_mapping")]

-----------------------------------------------------------------------------
(* isValid.                                                                *)

Covered(cfg, g) == cfg.groups[g].hashMin..cfg.groups[g].hashMax
GroupNames(cfg) == {cfg.groups[g].name : g \in DOMAIN cfg.groups}

RangesFit(cfg) ==
    /\ cfg.hashValueMax <= HashMax
    /\ \A g \in DOMAIN cfg.groups :
         /\ cfg.groups[g].hashMin <= cfg.groups[g].hashMax
         /\ Covered(cfg, g) \subseteq 0..(cfg.hashValueMax - 1)
         /\ \A h \in 1..(g - 1) : Covered(cfg, g) \intersect Covered(cfg, h) = {}
    /\ \A v \in 0..(cfg.hashValueMax - 1) :
         \E g \in DOMAIN cfg.groups : v \in Covered(cfg, g)

Policies == {"read_balance", "master_only"}
AnyCase == [policy \in Policies \union {"READ_BALANCE"} |->
              IF policy = "READ_BALANCE" THEN "read_balance" ELSE policy]

OptionsFit(option) ==
    /\ option.backend_retry_interval > 0 /\ option.backend_retry_limit > 0
    /\ option.auto_eject_group => option.group_retry_time > 0

Ports == 1..65535
SettingsFit(cfg) == cfg.port \in Ports /\ cfg.threadNum > 0

GroupsFit(cfg) ==
    \A g \in DOMAIN cfg.groups :
      /\ cfg.groups[g].name # ""
      /\ cfg.groups[g].policy \in {""} \union DOMAIN AnyCase
      /\ \A h \in 1..(g - 1) : cfg.groups[g].name # cfg.groups[h].name

MappingsFit(cfg) ==
    /\ \A k \in DOMAIN cfg.hashMapping :
         cfg.hashMapping[k].value >= 0 /\ cfg.hashMapping[k].group \in GroupNames(cfg)
    /\ \A k \in DOMAIN cfg.keyMapping : cfg.keyMapping[k].group \in GroupNames(cfg)

isValid(cfg) ==
    /\ SettingsFit(cfg)
    /\ GroupsFit(cfg)
    /\ OptionsFit(cfg.groupOption)
    /\ cfg.twemproxy \/ RangesFit(cfg)
    /\ MappingsFit(cfg)

-----------------------------------------------------------------------------
(* startOneCache: the tables.  A slot table is a function on 0..m_slotCount-1. *)

setSlot(slots, n, group) == IF n \in DOMAIN slots THEN [slots EXCEPT ![n] = group] ELSE slots

\* RedisProxy::group, when the first count groups have been added.
groupNamed(cfg, count, name) ==
    IF \E g \in 1..count : cfg.groups[g].name = name THEN name ELSE NoGroup

\* Fault: the mappings come before the range of the group.
AddGroup_RangeLast(cfg, slots, g) ==
    LET mapped == FoldLeft(LAMBDA s, m : setSlot(s, m.value, groupNamed(cfg, g, m.group)),
                           slots, cfg.hashMapping)
    IN [v \in DOMAIN slots |-> IF v \in Covered(cfg, g) THEN cfg.groups[g].name ELSE mapped[v]]

\* One round of the loop over the groups: the range of the group, and then all
\* mappings, those to groups that are still to come as well.
AddGroup(cfg, slots, g) ==
    LET ranged == [v \in DOMAIN slots |->
                     IF v \in Covered(cfg, g) THEN cfg.groups[g].name ELSE slots[v]]
    IN FoldLeft(LAMBDA s, m : setSlot(s, m.value, groupNamed(cfg, g, m.group)),
                ranged, cfg.hashMapping)

\* A group is built: its policy by its exact name, its servers in the order of
\* the file, those beyond MaxServantCount left out.
createPolicy(name) == IF name \in Policies THEN name ELSE "master_only"

addServer(group, host) ==
    LET list == IF host.master THEN "m_master" ELSE "m_slaver"
    IN IF Len(group[list]) >= MaxServantCount THEN group
       ELSE [group EXCEPT ![list] = Append(@, host.name)]

BuildGroup(info) ==
    FoldLeft(addServer,
             [name |-> info.name, policy |-> createPolicy(info.policy), m_master |-> <<>>, m_slaver |-> <<>>],
             info.hosts)

\* Twemproxy mode: the points of all groups, sorted by their values.
Continuum(cfg) ==
    LET points == UNION {{[value |-> Ketama[cfg.groups[g].name][k], group |-> cfg.groups[g].name] :
                            k \in DOMAIN Ketama[cfg.groups[g].name]} : g \in DOMAIN cfg.groups}
        before(p) == {q \in points : q.value < p.value}
    IN [n \in 0..(Cardinality(points) - 1) |->
          (CHOOSE p \in points : Cardinality(before(p)) = n).group]

slotTable(cfg) ==
    IF cfg.twemproxy THEN Continuum(cfg)
    ELSE FoldLeft(LAMBDA s, g : AddGroup(cfg, s, g),
                  [v \in 0..(cfg.hashValueMax - 1) |-> NoGroup],
                  [g \in DOMAIN cfg.groups |-> g])

\* The key mapping is a function on the keys that have one.  An entry for a key
\* that has one already changes nothing.
addGroupKeyMapping(mapping, key, group) ==
    IF key = "" \/ key \in DOMAIN mapping THEN mapping
    ELSE [k \in DOMAIN mapping \union {key} |-> IF k = key THEN group ELSE mapping[k]]

removeGroupKeyMapping(mapping, key) ==
    [k \in DOMAIN mapping \ {key} |-> mapping[k]]

keyTable(cfg) ==
    FoldLeft(LAMBDA m, e : addGroupKeyMapping(m, e.key, e.group), [k \in {} |-> NoGroup],
             cfg.keyMapping)

-----------------------------------------------------------------------------
(* saveProxyLastState.                                                     *)

\* GetNodePointerByName and RemoveChild: the first child of exactly that name.
RemoveNamed(nodes, tag) ==
    LET found == {k \in DOMAIN nodes : nodes[k].tag = tag /\ nodes[k].exact}
    IN IF found = {} THEN nodes ELSE RemoveAt(nodes, Min(found))

Replace(nodes, tag, items) ==
    Append(RemoveNamed(nodes, tag), [tag |-> tag, exact |-> TRUE, items |-> items])

HashItems(slots) ==
    [k \in 1..Cardinality(DOMAIN slots) |-> [value |-> k - 1, group |-> slots[k - 1]]]

KeyItems(mapping) ==
    LET keys == SetToSeq(DOMAIN mapping)
    IN [k \in DOMAIN keys |-> [key |-> keys[k], group |-> mapping[keys[k]]]]

\* Fault: the key mapping is not saved.
saved_SlotsOnly(doc, slots, mapping) ==
    [doc EXCEPT !.nodes = Replace(@, "hash_mapping", HashItems(slots))]

saved(doc, slots, mapping) ==
    [doc EXCEPT !.nodes = Replace(Replace(@, "hash_mapping", HashItems(slots)),
                                  "key_mapping", KeyItems(mapping))]
=============================================================================
