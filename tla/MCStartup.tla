------------------------------ MODULE MCStartup ------------------------------
(* Instances of Startup for TLC. *)
EXTENDS Startup

Host(name, master) == [tag |-> "host", name |-> name, master |-> master, nodes |-> <<>>]
Hosts == <<Host("a", TRUE), [Host("b", TRUE) EXCEPT !.nodes = <<[tag |-> "master", value |-> FALSE]>>],
           Host("c", FALSE)>>
Group(name, min, max) ==
    [tag |-> "group", name |-> name, policy |-> "", hashMin |-> min, hashMax |-> max, nodes |-> <<>>]
Option(attributes) == [tag |-> "group_option", attributes |-> attributes]
HashNode(exact, items) == [tag |-> "hash_mapping", exact |-> exact, items |-> items]
KeyNode(exact, items) == [tag |-> "key_mapping", exact |-> exact, items |-> items]
Slot(value, group) == [value |-> value, group |-> group]
Key(key, group) == [key |-> key, group |-> group]

Document(max, twemproxy, nodes) ==
    [port |-> 8221, thread_num |-> 15, hash_value_max |-> max, guard |-> TRUE,
     twemproxy |-> twemproxy, vip |-> FALSE, nodes |-> nodes]

TwoGroups == <<Group("g1", 0, 0), Group("g2", 1, 1)>>

\* The second group says its range in elements, the last of which count.
Element(tag, value) == [tag |-> tag, value |-> value]
GroupsOfHosts ==
    << [Group("g1", 0, 0) EXCEPT !.nodes = Hosts],
       [Group("g2", 0, 0) EXCEPT !.policy = "READ_BALANCE", !.nodes =
          <<Element("hash_max", 1), Element("hash_min", 0)>> \o SubSeq(Hosts, 2, 3)
            \o <<Element("hash_min", 1)>>] >>

\* A mapping to a group that comes later, and one of a slot that is not there.
Ordinary ==
    Document(2, FALSE, TwoGroups \o
        <<HashNode(TRUE, <<Slot(0, "g2"), Slot(2, "g1")>>), KeyNode(TRUE, <<Key("k1", "g1")>>)>>)

\* Mappings that contradict one another, in nodes of both spellings; the
\* settings as elements; no guard.
Contradictory ==
    [Document(7, FALSE,
        <<[tag |-> "hash", value |-> 2]>>
          \o <<HashNode(FALSE, <<Slot(1, "g1"), Slot(1, "g2")>>), KeyNode(TRUE, <<Key("k1", "g2")>>)>>
          \o GroupsOfHosts
          \o << Option([backend_retry_limit |-> 0, auto_eject_group |-> TRUE]),
                Option([backend_retry_limit |-> 5, auto_eject_group |-> FALSE]) >>
          \o <<KeyNode(TRUE, <<Key("k1", "g1"), Key("", "g2"), Key("k2", "g1")>>), HashNode(TRUE, <<Slot(0, "g1")>>)>>)
     EXCEPT !.guard = FALSE]

Twemproxy ==
    Document(0, TRUE, <<Group("g1", 0, 0), Group("g2", 0, 0), HashNode(TRUE, <<Slot(0, "g2")>>)>>)

\* Nothing at all, and less than nothing.
NoSlots == Document(0, FALSE, <<>>)
NegativeSlots == Document(-1, FALSE, <<>>)

\* Documents that are not valid.
Overlapping == Document(2, FALSE, <<Group("g1", 0, 1), Group("g2", 1, 1)>>)
Incomplete == Document(2, FALSE, <<Group("g1", 0, 0)>>)
SameName == Document(2, FALSE, <<Group("g1", 0, 0), Group("g1", 1, 1)>>)
Unknown == Document(2, FALSE, TwoGroups \o <<KeyNode(TRUE, <<Key("k1", "g3")>>)>>)
NeverRetried == Document(2, FALSE, TwoGroups \o
    <<Option([auto_eject_group |-> TRUE]), Option([group_retry_time |-> 0])>>)
OtherPolicy == Document(1, FALSE, <<[Group("g1", 0, 0) EXCEPT !.policy = "balance"]>>)

\* The instances differ in nothing.
Symmetry == Permutations(Instances)

AllDocuments == {Ordinary, Contradictory, Twemproxy, NoSlots, NegativeSlots,
                 Overlapping, Incomplete, SameName, Unknown,
                 NeverRetried, OtherPolicy}

ThePoints == [g \in {"g1", "g2"} |-> IF g = "g1" THEN <<3, 1>> ELSE <<2, 4>>]
=============================================================================
