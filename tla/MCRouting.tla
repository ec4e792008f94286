------------------------------ MODULE MCRouting ------------------------------
(* Instances of Routing for TLC. *)
EXTENDS Routing

TwoGroups == {"g1", "g2"}
TheMasters == [g \in TwoGroups |-> IF g = "g1" THEN <<"m1">> ELSE <<"m2">>]
TheSlaves == [g \in TwoGroups |-> IF g = "g1" THEN <<"s1", "s2", "s3">> ELSE <<>>]
ThePolicy == [g \in TwoGroups |-> IF g = "g1" THEN "read_balance" ELSE "master_only"]
ThreeKeys == {"k1", "k2", "k3"}
TheHash == [k \in ThreeKeys |-> CASE k = "k1" -> 1 [] k = "k2" -> 3 [] k = "k3" -> 5]
NoKeyMapping == [k \in {} |-> "g1"]

Point(value, group) == [value |-> value, group |-> group]

\* One table of slots, and one continuum with two points of equal value: k1
\* belongs to the first of them, k2 to the last point, k3 to the first of all.
SomeTables ==
    {[twemproxy |-> FALSE, slots |-> <<Point(0, "g2"), Point(0, "g1")>>],
     [twemproxy |-> TRUE,
      slots |-> <<Point(0, "g2"), Point(1, "g1"), Point(1, "g2"), Point(3, "g1")>>]}

\* All of a group but one slave.
SomeDown == {{"m1", "s1", "s2"}}
=============================================================================
