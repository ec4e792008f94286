---------------------------- MODULE MCGroupEject ----------------------------
(* Instances of GroupEject for TLC. *)
EXTENDS GroupEject

CONSTANTS w1, w2

ThreeGroups == {1, 2, 3}
OneKey == {1}
TwoWorkers == {w1, w2}

Tables(T) == {[n \in Slots |-> t[n + 1]] : t \in T}

\* Three groups own slots, or one, which is not the one of the mapped key.
FourSlotTables == Tables({<<1, 1, 2, 3>>, <<3, 3, 3, 3>>})

\* A slot given to the group of another.
TypedPairs == {<<0, 2>>}
=============================================================================
