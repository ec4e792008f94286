--------------------------- MODULE MCRedisServant ---------------------------
(***************************************************************************)
(* Instances of RedisServant for TLC: a few sessions on a pool of one or   *)
(* two connections, with as many connection identities as can exist at     *)
(* once.                                                                   *)
(***************************************************************************)
EXTENDS RedisServant

CONSTANTS p1, p2, p3, c1, c2, c3, c4, c5, c6

Packets3 == {p1, p2, p3}
Conns4 == {c1, c2, c3, c4}
Conns5 == {c1, c2, c3, c4, c5}

Symmetry == Permutations(Packets) \union Permutations(Conns)
=============================================================================
