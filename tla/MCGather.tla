------------------------------ MODULE MCGather ------------------------------
(* Instances of Gather for TLC. *)
EXTENDS Gather

CONSTANTS own, other

OneOther == {other}
=============================================================================
