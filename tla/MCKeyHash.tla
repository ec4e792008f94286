------------------------------ MODULE MCKeyHash ------------------------------
(* Instances of KeyHash for TLC. *)
EXTENDS KeyHash

AllNames == Functions \union {"unknown"}

\* Two full blocks of Jenkins and every rest, and both sides of the limits of
\* the blocks of MD5 and of what its last one has room for.
TheLengths == 0..26 \union {54, 55, 56, 57, 63, 64, 65, 119, 120, 128}
=============================================================================
