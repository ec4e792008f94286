----------------------------- MODULE MCStatistics -----------------------------
(* Instances of Statistics for TLC. *)
EXTENDS Statistics, TLC

\* Neither workers nor keys are told apart.
Symmetry == Permutations(Keys) \union Permutations(Workers)
=============================================================================
