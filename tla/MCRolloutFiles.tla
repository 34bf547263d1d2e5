--------------------------- MODULE MCRolloutFiles ---------------------------
(* Model-checking instance of RolloutFiles. *)
EXTENDS RolloutFiles, TLC

Symm == Permutations(Workers) \cup Permutations(Inodes)
=============================================================================
