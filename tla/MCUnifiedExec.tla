---------------------------- MODULE MCUnifiedExec ----------------------------
(* Three processes for a store of two.  Calls and ids are interchangeable. *)
EXTENDS UnifiedExec, TLC
CONSTANTS e1, e2, e3, p1, p2, p3, w1
Symmetry == Permutations(Execs) \cup Permutations(Ids)
=============================================================================
