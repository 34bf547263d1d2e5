-------------------------- MODULE MCAgentRegistry --------------------------
(* Model-checking instance of AgentRegistry. *)
EXTENDS AgentRegistry, TLC

Symm == Permutations(Spawners) \cup Permutations(Closers)
=============================================================================
