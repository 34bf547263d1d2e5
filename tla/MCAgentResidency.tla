-------------------------- MODULE MCAgentResidency --------------------------
(* Model-checking instance of AgentResidency. *)
EXTENDS AgentResidency, TLC

Symm == Permutations(Actors)
=============================================================================
