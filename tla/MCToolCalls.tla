----------------------------- MODULE MCToolCalls -----------------------------
(* A parallel call that is aborted and an exclusive one that is waited for.    *)
EXTENDS ToolCalls
CONSTANTS c1, c2
=============================================================================
