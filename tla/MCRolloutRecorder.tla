------------------------- MODULE MCRolloutRecorder -------------------------
(* Model-checking instance of RolloutRecorder. *)
EXTENDS RolloutRecorder
=============================================================================
