----------------------------- MODULE RolloutLog -----------------------------
(***************************************************************************)
(* What rollout persistence promises to the rest of the program, without   *)
(* files, queues or retries: one append-only log per thread.  An item is   *)
(* accepted at the end of the log, a growing prefix of the log is durable, *)
(* and a caller is only ever told that items of that prefix are safe.      *)
(* What is accepted but not yet durable may be lost, as a suffix.          *)
(***************************************************************************)
EXTENDS Naturals, Sequences, SequencesExt

CONSTANT Items

VARIABLES
    log,       \* the accepted items, oldest first
    durable,   \* how many of them are safe
    promised   \* the items some caller was told are safe

logVars == <<log, durable, promised>>

DurableItems == {log[k] : k \in 1 .. durable}

LogInit == log = <<>> /\ durable = 0 /\ promised = {}

(* Items are accepted in order and at most once. *)
Accept ==
    /\ IsPrefix(log, log') /\ IsInjective(log') /\ ToSet(log') \subseteq Items
    /\ UNCHANGED <<durable, promised>>

Harden ==
    /\ durable < Len(log)
    /\ durable' = durable + 1
    /\ UNCHANGED <<log, promised>>

Promise ==
    /\ promised \subseteq promised' /\ promised' \subseteq promised \cup DurableItems
    /\ UNCHANGED <<log, durable>>

LoseSuffix ==
    /\ log' = SubSeq(log, 1, durable)
    /\ UNCHANGED <<durable, promised>>

LogNext == Accept \/ Harden \/ Promise \/ LoseSuffix

LogSpec == LogInit /\ [][LogNext]_logVars
=============================================================================
