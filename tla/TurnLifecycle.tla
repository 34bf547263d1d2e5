--------------------------- MODULE TurnLifecycle ---------------------------
(***************************************************************************)
(* What a session promises about its turns, without queues, locks, tokens  *)
(* or tokio tasks.  One turn runs at a time.  It ends by itself, or whoever*)
(* takes it away reports it aborted; a turn replaced by a racing start is  *)
(* lost without a report.  The client is told in order and once, and what  *)
(* the conversation gains comes from a turn that was announced and is not  *)
(* over, or is an item injected between turns; nothing is recorded twice.  *)
(***************************************************************************)
EXTENDS Sequences, SequencesExt

CONSTANTS Turns, Items, Injections

VARIABLES
    status,   \* per turn: new, running, ending, aborting, over or lost
    sent,     \* per turn, the lifecycle events the client was sent
    history   \* the items of the conversation, in order

lifeVars == <<status, sent, history>>

LifeInit ==
    /\ status = [t \in Turns |-> "new"]
    /\ sent = [t \in Turns |-> <<>>]
    /\ history = <<>>

Becomes(t, s) == status' = [status EXCEPT ![t] = s]
Sends(t, event) == sent' = [sent EXCEPT ![t] = Append(@, event)]

(* A turn starts when none runs, or takes the place of the one that runs. *)
Start(t) ==
    /\ status[t] = "new"
    /\ \A u \in Turns : status[u] # "running"
    /\ Becomes(t, "running")
    /\ UNCHANGED <<sent, history>>

Replace(t, u) ==
    /\ status[t] = "new" /\ status[u] = "running"
    /\ status' = [status EXCEPT ![t] = "running", ![u] = "lost"]
    /\ UNCHANGED <<sent, history>>

(* A turn may be taken away before it was announced, and announced after. *)
Announce(t) ==
    /\ status[t] \in {"running", "aborting"} /\ sent[t] = <<>>
    /\ Sends(t, "started")
    /\ UNCHANGED <<status, history>>

Finish(t) ==
    /\ status[t] = "running" /\ sent[t] = <<"started">>
    /\ Becomes(t, "ending")
    /\ UNCHANGED <<sent, history>>

Take(t) ==
    /\ status[t] = "running"
    /\ Becomes(t, "aborting")
    /\ UNCHANGED <<sent, history>>

(* Only a turn that came to its end by itself completes. *)
Report(t) ==
    /\ \/ status[t] = "ending" /\ Sends(t, "complete")
       \/ status[t] \in {"ending", "aborting"} /\ Sends(t, "aborted")
    /\ Becomes(t, "over")
    /\ UNCHANGED history

(* The conversation gains items of S, each for the first time. *)
Gains(S) ==
    /\ IsPrefix(history, history') /\ IsInjective(history')
    /\ ToSet(history') \subseteq ToSet(history) \cup S
    /\ UNCHANGED <<status, sent>>

Record(t) ==
    /\ status[t] \in {"running", "ending", "aborting"} /\ sent[t] = <<"started">>
    /\ Gains(Items)

LifeNext ==
    \/ \E t \in Turns : \/ Start(t) \/ Announce(t) \/ Record(t)
                        \/ Finish(t) \/ Take(t) \/ Report(t)
    \/ \E t, u \in Turns : Replace(t, u)
    \/ Gains(Injections)

LifeSpec == LifeInit /\ [][LifeNext]_lifeVars
=============================================================================
