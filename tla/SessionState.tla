---------------------------- MODULE SessionState ----------------------------
(***************************************************************************)
(* The state of one session (core/src/session, core/src/state/turn.rs) and *)
(* the operations of its input queue (session/input_queue.rs).             *)
(*                                                                         *)
(* A session has at most one ActiveTurn, behind the mutex active_turn: a   *)
(* TurnState shared by reference, and the RunningTask once it is installed.*)
(* Steered input waits in the TurnState, mail from other agents in the     *)
(* session's mailbox.  Turn states and turns are numbered in the order     *)
(* they are created; number 0 stands for None.                             *)
(***************************************************************************)
EXTENDS Naturals, Sequences, SequencesExt

CONSTANTS
    Inputs,        \* user inputs
    Mails,         \* inter-agent communications
    TriggerMails,  \* those sent with trigger_turn
    Injections,    \* model-visible items injected by extensions and services
    Clients,       \* callers of the session other than its submission loop
    MaxTurns,      \* bound on the turns and on the turn states of a behaviour
    MaxSamples     \* bound on the extra requests of a turn: tool calls, stop hooks, retries

ASSUME SessionAssumption ==
    /\ TriggerMails \subseteq Mails
    /\ Inputs \cap Mails = {} /\ Inputs \cap Injections = {} /\ Mails \cap Injections = {}
    /\ MaxTurns \in Nat \ {0} /\ MaxSamples \in Nat
    /\ "loop" \notin Clients

Items  == Inputs \cup Mails \cup Injections
Turns  == 1 .. MaxTurns
States == 1 .. MaxTurns
Procs  == {"loop"} \cup Clients

VARIABLES
    activeState,   \* active_turn: its TurnState, 0 when active_turn is None
    activeTask,    \* active_turn.task: the turn of the RunningTask, 0 for None
    pending,       \* TurnState.pending_input
    phase,         \* TurnState.mailbox_delivery_phase
    mailbox,       \* InputQueue.mailbox_pending_mails
    history,       \* the items recorded in the conversation, in order
    rejected,      \* inputs a hook or an error refused, never recorded
    events,        \* per turn, the lifecycle events sent to the client
    owner,         \* per input, the turn id the client was given for it
    turns, states, \* how many turns and turn states have been created
    taskPc,        \* per turn, where its tokio task is
    cancelled,     \* per turn, its cancellation token
    run,           \* per turn, the other locals of its task
    pc,            \* per caller, where it is
    turn,          \* per caller, the turn it is starting, 0 for none
    victim,        \* per caller, the turn it is aborting, 0 for none
    local,         \* per caller, its other locals
    unsent,        \* items the environment has not submitted yet
    budget         \* operations the environment may still submit

queueVars == <<pending, phase, mailbox>>
logVars   == <<history, rejected, events, owner>>
idVars    == <<turns, states>>
envVars   == <<unsent, budget>>
taskVars  == <<taskPc, cancelled, run>>
procVars  == <<pc, turn, victim, local>>
vars == <<activeState, activeTask, queueVars, logVars, idVars, taskVars, procVars, envVars>>

(***************************************************************************)
(* input_queue.rs.  get_pending_input reads active_turn and then the       *)
(* mailbox under two locks; they are one step here, because mail that      *)
(* arrives between the two is mail that arrives before both.               *)
(***************************************************************************)
AcceptsMailboxDelivery == IF activeState = 0 THEN TRUE ELSE phase[activeState] = "current"

PendingOfActive == IF activeState = 0 THEN <<>> ELSE pending[activeState]

GetPendingInput == PendingOfActive \o (IF AcceptsMailboxDelivery THEN mailbox ELSE <<>>)

KeptPending == pending
TakenPending == IF activeState = 0 THEN pending ELSE [pending EXCEPT ![activeState] = <<>>]

DrainPending ==
    /\ pending' = TakenPending
    /\ mailbox' = IF AcceptsMailboxDelivery THEN <<>> ELSE mailbox
    /\ UNCHANGED phase

HasAnyInput == PendingOfActive # <<>> \/ mailbox # <<>>
HasPendingInput ==
    PendingOfActive # <<>> \/ (AcceptsMailboxDelivery /\ mailbox # <<>>)

HasTriggerTurnMail == \E i \in DOMAIN mailbox : mailbox[i] \in TriggerMails

ExtendPending(s, items) == [pending EXCEPT ![s] = @ \o items]

(* defer_mailbox_delivery_to_next_turn: only for the turn that is active,  *)
(* and never while input is waiting in it.                                 *)
MayDefer(t) == activeTask = t /\ pending[activeState] = <<>>

DeferMailboxDelivery(t) ==
    phase' = IF MayDefer(t) THEN [phase EXCEPT ![activeState] = "next"] ELSE phase

AcceptMailboxDelivery(t) ==
    phase' = IF activeTask = t THEN [phase EXCEPT ![activeState] = "current"] ELSE phase
=============================================================================
