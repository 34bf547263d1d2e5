------------------------------ MODULE TurnTask ------------------------------
(***************************************************************************)
(* The tokio task of a turn: RegularTask (tasks/regular.rs) around run_turn*)
(* (session/turn.rs), CompactTask (tasks/compact.rs), and what every task  *)
(* does when it ends, Session::on_task_finished (tasks/mod.rs).            *)
(*                                                                         *)
(* The model and the hooks are the environment: which items a response     *)
(* holds, whether a hook blocks and whether a request fails are choices.   *)
(***************************************************************************)
EXTENDS SessionState

(* Where a task is that has not reached on_task_finished. *)
Working == {"begin", "input", "drain", "record", "sample", "post", "again", "compact", "finish"}
(* Where it is inside on_task_finished, after it gave up active_turn.task. *)
Finishing == {"leftover", "terminal", "clear"}

NewRun(kind, input) ==
    [kind |-> kind, input |-> input, batch |-> <<>>, drain |-> FALSE, follow |-> FALSE,
     samples |-> 0, failed |-> FALSE, state |-> 0]

NoRun == NewRun("regular", <<>>)

Goto(t, label) == taskPc' = [taskPc EXCEPT ![t] = label]

Emit(t, event) == events' = [events EXCEPT ![t] = Append(@, event)]

(* The tokio task is over: its locals are gone. *)
Ends(t) ==
    /\ Goto(t, "dead")
    /\ cancelled' = [cancelled EXCEPT ![t] = FALSE]
    /\ run' = [run EXCEPT ![t] = NoRun]

(* TurnStarted is sent by the task itself, on its first poll. *)
Begin(t) ==
    /\ taskPc[t] = "begin"
    /\ Emit(t, "started")
    /\ Goto(t, IF run[t].kind = "regular" THEN "input" ELSE "compact")
    /\ UNCHANGED <<activeState, activeTask, queueVars, history, rejected, owner, idVars,
                   cancelled, run, procVars, envVars>>

(***************************************************************************)
(* run_hooks_and_record_inputs: a UserPromptSubmit hook may block a user   *)
(* input, every other item is recorded.  The turn stops when something was *)
(* blocked and no user input was accepted.                                 *)
(***************************************************************************)
UserInputsOf(items) == {i \in Inputs : Contains(items, i)}

Accepted(items, blocked) ==
    FlattenSeq([k \in DOMAIN items |-> IF items[k] \in blocked THEN <<>> ELSE <<items[k]>>])

Record(items, blocked) ==
    /\ history' = history \o Accepted(items, blocked)
    /\ rejected' = rejected \cup blocked

StopsTurn(items, blocked) == blocked # {} /\ blocked = UserInputsOf(items)

(***************************************************************************)
(* The start of run_turn: the turn's own input is recorded, and pending    *)
(* input is drained before the first request only if there was none.       *)
(* A failed pre-turn compaction, a stopped session-start hook or a         *)
(* cancelled plugin load ends run_turn first and drops the input.          *)
(***************************************************************************)
RecordInput(t) ==
    /\ taskPc[t] = "input"
    /\ \E blocked \in SUBSET UserInputsOf(run[t].input) :
          /\ Record(run[t].input, blocked)
          /\ Goto(t, IF StopsTurn(run[t].input, blocked) THEN "again" ELSE "drain")
    /\ run' = [run EXCEPT ![t].drain = run[t].input = <<>>, ![t].input = <<>>]
    /\ UNCHANGED <<activeState, activeTask, queueVars, events, owner, idVars, cancelled,
                   procVars, envVars>>

DropInput(t) ==
    /\ taskPc[t] = "input"
    /\ rejected' = rejected \cup UserInputsOf(run[t].input)
    /\ \E failed \in BOOLEAN :
          /\ Goto(t, IF failed THEN "finish" ELSE "again")
          /\ run' = [run EXCEPT ![t].failed = failed, ![t].input = <<>>]
    /\ UNCHANGED <<activeState, activeTask, queueVars, history, events, owner, idVars,
                   cancelled, procVars, envVars>>

(* The head of run_turn's loop. *)
Drain(t) ==
    /\ taskPc[t] = "drain"
    /\ IF run[t].drain
         THEN /\ Goto(t, "record")
              /\ run' = [run EXCEPT ![t].batch = GetPendingInput]
              /\ DrainPending
         ELSE /\ Goto(t, "sample")
              /\ UNCHANGED <<run, queueVars>>
    /\ UNCHANGED <<activeState, activeTask, logVars, idVars, cancelled, procVars, envVars>>

RecordPending(t) ==
    /\ taskPc[t] = "record"
    /\ \E blocked \in SUBSET UserInputsOf(run[t].batch) :
          /\ Record(run[t].batch, blocked)
          /\ Goto(t, IF StopsTurn(run[t].batch, blocked) THEN "again" ELSE "sample")
    /\ run' = [run EXCEPT ![t].batch = <<>>]
    /\ UNCHANGED <<activeState, activeTask, queueVars, events, owner, idVars, cancelled,
                   procVars, envVars>>

(***************************************************************************)
(* One sampling request.  A final answer closes the mailbox for the turn,  *)
(* a tool call opens it again and asks for another request.                *)
(***************************************************************************)
OutputMessage(t) ==
    /\ taskPc[t] = "sample"
    /\ DeferMailboxDelivery(t)
    /\ phase' # phase
    /\ UNCHANGED <<activeState, activeTask, pending, mailbox, logVars, idVars, taskVars,
                   procVars, envVars>>

OutputToolCall(t) ==
    /\ taskPc[t] = "sample"
    /\ ~run[t].follow
    /\ run[t].samples < MaxSamples
    /\ AcceptMailboxDelivery(t)
    /\ run' = [run EXCEPT ![t].follow = TRUE, ![t].samples = @ + 1]
    /\ UNCHANGED <<activeState, activeTask, pending, mailbox, logVars, idVars, taskPc, cancelled,
                   procVars, envVars>>

(* The response completed or failed for good, or the token was cancelled.  *)
SamplingEnds(t) ==
    /\ taskPc[t] = "sample"
    /\ \E next \in {"post", "again", "finish"} :
          /\ next = "finish" => cancelled[t]
          /\ Goto(t, next)
    /\ UNCHANGED <<activeState, activeTask, queueVars, logVars, idVars, cancelled, run,
                   procVars, envVars>>

(* A request refused for an image in the last turn is sent again without it. *)
RetryWithoutImages(t) ==
    /\ taskPc[t] = "sample"
    /\ run[t].samples < MaxSamples
    /\ Goto(t, "drain")
    /\ run' = [run EXCEPT ![t].follow = FALSE, ![t].samples = @ + 1]
    /\ UNCHANGED <<activeState, activeTask, queueVars, logVars, idVars, cancelled,
                   procVars, envVars>>

(***************************************************************************)
(* After a request: another one follows when the model wants it or input   *)
(* is waiting.  Crossing the token limit compacts the history first, and a *)
(* model continuation then resumes before any steered input; a failed      *)
(* compaction ends run_turn.  With nothing to follow, a stop hook may ask  *)
(* for one more request.                                                   *)
(***************************************************************************)
NeedsFollowUp(t) == run[t].follow \/ HasPendingInput

FollowUp(t) ==
    /\ taskPc[t] = "post"
    /\ NeedsFollowUp(t)
    /\ \/ /\ Goto(t, "drain")
          /\ \E drain \in {TRUE, ~run[t].follow} :
                run' = [run EXCEPT ![t].drain = drain, ![t].follow = FALSE]
       \/ \E failed \in BOOLEAN :
             /\ Goto(t, IF failed THEN "finish" ELSE "again")
             /\ run' = [run EXCEPT ![t].failed = failed, ![t].follow = FALSE]
    /\ UNCHANGED <<activeState, activeTask, queueVars, logVars, idVars, cancelled,
                   procVars, envVars>>

NoFollowUp(t) ==
    /\ taskPc[t] = "post"
    /\ ~NeedsFollowUp(t)
    /\ \/ /\ run[t].samples < MaxSamples
          /\ Goto(t, "drain")
          /\ run' = [run EXCEPT ![t].drain = TRUE, ![t].samples = @ + 1]
       \/ Goto(t, "again") /\ UNCHANGED run
    /\ UNCHANGED <<activeState, activeTask, queueVars, logVars, idVars, cancelled,
                   procVars, envVars>>

(* RegularTask::run calls run_turn again while input is waiting. *)
RunTurnAgain(t) ==
    /\ taskPc[t] = "again"
    /\ Goto(t, IF HasPendingInput THEN "input" ELSE "finish")
    /\ run' = [run EXCEPT ![t].follow = FALSE, ![t].drain = FALSE]
    /\ UNCHANGED <<activeState, activeTask, queueVars, logVars, idVars, cancelled,
                   procVars, envVars>>

(* A manual compaction never looks at the input queue. *)
RunCompact(t) ==
    /\ taskPc[t] = "compact"
    /\ Goto(t, "finish")
    /\ \E failed \in BOOLEAN : run' = [run EXCEPT ![t].failed = failed]
    /\ UNCHANGED <<activeState, activeTask, queueVars, logVars, idVars, cancelled,
                   procVars, envVars>>

(***************************************************************************)
(* on_task_finished, skipped by a cancelled task.  It takes the task out   *)
(* of active_turn, whichever it is, and keeps a reference to the TurnState.*)
(***************************************************************************)
TurnGone(t) == activeTask = 0
LeavesQuietly(t) == cancelled[t] \/ activeTask = 0

TaskFinished(t) ==
    /\ taskPc[t] = "finish"
    /\ IF LeavesQuietly(t)
         THEN Ends(t) /\ UNCHANGED activeTask
         ELSE /\ Goto(t, "leftover")
              /\ run' = [run EXCEPT ![t].state = activeState]
              /\ activeTask' = 0
              /\ UNCHANGED cancelled
    /\ UNCHANGED <<activeState, queueVars, logVars, idVars, procVars, envVars>>

(* Input that arrived too late for the loop is taken and recorded.  Both   *)
(* belong to the same turn state, which only injections may still extend.  *)
NoLeftover(t) == <<>>
Leftover(t) == pending[run[t].state]

RecordLeftover(t) ==
    /\ taskPc[t] = "leftover"
    /\ \E blocked \in SUBSET UserInputsOf(Leftover(t)) : Record(Leftover(t), blocked)
    /\ pending' = [pending EXCEPT ![run[t].state] = <<>>]
    /\ Goto(t, "terminal")
    /\ UNCHANGED <<activeState, activeTask, phase, mailbox, events, owner, idVars, cancelled,
                   run, procVars, envVars>>

EmitTerminal(t) ==
    /\ taskPc[t] = "terminal"
    /\ Emit(t, IF run[t].failed THEN "aborted" ELSE "complete")
    /\ Goto(t, "clear")
    /\ UNCHANGED <<activeState, activeTask, queueVars, history, rejected, owner, idVars,
                   cancelled, run, procVars, envVars>>

(* active_turn is cleared only if it still is this turn's and has no task. *)
StillMine(t) == activeTask = 0 /\ activeState = run[t].state

ClearActive(t) ==
    /\ taskPc[t] = "clear"
    /\ activeState' = IF StillMine(t) THEN 0 ELSE activeState
    /\ Ends(t)
    /\ UNCHANGED <<activeTask, queueVars, logVars, idVars, procVars, envVars>>

TaskStep(t) ==
    \/ Begin(t)          \/ RecordInput(t)    \/ DropInput(t)
    \/ Drain(t)          \/ RecordPending(t)
    \/ OutputMessage(t)  \/ OutputToolCall(t) \/ SamplingEnds(t)
    \/ RetryWithoutImages(t)
    \/ FollowUp(t)       \/ NoFollowUp(t)     \/ RunTurnAgain(t)  \/ RunCompact(t)
    \/ TaskFinished(t)   \/ RecordLeftover(t) \/ EmitTerminal(t)  \/ ClearActive(t)
=============================================================================
