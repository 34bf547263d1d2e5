---------------------------- MODULE SessionTurns ----------------------------
(***************************************************************************)
(* The turns of a session: the submission loop (session/handlers.rs), the  *)
(* callers that reach the session beside it (extensions, app-server        *)
(* requests, the guardian: session/inject.rs, codex_thread.rs), the        *)
(* functions of tasks/mod.rs they share, and the tasks of TurnTask.        *)
(*                                                                         *)
(* Every acquisition of active_turn, of a turn state or of the mailbox is  *)
(* one step of its caller, so callers interleave wherever the code awaits. *)
(***************************************************************************)
EXTENDS TurnTask

CONSTANTS
    LoopOps,       \* the operations submitted: subset of AllLoopOps
    ClientOps,     \* the calls made by Clients: subset of AllClientOps
    MaxOps         \* bound on the interrupts, compactions and guardian aborts

AllLoopOps == {"input", "mail", "interrupt", "compact", "shutdown"}
AllClientOps == {"steer", "inject", "tryStart", "abortTurn"}

ASSUME OpsAssumption ==
    /\ LoopOps \subseteq AllLoopOps /\ ClientOps \subseteq AllClientOps
    /\ MaxOps \in Nat

NoLocal == [kind |-> "regular", input |-> <<>>, items |-> <<>>, state |-> 0, vstate |-> 0,
            then |-> "recv"]

Init ==
    /\ activeState = 0 /\ activeTask = 0
    /\ pending = [s \in States |-> <<>>]
    /\ phase = [s \in States |-> "current"]
    /\ mailbox = <<>> /\ history = <<>> /\ rejected = {}
    /\ events = [t \in Turns |-> <<>>]
    /\ owner = [i \in Inputs |-> 0]
    /\ turns = 0 /\ states = 0
    /\ taskPc = [t \in Turns |-> "none"]
    /\ cancelled = [t \in Turns |-> FALSE]
    /\ run = [t \in Turns |-> NoRun]
    /\ pc = [p \in Procs |-> "idle"]
    /\ turn = [p \in Procs |-> 0]
    /\ victim = [p \in Procs |-> 0]
    /\ local = [p \in Procs |-> NoLocal]
    /\ unsent = Items
    /\ budget = MaxOps

Move(p, label) == pc' = [pc EXCEPT ![p] = label]
SetLocal(p, l) == local' = [local EXCEPT ![p] = l]
Return(p) ==
    /\ Move(p, IF local[p].then = "exit" THEN "exit" ELSE "idle")
    /\ SetLocal(p, NoLocal)

(* ActiveTurn::default, with a fresh turn state. *)
NewActiveTurn ==
    /\ states < MaxTurns
    /\ states' = states + 1
    /\ activeState' = states + 1

(***************************************************************************)
(* start_task, in three critical sections: what is pending is taken from   *)
(* the queue, moved into the turn state of active_turn, and the task is    *)
(* installed and spawned.  Installing over a task drops its handle, which  *)
(* aborts it.                                                              *)
(***************************************************************************)
StartTake(p) ==
    /\ pc[p] = "start"
    /\ turns < MaxTurns
    /\ turns' = turns + 1
    /\ turn' = [turn EXCEPT ![p] = turns + 1]
    /\ SetLocal(p, [local[p] EXCEPT !.items = GetPendingInput])
    /\ DrainPending
    /\ Move(p, "join")
    /\ UNCHANGED <<activeState, activeTask, logVars, states, taskVars, victim, envVars>>

StartJoin(p) ==
    /\ pc[p] = "join"
    /\ IF activeState = 0 THEN NewActiveTurn ELSE UNCHANGED <<activeState, states>>
    /\ pending' = ExtendPending(activeState', local[p].items)
    /\ SetLocal(p, [local[p] EXCEPT !.items = <<>>])
    /\ Move(p, "install")
    /\ UNCHANGED <<activeTask, phase, mailbox, logVars, turns, taskVars, turn, victim, envVars>>

(* The task that active_turn already holds, if any, is dropped and aborted. *)
Install(t, kind, input) ==
    /\ taskPc' = [u \in Turns |-> CASE u = t -> "begin"
                                    [] u = activeTask /\ u # t -> "dead"
                                    [] OTHER -> taskPc[u]]
    /\ run' = [u \in Turns |-> CASE u = t -> NewRun(kind, input)
                                 [] u = activeTask /\ u # t -> NoRun
                                 [] OTHER -> run[u]]
    /\ activeTask' = t
    /\ owner' = [i \in Inputs |-> IF Contains(input, i) THEN t ELSE owner[i]]

StartInstall(p) ==
    /\ pc[p] = "install"
    /\ Install(turn[p], local[p].kind, local[p].input)
    /\ IF activeState = 0 THEN NewActiveTurn ELSE UNCHANGED <<activeState, states>>
    /\ turn' = [turn EXCEPT ![p] = 0]
    /\ Return(p)
    /\ UNCHANGED <<queueVars, history, rejected, events, turns, cancelled, victim, envVars>>

(***************************************************************************)
(* maybe_start_turn_for_pending_work.                                      *)
(***************************************************************************)
MaybeStart(p) ==
    /\ pc[p] = "maybe"
    /\ IF HasTriggerTurnMail THEN Move(p, "reserve") /\ UNCHANGED local ELSE Return(p)
    /\ UNCHANGED <<activeState, activeTask, queueVars, logVars, idVars, taskVars, turn, victim,
                   envVars>>

NoRunningTask == activeTask = 0
NoActiveTurn == activeState = 0

ReserveTurn(p) ==
    /\ pc[p] = "reserve"
    /\ IF NoActiveTurn
         THEN NewActiveTurn /\ Move(p, "start") /\ UNCHANGED local
         ELSE UNCHANGED <<activeState, states>> /\ Return(p)
    /\ UNCHANGED <<activeTask, queueVars, logVars, turns, taskVars, turn, victim, envVars>>

(***************************************************************************)
(* abort_all_tasks and abort_turn_if_active: active_turn is taken and its  *)
(* task cancelled; after a grace period it is aborted, TurnAborted is sent,*)
(* then its pending input is cleared.  An interruption looks for mail that *)
(* should start a turn, a replacement starts its own task.                 *)
(***************************************************************************)
KeepTokens == cancelled
CancelActiveTask == [cancelled EXCEPT ![activeTask] = TRUE]

TakeForAbort(p, l) ==
    /\ activeState' = 0
    /\ activeTask' = 0
    /\ cancelled' = CancelActiveTask
    /\ victim' = [victim EXCEPT ![p] = activeTask]
    /\ SetLocal(p, [l EXCEPT !.vstate = activeState])
    /\ Move(p, "abort")

(* With no task to abort, abort_all_tasks only drops the active turn. *)
NothingToAbort(p) ==
    /\ activeState' = 0
    /\ \/ local[p].then = "start" /\ Move(p, "start") /\ UNCHANGED local
       \/ local[p].then # "start" /\ Return(p)
    /\ UNCHANGED <<activeTask, cancelled, victim>>

AbortAll(p) ==
    /\ pc[p] = "abortAll"
    /\ IF activeTask = 0 THEN NothingToAbort(p) ELSE TakeForAbort(p, local[p])
    /\ UNCHANGED <<queueVars, logVars, idVars, taskPc, run, turn, envVars>>

(* The task notified that it is done, or 100 ms passed and it is aborted.  *)
StillRunning(t) == UNCHANGED taskVars
Killed(t) == Ends(t)

AbortTask(p) ==
    /\ pc[p] = "abort"
    /\ Killed(victim[p])
    /\ Move(p, "aborted")
    /\ UNCHANGED <<activeState, activeTask, queueVars, logVars, idVars, turn, victim, local,
                   envVars>>

EmitAborted(p) ==
    /\ pc[p] = "aborted"
    /\ Emit(victim[p], "aborted")
    /\ victim' = [victim EXCEPT ![p] = 0]
    /\ Move(p, "clear")
    /\ UNCHANGED <<activeState, activeTask, queueVars, history, rejected, owner, idVars,
                   taskVars, turn, local, envVars>>

ClearPending(p) ==
    /\ pc[p] = "clear"
    /\ pending' = [pending EXCEPT ![local[p].vstate] = <<>>]
    /\ SetLocal(p, [local[p] EXCEPT !.vstate = 0])
    /\ Move(p, IF local[p].then = "start" THEN "start" ELSE "maybe")
    /\ UNCHANGED <<activeState, activeTask, phase, mailbox, logVars, idVars, taskVars, turn,
                   victim, envVars>>

(***************************************************************************)
(* The submission loop takes one operation at a time.                      *)
(***************************************************************************)
(* steer_input: the active task must be there and be a regular one. *)
Steerable == activeTask # 0 /\ run[activeTask].kind = "regular"

Steer(i) ==
    /\ pending' = ExtendPending(activeState, <<i>>)
    /\ phase' = [phase EXCEPT ![activeState] = "current"]
    /\ owner' = [owner EXCEPT ![i] = activeTask]
    /\ UNCHANGED mailbox

Submit(items) == unsent' = unsent \ items /\ UNCHANGED budget
SubmitOp == budget > 0 /\ budget' = budget - 1 /\ UNCHANGED unsent

(* spawn_task, and the other users of abort_all_tasks, from the loop. *)
Spawn(kind, input, then) ==
    /\ Move("loop", "abortAll")
    /\ SetLocal("loop", [NoLocal EXCEPT !.kind = kind, !.input = input, !.then = then])

(* Op::UserInput steers the active turn, starts one, or is refused. *)
UserInput ==
    /\ "input" \in LoopOps /\ pc["loop"] = "idle"
    /\ \E i \in Inputs \cap unsent :
          /\ Submit({i})
          /\ \/ Steerable /\ Steer(i) /\ UNCHANGED <<rejected, pc, local>>
             \/ /\ activeTask = 0
                /\ Spawn("regular", <<i>>, "start")
                /\ UNCHANGED <<queueVars, rejected, owner>>
             \/ /\ activeTask # 0 /\ ~Steerable
                /\ rejected' = rejected \cup {i}
                /\ UNCHANGED <<queueVars, owner, pc, local>>
    /\ UNCHANGED <<activeState, activeTask, history, events, idVars, taskVars, turn, victim>>

InterAgentCommunication ==
    /\ "mail" \in LoopOps /\ pc["loop"] = "idle"
    /\ \E m \in Mails \cap unsent :
          /\ Submit({m})
          /\ mailbox' = Append(mailbox, m)
          /\ IF m \in TriggerMails THEN Move("loop", "maybe") ELSE UNCHANGED pc
    /\ UNCHANGED <<activeState, activeTask, pending, phase, logVars, idVars, taskVars, turn,
                   victim, local>>

Interrupt ==
    /\ "interrupt" \in LoopOps /\ pc["loop"] = "idle"
    /\ SubmitOp
    /\ Spawn("regular", <<>>, "recv")
    /\ UNCHANGED <<activeState, activeTask, queueVars, logVars, idVars, taskVars, turn, victim>>

Compact ==
    /\ "compact" \in LoopOps /\ pc["loop"] = "idle"
    /\ SubmitOp
    /\ Spawn("compact", <<>>, "start")
    /\ UNCHANGED <<activeState, activeTask, queueVars, logVars, idVars, taskVars, turn, victim>>

ShutdownAtOnce ==
    /\ "shutdown" \in LoopOps /\ pc["loop"] = "idle"
    /\ SubmitOp
    /\ Move("loop", "exit")
    /\ UNCHANGED <<activeState, activeTask, queueVars, logVars, idVars, taskVars, turn, victim,
                   local>>

Shutdown ==
    /\ "shutdown" \in LoopOps /\ pc["loop"] = "idle"
    /\ SubmitOp
    /\ Spawn("regular", <<>>, "exit")
    /\ UNCHANGED <<activeState, activeTask, queueVars, logVars, idVars, taskVars, turn, victim>>

(* ShutdownComplete is delivered and the loop ends. *)
ShutdownComplete ==
    /\ pc["loop"] = "exit"
    /\ Move("loop", "exited")
    /\ UNCHANGED <<activeState, activeTask, queueVars, logVars, idVars, taskVars, turn, victim,
                   local, envVars>>

(***************************************************************************)
(* Calls beside the loop.  A call that is refused hands its items back and *)
(* changes nothing, so only the accepted ones are steps.                   *)
(***************************************************************************)
(* CodexThread::steer_input (turn/steer). *)
SteerInput(p) ==
    /\ "steer" \in ClientOps /\ pc[p] = "idle"
    /\ Steerable
    /\ \E i \in Inputs \cap unsent : Submit({i}) /\ Steer(i)
    /\ UNCHANGED <<activeState, activeTask, history, rejected, events, idVars, taskVars, procVars>>

(* inject_no_new_turn: into the active turn, or into the history. *)
InjectNoNewTurn(p) ==
    /\ "inject" \in ClientOps /\ pc[p] = "idle"
    /\ \E x \in Injections \cap unsent :
          /\ Submit({x})
          /\ IF activeState # 0
               THEN /\ pending' = ExtendPending(activeState, <<x>>)
                    /\ UNCHANGED <<pc, local>>
               ELSE /\ Move(p, "recordItems")
                    /\ SetLocal(p, [NoLocal EXCEPT !.items = <<x>>])
                    /\ UNCHANGED pending
    /\ UNCHANGED <<activeState, activeTask, phase, mailbox, logVars, idVars, taskVars, turn,
                   victim>>

RecordItems(p) ==
    /\ pc[p] = "recordItems"
    /\ history' = history \o local[p].items
    /\ Return(p)
    /\ UNCHANGED <<activeState, activeTask, queueVars, rejected, events, owner, idVars,
                   taskVars, turn, victim, envVars>>

(* abort_turn_if_active, called by the guardian for the turn it reviewed. *)
AbortTurnIfActive(p) ==
    /\ "abortTurn" \in ClientOps /\ pc[p] = "idle"
    /\ Steerable
    /\ SubmitOp
    /\ TakeForAbort(p, NoLocal)
    /\ UNCHANGED <<queueVars, logVars, idVars, taskPc, run, turn>>

(***************************************************************************)
(* try_start_turn_if_idle: refused when mail should start a turn or a turn *)
(* is active; otherwise active_turn is reserved, the mail is checked again *)
(* (Plan mode is refused the same way), and the reservation is confirmed.  *)
(***************************************************************************)
TryStartTurnIfIdle(p) ==
    /\ "tryStart" \in ClientOps /\ pc[p] = "idle"
    /\ ~HasTriggerTurnMail
    /\ \E x \in Injections \cap unsent :
          /\ Submit({x})
          /\ SetLocal(p, [NoLocal EXCEPT !.items = <<x>>])
    /\ Move(p, "tryReserve")
    /\ UNCHANGED <<activeState, activeTask, queueVars, logVars, idVars, taskVars, turn, victim>>

TryReserve(p) ==
    /\ pc[p] = "tryReserve"
    /\ IF NoActiveTurn
         THEN /\ NewActiveTurn
              /\ SetLocal(p, [local[p] EXCEPT !.state = states + 1])
              /\ Move(p, "tryCheck")
         ELSE UNCHANGED <<activeState, states>> /\ Return(p)
    /\ UNCHANGED <<activeTask, queueVars, logVars, turns, taskVars, turn, victim, envVars>>

TryCheck(p) ==
    /\ pc[p] = "tryCheck"
    /\ \/ Move(p, "tryClear")
       \/ ~HasTriggerTurnMail /\ Move(p, "tryConfirm")
    /\ UNCHANGED <<activeState, activeTask, queueVars, logVars, idVars, taskVars, turn, victim,
                   local, envVars>>

ReservedTask(p) == activeTask # 0 /\ activeState = local[p].state
ReservedBy(p) == activeTask = 0 /\ activeState = local[p].state

ClearReservedIdleTurn(p) ==
    /\ pc[p] \in {"tryClear", "tryBusy"}
    /\ activeState' = IF ReservedBy(p) THEN 0 ELSE activeState
    /\ Move(p, IF pc[p] = "tryClear" THEN "maybe" ELSE "idle")
    /\ SetLocal(p, NoLocal)
    /\ UNCHANGED <<activeTask, queueVars, logVars, idVars, taskVars, turn, victim, envVars>>

TryConfirm(p) ==
    /\ pc[p] = "tryConfirm"
    /\ Move(p, IF ReservedBy(p) THEN "tryExtend" ELSE "tryBusy")
    /\ UNCHANGED <<activeState, activeTask, queueVars, logVars, idVars, taskVars, turn, victim,
                   local, envVars>>

TryExtend(p) ==
    /\ pc[p] = "tryExtend"
    /\ pending' = ExtendPending(local[p].state, local[p].items)
    /\ SetLocal(p, NoLocal)
    /\ Move(p, "start")
    /\ UNCHANGED <<activeState, activeTask, phase, mailbox, logVars, idVars, taskVars, turn,
                   victim, envVars>>

(***************************************************************************)
(* The specification.                                                      *)
(***************************************************************************)
Submission == UserInput \/ InterAgentCommunication \/ Interrupt \/ Compact \/ Shutdown

Call(p) == SteerInput(p) \/ InjectNoNewTurn(p) \/ AbortTurnIfActive(p) \/ TryStartTurnIfIdle(p)

(* A step of a call that has begun. *)
Continue(p) ==
    \/ StartTake(p)    \/ StartJoin(p)   \/ StartInstall(p)
    \/ MaybeStart(p)   \/ ReserveTurn(p)
    \/ AbortAll(p)     \/ AbortTask(p)   \/ EmitAborted(p)  \/ ClearPending(p)
    \/ RecordItems(p)  \/ TryReserve(p)  \/ TryCheck(p)
    \/ ClearReservedIdleTurn(p)          \/ TryConfirm(p)   \/ TryExtend(p)

Next ==
    \/ Submission
    \/ ShutdownComplete
    \/ \E p \in Clients : Call(p)
    \/ \E p \in Procs : Continue(p)
    \/ \E t \in Turns : TaskStep(t)

Spec == Init /\ [][Next]_vars

(* tokio polls every runnable task again and again; submissions and calls  *)
(* come from outside and need not come.  An operation already begun and a  *)
(* turn already spawned go on.                                             *)
Fairness ==
    /\ WF_vars(ShutdownComplete)
    /\ \A p \in Procs : WF_vars(Continue(p))
    /\ \A t \in Turns : WF_vars(TaskStep(t))

FairSpec == Spec /\ Fairness

(* A pre-turn compaction that is retried again and again succeeds at last. *)
CompactionSucceeds == \A t \in Turns : SF_vars(RecordInput(t))

FairSpecWithCompaction == FairSpec /\ CompactionSucceeds

(***************************************************************************)
(* Properties.                                                             *)
(***************************************************************************)
Labels == {"idle", "start", "join", "install", "maybe", "reserve", "abortAll", "abort",
           "aborted", "clear", "recordItems", "tryReserve", "tryCheck", "tryClear",
           "tryConfirm", "tryBusy", "tryExtend", "exit", "exited"}

RunType ==
    [kind : {"regular", "compact"}, input : Seq(Items), batch : Seq(Items), drain : BOOLEAN,
     follow : BOOLEAN, samples : 0 .. MaxSamples, failed : BOOLEAN, state : 0 .. MaxTurns]

LocalType ==
    [kind : {"regular", "compact"}, input : Seq(Items), items : Seq(Items),
     state : 0 .. MaxTurns, vstate : 0 .. MaxTurns, then : {"recv", "start", "exit"}]

(* The type invariant.  A task is only ever held by an active turn. *)
TypeOK ==
    /\ activeState \in 0 .. MaxTurns /\ activeTask \in 0 .. MaxTurns
    /\ activeTask # 0 => activeState # 0
    /\ pending \in [States -> Seq(Items)]
    /\ phase \in [States -> {"current", "next"}]
    /\ mailbox \in Seq(Items)
    /\ events \in [Turns -> Seq({"started", "complete", "aborted"})]
    /\ owner \in [Inputs -> 0 .. MaxTurns]
    /\ turns \in 0 .. MaxTurns /\ states \in 0 .. MaxTurns
    /\ taskPc \in [Turns -> Working \cup Finishing \cup {"none", "dead"}]
    /\ cancelled \in [Turns -> BOOLEAN]
    /\ run \in [Turns -> RunType]
    /\ pc \in [Procs -> Labels]
    /\ turn \in [Procs -> 0 .. MaxTurns]
    /\ victim \in [Procs -> 0 .. MaxTurns]
    /\ local \in [Procs -> LocalType]
    /\ unsent \subseteq Items /\ budget \in 0 .. MaxOps

Terminal(t) == \E i \in DOMAIN events[t] : events[t][i] \in {"complete", "aborted"}
Live(t) == taskPc[t] \in Working
Victim(t) == \E p \in Procs : victim[p] = t

(* A client sees at most one terminal event per turn and nothing of the    *)
(* turn after it, and TurnStarted at most once and first, although         *)
(* TurnAborted and TurnComplete are sent by two different tasks.           *)
TurnEventsWellFormed ==
    \A t \in Turns :
        events[t] \in {<<>>, <<"started">>, <<"complete">>, <<"aborted">>,
                       <<"started", "complete">>, <<"started", "aborted">>}

(* At most one task does work: one that nobody has cancelled is the task   *)
(* of active_turn, so an interrupt or a replacement always reaches it.     *)
RunningTaskIsActive ==
    \A t \in Turns : Live(t) /\ ~cancelled[t] => activeTask = t

(* Once its terminal event is out, a task records nothing any more.        *)
QuietAfterTerminal ==
    \A t \in Turns : Terminal(t) => taskPc[t] \in {"clear", "dead"}

(* A turn whose task is gone has had its terminal event, or the caller     *)
(* that aborted it is about to send it.  It is claimed while only the loop *)
(* starts turns: when try_start_turn_if_idle races it, the later of the    *)
(* two start_task calls replaces the task of the other, which then gets no *)
(* terminal event (start_task only has a debug_assert against that).       *)
EndedTurnIsReported ==
    \A t \in Turns : taskPc[t] = "dead" => Terminal(t) \/ Victim(t)

(* When the client is told that a turn completed, every input it was told  *)
(* the turn had accepted is in the history, unless a hook or a failed      *)
(* pre-turn compaction refused it: input steered in the last moment,       *)
(* between the end of the loop and on_task_finished, is not lost.          *)
(* Claimed where no guardian uses abort_turn_if_active beside the loop:    *)
(* the task it cancels may, in the 100 ms it is given to stop, come to the *)
(* head of run_turn's loop and take input steered to the next turn.        *)
CompletedTurnRecordedInput ==
    \A i \in Inputs :
        owner[i] # 0 /\ Contains(events[owner[i]], "complete")
            => Contains(history, i) \/ i \in rejected

(* No item reaches the model's history twice, whichever of the queues it   *)
(* was moved through.                                                      *)
RecordedOnce == IsInjective(history)

(* An active turn without a task belongs to somebody who will give it one  *)
(* or clear it; otherwise the session would look busy for ever: input      *)
(* could still start a turn, but mail and idle work would be refused.      *)
ActiveTurnHasOwner ==
    activeState # 0 /\ activeTask = 0 =>
        \/ \E p \in Procs : pc[p] \in {"start", "join", "install"}
        \/ \E p \in Procs : /\ pc[p] \in {"tryCheck", "tryClear", "tryConfirm", "tryExtend"}
                            /\ local[p].state = activeState
        \/ \E t \in Turns : taskPc[t] \in Finishing /\ run[t].state = activeState

(* Every turn that has started ends with a terminal event. *)
StartedTurnEnds ==
    \A t \in Turns : (events[t] = <<"started">>) ~> Terminal(t)

(* Every input the session took is recorded, refused, or was part of a     *)
(* turn that was aborted.                                                  *)
InputIsSettled ==
    \A i \in Inputs :
        (i \notin unsent) ~>
            \/ Contains(history, i) \/ i \in rejected
            \/ owner[i] # 0 /\ Contains(events[owner[i]], "aborted")

(* After ShutdownComplete no task is left at work, so nothing of a turn is *)
(* recorded once the thread's persistence is closed: abort_all_tasks has   *)
(* ended the task that was running.  The exception is a task that another  *)
(* caller took to abort it: the loop finds no active turn then and does    *)
(* not wait.  It is claimed with no trigger mail waiting, which would make *)
(* abort_all_tasks itself start a turn.                                    *)
ShutdownStopsWork ==
    pc["loop"] = "exited" =>
        \A t \in Turns : Live(t) => \E p \in Clients : victim[p] = t

(* The life of every turn, from where its task is, what its client was     *)
(* told and whether somebody is aborting it.                               *)
Status ==
    [t \in Turns |->
        IF taskPc[t] = "none" THEN "new"
        ELSE IF Terminal(t) THEN "over"
        ELSE IF Victim(t) THEN "aborting"
        ELSE IF Live(t) THEN "running"
        ELSE IF taskPc[t] \in Finishing THEN "ending" ELSE "lost"]

(* The session keeps the promise of TurnLifecycle, whatever callers race:  *)
(* one turn runs at a time, each is reported once, by its own end or by    *)
(* whoever took it away, and only a replacement by a racing start loses    *)
(* one; a turn records nothing before it is announced or after it is over, *)
(* and no item twice.                                                      *)
Lifecycle == INSTANCE TurnLifecycle WITH status <- Status, sent <- events
ImplementsLifecycle == Lifecycle!LifeSpec
=============================================================================
