------------------------------ MODULE ToolCalls ------------------------------
(***************************************************************************)
(* The tool calls of a sampling request: the turn's task reads the model's  *)
(* stream and spawns one task per call (handle_output_item_done,            *)
(* ToolCallRuntime::handle_tool_call), each task dispatches its call under   *)
(* the request's parallel_execution lock, and when the stream ends the       *)
(* turn's task polls the calls' futures together and records their outputs   *)
(* in call order (drain_in_flight).  A cancellation of the turn races the    *)
(* tasks: each future decides between the task's result and an "aborted"     *)
(* output, and a turn that outlives its grace period is killed, its futures  *)
(* dropped.  The history is normalised into every prompt that is sent.       *)
(***************************************************************************)
EXTENDS Naturals, Sequences, SequencesExt, FiniteSets

CONSTANTS
    Calls,        \* the tool calls the model may make
    Parallel,     \* calls of tools that support parallel execution
    Waits,        \* calls of tools that wait for runtime cancellation
    Hooked,       \* calls a PreToolUse or PostToolUse hook matches
    Searches,     \* calls that may be a tool_search with malformed arguments
    LocalShells,  \* calls that may be a local shell call, which nobody executes
    MaxRequests   \* bound on the sampling requests of a behaviour

ASSUME ToolCallsAssumption ==
    /\ IsFiniteSet(Calls)
    /\ \A s \in {Parallel, Waits, Hooked, Searches, LocalShells} : s \subseteq Calls
    /\ MaxRequests \in Nat \ {0}

VARIABLES
    history,    \* items of the ContextManager, oldest first
    phase,      \* where the turn's task is
    cancelled,  \* the turn's cancellation token
    request,    \* number of the current sampling request
    in_flight,  \* FuturesOrdered: calls whose future is not drained
    madeIn,     \* the request (and so the lock) a call belongs to, 0 before
    task,       \* the spawned task of each call
    queue,      \* tasks waiting for parallel_execution, first come first served
    result,     \* what a finished task returned
    reached,    \* terminal_outcome_reached
    aborting,   \* abort was requested for the task
    future,     \* the future that waits for the task
    answer,     \* what the future resolved to
    told        \* notifications the lifecycle contributors received

vars == <<history, phase, cancelled, request, in_flight, madeIn, task, queue,
          result, reached, aborting, future, answer, told>>

turn == <<history, phase, cancelled, request, in_flight, madeIn>>
waiting == <<future, answer>>

Phases == {"idle", "streaming", "draining", "killed"}
TaskStates == {"none", "queued", "accepted", "hooks", "running", "claim",
               "notify", "returning", "done", "cancelled"}
Futures == {"none", "select", "claiming", "abort", "teardown", "reap",
            "awaitResult", "tell", "resolved"}
Results == {"none", "ok", "error", "fatal", "panic"}
Answers == {"none", "ok", "error", "fatal", "aborted"}

Call(c) == [item |-> "call", call |-> c, body |-> "none"]
Output(c, b) == [item |-> "output", call |-> c, body |-> b]
Note(c) == [item |-> "note", call |-> c, body |-> "none"]
Items == [item : {"call", "output", "note"}, call : Calls, body : Answers]

Finished(c) == task[c] \in {"done", "cancelled"}
InDispatch == {"accepted", "hooks", "running", "claim", "notify", "returning"}
Holds(c) == task[c] \in InDispatch

----------------------------------------------------------------------------
(* The ContextManager's view of the history. *)

HasOutput(h, c) == \E i \in DOMAIN h : h[i] = Output(c, h[i].body)
HasCall(h, c) == \E i \in DOMAIN h : h[i] = Call(c)

\* Mutant: the synthetic outputs are appended at the end of the prompt, and
\* only for the last call.
EnsureLastOutputPresent(h) ==
    IF h # <<>> /\ Last(h).item = "call" THEN Append(h, Output(Last(h).call, "aborted")) ELSE h

\* ensure_call_outputs_present: a call without an output gets one right after it.
EnsureCallOutputsPresent(h) ==
    FlattenSeq([i \in DOMAIN h |->
        IF h[i].item = "call" /\ ~HasOutput(h, h[i].call)
        THEN <<h[i], Output(h[i].call, "aborted")>>
        ELSE <<h[i]>>])

\* remove_orphan_outputs.
RemoveOrphanOutputs(h) ==
    FlattenSeq([i \in DOMAIN h |->
        IF h[i].item = "output" /\ ~HasCall(h, h[i].call) THEN <<>> ELSE <<h[i]>>])

\* normalize_history, as for_prompt applies it to a copy of the history.
ForPrompt(h) == RemoveOrphanOutputs(EnsureCallOutputsPresent(h))

\* The first item of this kind and call is left out.
RemoveFirstMatching(h, kind, c) ==
    LET hits == {i \in DOMAIN h : h[i].item = kind /\ h[i].call = c}
    IN  IF hits = {} THEN h
        ELSE RemoveAt(h, CHOOSE i \in hits : \A j \in hits : i <= j)

\* remove_first_item and remove_corresponding_for: compaction drops the oldest
\* item of its copy of the history, and the other half of a call/output pair.
RemoveFirstItem(h) ==
    IF h = <<>> THEN h
    ELSE CASE Head(h).item = "call" -> RemoveFirstMatching(Tail(h), "output", Head(h).call)
           [] Head(h).item = "output" -> RemoveFirstMatching(Tail(h), "call", Head(h).call)
           [] OTHER -> Tail(h)

----------------------------------------------------------------------------
Init ==
    /\ history = <<>>
    /\ phase = "idle"
    /\ cancelled = FALSE
    /\ request = 0
    /\ in_flight = <<>>
    /\ madeIn = [c \in Calls |-> 0]
    /\ task = [c \in Calls |-> "none"]
    /\ queue = <<>>
    /\ result = [c \in Calls |-> "none"]
    /\ reached = [c \in Calls |-> FALSE]
    /\ aborting = [c \in Calls |-> FALSE]
    /\ future = [c \in Calls |-> "none"]
    /\ answer = [c \in Calls |-> "none"]
    /\ told = [c \in Calls |-> <<>>]

----------------------------------------------------------------------------
(* The turn's task. *)

\* run_sampling_request: a prompt is built and streamed, with a new
\* ToolCallRuntime.  After a killed or cancelled turn this is the next turn's.
StartRequest ==
    /\ phase \in {"idle", "killed"}
    /\ request < MaxRequests
    /\ phase' = "streaming"
    /\ request' = request + 1
    /\ cancelled' = FALSE
    /\ in_flight' = <<>>
    /\ UNCHANGED <<history, madeIn, task, queue, result, reached, aborting, waiting, told>>

Emits(c) ==
    /\ phase = "streaming"
    /\ madeIn[c] = 0
    /\ madeIn' = [madeIn EXCEPT ![c] = request]
    /\ UNCHANGED <<phase, cancelled, request>>

\* OutputItemDone with a tool call: the call is recorded, its task spawned and
\* its future pushed on in_flight.
ToolCall(c) ==
    /\ Emits(c)
    /\ history' = Append(history, Call(c))
    /\ in_flight' = Append(in_flight, c)
    /\ task' = [task EXCEPT ![c] = "queued"]
    /\ queue' = Append(queue, c)
    /\ future' = [future EXCEPT ![c] = "select"]
    /\ UNCHANGED <<result, reached, aborting, answer, told>>

\* build_tool_call answered RespondToModel: call and output are recorded at once.
MalformedCall(c) ==
    /\ Emits(c)
    /\ c \in Searches
    /\ history' = history \o <<Call(c), Output(c, "error")>>
    /\ UNCHANGED <<in_flight, task, queue, result, reached, aborting, waiting, told>>

\* A local shell call is no tool call of this program: it is only recorded.
LocalShellCall(c) ==
    /\ Emits(c)
    /\ c \in LocalShells
    /\ history' = Append(history, Call(c))
    /\ UNCHANGED <<in_flight, task, queue, result, reached, aborting, waiting, told>>

\* The stream completes, fails, is cut short by mail, or is cancelled.
StreamEnds ==
    /\ phase = "streaming"
    /\ phase' = "draining"
    /\ UNCHANGED <<history, cancelled, request, in_flight, madeIn, task, queue,
                   result, reached, aborting, waiting, told>>

\* Mutant: outputs are recorded as their futures resolve (FuturesUnordered).
DrainAny ==
    /\ phase = "draining"
    /\ \E c \in Range(in_flight) :
         /\ future[c] = "resolved"
         /\ history' = IF answer[c] = "fatal" THEN history
                       ELSE Append(history, Output(c, answer[c]))
         /\ in_flight' = SelectSeq(in_flight, LAMBDA d : d # c)
    /\ UNCHANGED <<phase, cancelled, request, madeIn, task, queue, result, reached,
                   aborting, waiting, told>>

\* drain_in_flight takes the next future of FuturesOrdered, in call order, and
\* records its output.  A fatal error leaves no output.
DrainOne ==
    /\ phase = "draining"
    /\ in_flight # <<>>
    /\ future[Head(in_flight)] = "resolved"
    /\ LET c == Head(in_flight)
       IN  history' = IF answer[c] = "fatal" THEN history
                      ELSE Append(history, Output(c, answer[c]))
    /\ in_flight' = Tail(in_flight)
    /\ UNCHANGED <<phase, cancelled, request, madeIn, task, queue, result, reached,
                   aborting, waiting, told>>

\* Mutant: a cancelled request returns without draining.
ReturnsWhenCancelled ==
    /\ phase = "draining"
    /\ in_flight = <<>> \/ cancelled
    /\ phase' = "idle"
    /\ UNCHANGED <<history, cancelled, request, in_flight, madeIn, task, queue,
                   result, reached, aborting, waiting, told>>

\* Everything is drained: try_run_sampling_request returns.
RequestReturns ==
    /\ phase = "draining"
    /\ in_flight = <<>>
    /\ phase' = "idle"
    /\ UNCHANGED <<history, cancelled, request, in_flight, madeIn, task, queue,
                   result, reached, aborting, waiting, told>>

\* An interruption cancels the turn's token.
CancelTurn ==
    /\ phase \in {"streaming", "draining"}
    /\ ~cancelled
    /\ cancelled' = TRUE
    /\ UNCHANGED <<history, phase, request, in_flight, madeIn, task, queue,
                   result, reached, aborting, waiting, told>>

\* The turn's task did not end within the grace period and is aborted: the
\* futures are dropped, and AbortOnDropHandle aborts the calls' tasks.
KillTurn ==
    /\ phase \in {"streaming", "draining"}
    /\ cancelled
    /\ phase' = "killed"
    /\ aborting' = [c \in Calls |-> aborting[c] \/ (c \in Range(in_flight) /\ ~Finished(c))]
    /\ future' = [c \in Calls |-> IF c \in Range(in_flight) THEN "none" ELSE future[c]]
    /\ UNCHANGED <<history, cancelled, request, in_flight, madeIn, task, queue,
                   result, reached, answer, told>>

----------------------------------------------------------------------------
(* A call's task. *)

Goes(c, from, to) ==
    /\ task[c] = from
    /\ task' = [task EXCEPT ![c] = to]

Returns(c, from, r) ==
    /\ Goes(c, from, "done")
    /\ result' = [result EXCEPT ![c] = r]

\* tokio's RwLock is fair: a waiter is served when no conflicting call of the
\* same request holds the lock or waits before it.
Acquire(c) ==
    /\ LET ahead == {d \in Calls \ {c} : madeIn[d] = madeIn[c] /\
                        (Holds(d) \/ \E i \in DOMAIN queue : queue[i] = d /\
                            \E j \in DOMAIN queue : queue[j] = c /\ i < j)}
       IN  \A d \in ahead : {c, d} \subseteq Parallel
    /\ Goes(c, "queued", "accepted")
    /\ queue' = SelectSeq(queue, LAMBDA d : d # c)
    /\ UNCHANGED <<turn, result, reached, aborting, waiting, told>>

\* No such tool, or a payload of another kind: an error, and no notification.
RejectCall(c) ==
    /\ Returns(c, "accepted", "error")
    /\ UNCHANGED <<turn, queue, reached, aborting, waiting, told>>

\* notify_tool_start.
NotifyStart(c) ==
    /\ Goes(c, "accepted", IF c \in Hooked THEN "hooks" ELSE "running")
    /\ told' = [told EXCEPT ![c] = Append(@, "start")]
    /\ UNCHANGED <<turn, queue, result, reached, aborting, waiting>>

\* run_pre_tool_use_hooks: blocked (or the rewritten input is refused), or not.
PreToolUse(c) ==
    /\ \/ Goes(c, "hooks", "running") /\ UNCHANGED result
       \/ Goes(c, "hooks", "claim") /\ result' = [result EXCEPT ![c] = "error"]
    /\ UNCHANGED <<turn, queue, reached, aborting, waiting, told>>

\* The handler returns.  A PostToolUse hook that matches may add context to the
\* history, and may turn the result into an error for the model.
HandlerReturns(c) ==
    /\ Goes(c, "running", "claim")
    /\ \/ /\ \E r \in {"ok", "error", "fatal"} : result' = [result EXCEPT ![c] = r]
          /\ UNCHANGED history
       \/ /\ c \in Hooked
          /\ \E r \in {"ok", "error"} : result' = [result EXCEPT ![c] = r]
          /\ history' = Append(history, Note(c))
    /\ UNCHANGED <<phase, cancelled, request, in_flight, madeIn, queue, reached,
                   aborting, waiting, told>>

\* The handler panics: the task's JoinError becomes a fatal error
\* (tool_task_join_error).
HandlerPanics(c) ==
    /\ Returns(c, "running", "panic")
    /\ UNCHANGED <<turn, queue, reached, aborting, waiting, told>>

\* notify_tool_finish_if_unclaimed: the swap on terminal_outcome_reached.
ClaimFinish(c) ==
    /\ Goes(c, "claim", IF reached[c] THEN "returning" ELSE "notify")
    /\ reached' = [reached EXCEPT ![c] = TRUE]
    /\ UNCHANGED <<turn, queue, result, aborting, waiting, told>>

\* notify_tool_finish.
NotifyFinish(c) ==
    /\ Goes(c, "notify", "returning")
    /\ told' = [told EXCEPT ![c] = Append(@, "finish")]
    /\ UNCHANGED <<turn, queue, result, reached, aborting, waiting>>

\* The task returns its result and releases the lock.
TaskReturns(c) ==
    /\ Goes(c, "returning", "done")
    /\ UNCHANGED <<turn, queue, result, reached, aborting, waiting, told>>

\* An aborted task is dropped at its next suspension point, with its guard.
TaskCancelled(c) ==
    /\ aborting[c]
    /\ task[c] = "queued" \/ Holds(c)
    /\ task' = [task EXCEPT ![c] = "cancelled"]
    /\ queue' = SelectSeq(queue, LAMBDA d : d # c)
    /\ UNCHANGED <<turn, result, reached, aborting, waiting, told>>

TaskStep(c) ==
    \/ Acquire(c) \/ RejectCall(c) \/ NotifyStart(c) \/ PreToolUse(c)
    \/ ClaimFinish(c) \/ NotifyFinish(c) \/ TaskReturns(c) \/ TaskCancelled(c)

----------------------------------------------------------------------------
(* A call's future, polled while the turn's task drains. *)

Polled(c, from) == phase = "draining" /\ c \in Range(in_flight) /\ future[c] = from

Moves(c, to) == future' = [future EXCEPT ![c] = to] /\ UNCHANGED answer

\* The future's output: the task's result, or "aborted".
Resolves(c, r) ==
    /\ future' = [future EXCEPT ![c] = "resolved"]
    /\ answer' = [answer EXCEPT ![c] = IF r = "panic" THEN "fatal" ELSE r]

ofTasks == <<task, queue, result>>

\* The task's handle is ready first.
TakeResult(c) ==
    /\ Polled(c, "select") \/ Polled(c, "awaitResult")
    /\ task[c] = "done"
    /\ Resolves(c, result[c])
    /\ UNCHANGED <<turn, ofTasks, reached, aborting, told>>

\* The token is cancelled: the flag is read, and the branch chosen.
SeesCancel(c) ==
    /\ Polled(c, "select")
    /\ cancelled
    /\ Moves(c, IF reached[c] \/ Finished(c) THEN "awaitResult"
                ELSE IF c \in Waits THEN "claiming" ELSE "abort")
    /\ UNCHANGED <<turn, ofTasks, reached, aborting, told>>

\* Mutant: the abort takes the outcome without looking who has it.
ClaimAbortUnconditionally(c) ==
    /\ Polled(c, "claiming")
    /\ Moves(c, "teardown")
    /\ reached' = [reached EXCEPT ![c] = TRUE]
    /\ UNCHANGED <<turn, ofTasks, aborting, told>>

\* Mutant: the task is not aborted, only awaited.
AwaitHandle(c) ==
    /\ Polled(c, "abort")
    /\ Moves(c, "reap")
    /\ UNCHANGED <<turn, ofTasks, reached, aborting, told>>

\* wait_for_runtime_cancellation: the abort tries to own the terminal outcome.
ClaimAbort(c) ==
    /\ Polled(c, "claiming")
    /\ Moves(c, IF reached[c] THEN "awaitResult" ELSE "teardown")
    /\ reached' = [reached EXCEPT ![c] = TRUE]
    /\ UNCHANGED <<turn, ofTasks, aborting, told>>

\* handle.abort()
AbortHandle(c) ==
    /\ Polled(c, "abort")
    /\ Moves(c, "reap")
    /\ aborting' = [aborting EXCEPT ![c] = TRUE]
    /\ UNCHANGED <<turn, ofTasks, reached, told>>

\* The handle is awaited after an abort.  A result that made it is returned; a
\* call that was waited for is reported aborted whatever its task returned.
Reap(c) ==
    /\ Finished(c)
    /\ \/ /\ Polled(c, "reap")
          /\ IF task[c] = "done" THEN Resolves(c, result[c]) ELSE Moves(c, "tell")
       \/ /\ Polled(c, "teardown")
          /\ IF result[c] = "panic" THEN Resolves(c, "panic") ELSE Moves(c, "tell")
    /\ UNCHANGED <<turn, ofTasks, reached, aborting, told>>

\* notify_tool_aborted, and the aborted response.
NotifyAborted(c) ==
    /\ Polled(c, "tell")
    /\ Resolves(c, "aborted")
    /\ told' = [told EXCEPT ![c] = Append(@, "aborted")]
    /\ UNCHANGED <<turn, ofTasks, reached, aborting>>

FutureStep(c) ==
    \/ TakeResult(c) \/ SeesCancel(c) \/ ClaimAbort(c) \/ AbortHandle(c)
    \/ Reap(c) \/ NotifyAborted(c)

----------------------------------------------------------------------------
TurnStep == StreamEnds \/ DrainOne \/ RequestReturns

Stopped ==
    /\ phase \in {"idle", "killed"}
    /\ request = MaxRequests
    /\ \A c \in Calls : task[c] = "none" \/ Finished(c)
    /\ UNCHANGED vars

Next ==
    \/ StartRequest \/ TurnStep \/ CancelTurn \/ KillTurn
    \/ \E c \in Calls :
         \/ ToolCall(c) \/ MalformedCall(c) \/ LocalShellCall(c)
         \/ TaskStep(c) \/ HandlerReturns(c) \/ HandlerPanics(c)
         \/ FutureStep(c)
    \/ Stopped

\* The runtime polls what is ready.  A handler need not return by itself, but
\* one that waits for runtime cancellation stops once the token is cancelled.
Fairness ==
    /\ WF_vars(DrainOne) /\ WF_vars(RequestReturns)
    /\ WF_vars(cancelled /\ StreamEnds)
    /\ \A c \in Calls :
         /\ WF_vars(TaskStep(c))
         /\ WF_vars(FutureStep(c))
         /\ c \in Waits => WF_vars(cancelled /\ HandlerReturns(c))

Spec == Init /\ [][Next]_vars /\ Fairness

----------------------------------------------------------------------------
(* Properties. *)

\* Types; the join error of a task that panicked reaches the turn as a fatal
\* error, never as an answer of its own (tool_task_join_error).
TypeOK ==
    /\ history \in Seq(Items)
    /\ phase \in Phases /\ cancelled \in BOOLEAN /\ request \in 0..MaxRequests
    /\ in_flight \in Seq(Calls) /\ queue \in Seq(Calls)
    /\ madeIn \in [Calls -> 0..MaxRequests]
    /\ task \in [Calls -> TaskStates]
    /\ result \in [Calls -> Results]
    /\ reached \in [Calls -> BOOLEAN] /\ aborting \in [Calls -> BOOLEAN]
    /\ future \in [Calls -> Futures] /\ answer \in [Calls -> Answers]
    /\ told \in [Calls -> Seq({"start", "finish", "aborted"})]

Dispatched(c) == task[c] # "none"

\* Every call of h has one output, after it, and every output has its call.
Paired(h) ==
    /\ \A i \in DOMAIN h : h[i].item = "call" =>
         LET outs == {j \in DOMAIN h : h[j].item = "output" /\ h[j].call = h[i].call}
         IN  Cardinality(outs) = 1 /\ \A j \in outs : i < j
    /\ \A j \in DOMAIN h : h[j].item = "output" => HasCall(h, h[j].call)

\* Whenever a prompt is built, also after a turn was killed between a call and
\* its output, each call in it has exactly one output and none is an orphan, and
\* trimming the oldest items, as compaction does with a history that does not
\* fit, never tears a call from its output.
PromptIsPaired ==
    LET prompt == ForPrompt(history)
    IN  Paired(prompt) /\ Paired(RemoveFirstItem(prompt))

\* Outputs are recorded at most once and in the order of the calls, however
\* the calls' tasks finish or are cancelled.
OutputsInCallOrder ==
    LET at(k, c) == {i \in DOMAIN history : history[i].item = k /\ history[i].call = c}
    IN  \A c, d \in {x \in Calls : Dispatched(x)} :
          \A i \in at("output", c), j \in at("output", d) :
             i < j => c # d /\ \A p \in at("call", c), q \in at("call", d) : p < q

\* When a sampling request has returned, cancelled or not, no task of its calls
\* is still running, so nothing of them overlaps the next request, and each call
\* has its output unless it failed fatally.
RequestLeavesNothing ==
    phase = "idle" =>
      \A c \in Calls : Dispatched(c) /\ madeIn[c] = request =>
         /\ Finished(c)
         /\ HasOutput(history, c) \/ result[c] \in {"fatal", "panic"}

\* A call that waits for runtime cancellation is reported finished or aborted,
\* never both: task and future race for terminal_outcome_reached.  And the model
\* is told that a call was aborted exactly when the extensions are.
OutcomeToldOnce ==
    /\ \A c \in Waits : \A i, j \in DOMAIN told[c] :
         told[c][i] # "start" /\ told[c][j] # "start" => i = j
    /\ \A i \in DOMAIN history :
         history[i].item = "output" =>
            (history[i].body = "aborted" <=> "aborted" \in Range(told[history[i].call]))

\* A cancelled request ends: aborted tasks release the lock, so no call waits
\* forever for a handler that would not return by itself.
CancelledRequestEnds == cancelled ~> phase \in {"idle", "killed"}
=============================================================================
