----------------------------- MODULE UnifiedExec -----------------------------
(***************************************************************************)
(* UnifiedExecProcessManager: exec_command calls start processes and keep    *)
(* the live ones in a bounded store under a reserved process id, write_stdin *)
(* polls them, terminate_process and terminate_all_processes end them, and   *)
(* an exit watcher per stored process reports its end.  The store's mutex    *)
(* makes each look-up or change of the store one step; everything between    *)
(* two such steps interleaves, and the turn that made a call may be killed   *)
(* at any of the call's awaits.                                              *)
(***************************************************************************)
EXTENDS Naturals, Sequences, FiniteSets

CONSTANTS
    Execs,      \* exec_command calls, and the process each one starts
    Ids,        \* process ids
    Writers,    \* concurrent write_stdin calls
    MaxStored,  \* MAX_UNIFIED_EXEC_PROCESSES
    Protected,  \* most recently used processes that are not pruned
    MaxOps,     \* bound on write_stdin, terminate_process and terminate_all calls
    None

ASSUME UnifiedExecAssumption ==
    /\ IsFiniteSet(Execs) /\ IsFiniteSet(Ids)
    /\ MaxStored \in Nat /\ Protected \in Nat /\ Protected < MaxStored
    /\ MaxOps \in Nat
    /\ None \notin Execs \cup Ids

VARIABLES
    reserved,   \* reserved_process_ids
    processes,  \* the store: the process under each id, or None
    recency,    \* stored processes by last_used, oldest first
    call,       \* where each exec_command call is
    id,         \* the process id a call allocated
    status,     \* none, running, killed (signalled, token cancelled) or gone (has_exited)
    failure,    \* the process has a failure_message
    active,     \* initial_exec_command_active
    pruned,     \* the process a call pruned while storing its own
    watch,      \* the exit watcher of a process
    ended,      \* ExecCommandEnd events emitted for the process
    answered,   \* what the call returned to the model
    writer,     \* the process and id a write_stdin call holds
    stopper,    \* the process and id terminate_process holds
    swept,      \* processes terminate_all_processes took: pending, then done
    ops         \* write_stdin, terminate_process and terminate_all calls so far

vars == <<reserved, processes, recency, call, id, status, failure, active, pruned,
          watch, ended, answered, writer, stopper, swept, ops>>

Idle == [at |-> "idle", process |-> None, id |-> None]

Calling == {"allocated", "opened", "storing", "collecting", "short"}
InProgress(e) == call[e] \in Calling
StoredIds == {p \in Ids : processes[p] # None}
Stored(e) == \E p \in Ids : processes[p] = e
Signalled(e) == status[e] \in {"killed", "gone"}
HasExited(e) == status[e] = "gone"

\* What a process's status becomes by terminate() and by terminate_confirmed().
Terminated(s) == IF s = "running" THEN "killed" ELSE s

----------------------------------------------------------------------------
Init ==
    /\ reserved = {}
    /\ processes = [p \in Ids |-> None]
    /\ recency = <<>>
    /\ call = [e \in Execs |-> "idle"]
    /\ id = [e \in Execs |-> None]
    /\ status = [e \in Execs |-> "none"]
    /\ failure = [e \in Execs |-> FALSE]
    /\ active = [e \in Execs |-> FALSE]
    /\ pruned = [e \in Execs |-> None]
    /\ watch = [e \in Execs |-> "none"]
    /\ ended = [e \in Execs |-> 0]
    /\ answered = [e \in Execs |-> "none"]
    /\ writer = [w \in Writers |-> Idle]
    /\ stopper = Idle
    /\ swept = [e \in Execs |-> "no"]
    /\ ops = 0

others == <<writer, stopper, swept, ops>>
store == <<reserved, processes, recency>>

\* The first of a set of places in the order of use.
First(places) == CHOOSE k \in places : \A j \in places : k <= j

\* An order of use without process x, which is in it at most once.
Without(s, x) ==
    LET at == {k \in 1..Len(s) : s[k] = x}
    IN  IF at = {} THEN s
        ELSE [k \in 1..(Len(s) - 1) |-> IF k < First(at) THEN s[k] ELSE s[k + 1]]

\* The orders of use that have x at one more place.
Placed(s, x) ==
    {[k \in 1..(Len(s) + 1) |-> IF k < n THEN s[k] ELSE IF k = n THEN x ELSE s[k - 1]] :
       n \in 1..(Len(s) + 1)}

\* ProcessStore::remove
Remove(p) ==
    /\ reserved' = reserved \ {p}
    /\ processes' = [processes EXCEPT ![p] = None]
    /\ recency' = Without(recency, processes[p])

----------------------------------------------------------------------------
(* exec_command *)

\* allocate_process_id draws a random id until it is not reserved.  That the
\* draw also misses the ids some call still holds is assumed: they are few
\* among 99000.
Allocate(e) ==
    /\ call[e] = "idle"
    /\ \E p \in Ids \ reserved :
         /\ \A x \in Execs : InProgress(x) => id[x] # p
         /\ \A w \in Writers : writer[w].id # p
         /\ stopper.id # p
         /\ processes[p] = None
         /\ reserved' = reserved \cup {p}
         /\ id' = [id EXCEPT ![e] = p]
    /\ call' = [call EXCEPT ![e] = "allocated"]
    /\ UNCHANGED <<processes, recency, status, failure, active, pruned, watch, ended,
                   answered, others>>

\* The call ends before its process is opened: refused, intercepted as a patch
\* or not started (the id is released), or its command is refused (it is not).
NotOpened(e) ==
    /\ call[e] = "allocated"
    /\ call' = [call EXCEPT ![e] = "done"]
    /\ Remove(id[e]) \/ UNCHANGED store
    /\ UNCHANGED <<id, status, failure, active, pruned, watch, ended, answered, others>>

\* open_session_with_sandbox: the process runs, ExecCommandBegin is emitted.
Open(e) ==
    /\ call[e] = "allocated"
    /\ call' = [call EXCEPT ![e] = "opened"]
    /\ status' = [status EXCEPT ![e] = "running"]
    /\ UNCHANGED <<store, id, failure, active, pruned, watch, ended, answered, others>>

\* process_id_to_prune_from_meta: the least recently used exited process that
\* is not protected, else the least recently used one that is not protected.
Prunable == 1..(Len(recency) - Protected)

\* Mutant: a process more than the limit is kept.
PruneTooLate ==
    IF Len(recency) <= MaxStored THEN None ELSE recency[First(Prunable)]

\* prune_processes_if_needed
ToPrune ==
    IF Len(recency) < MaxStored THEN None
    ELSE LET exited == {k \in Prunable : HasExited(recency[k])}
         IN  recency[First(IF exited # {} THEN exited ELSE Prunable)]

\* store_process, with the lock, up to its next await.  Nothing pruned means no
\* await: the exit watcher is spawned in the same step.  The new entry's
\* last_used was taken before the wait for the lock, and others may have been
\* stored or used since: its place in the order is not known.
Store(e) ==
    /\ call[e] = "opened"
    /\ ~HasExited(e)
    /\ LET victim == ToPrune
           gone == {p \in Ids : processes[p] = victim /\ victim # None}
       IN  /\ pruned' = [pruned EXCEPT ![e] = victim]
           /\ reserved' = reserved \ gone
           /\ processes' = [p \in Ids |-> IF p = id[e] THEN e
                                          ELSE IF p \in gone THEN None ELSE processes[p]]
           /\ recency' \in Placed(Without(recency, victim), e)
           /\ call' = [call EXCEPT ![e] = IF victim = None THEN "collecting" ELSE "storing"]
           /\ watch' = [watch EXCEPT ![e] = IF victim = None THEN "spawned" ELSE "none"]
    /\ active' = [active EXCEPT ![e] = TRUE]
    /\ UNCHANGED <<id, status, failure, ended, answered, others>>

\* Mutant: the pruned entry is dropped and its process not terminated.
FinishStoreLeaves(e) ==
    /\ call[e] = "storing"
    /\ watch' = [watch EXCEPT ![e] = "spawned"]
    /\ call' = [call EXCEPT ![e] = "collecting"]
    /\ UNCHANGED <<store, id, status, failure, active, pruned, ended, answered, others>>

\* The pruned process's network approval is unregistered, it is terminated, and
\* the new process's watcher is spawned.
FinishStore(e) ==
    /\ call[e] = "storing"
    /\ status' = [status EXCEPT ![pruned[e]] = Terminated(@)]
    /\ watch' = [watch EXCEPT ![e] = "spawned"]
    /\ call' = [call EXCEPT ![e] = "collecting"]
    /\ UNCHANGED <<store, id, failure, active, pruned, ended, answered, others>>

\* The process exited before it could be stored.
NotStored(e) ==
    /\ call[e] = "opened"
    /\ HasExited(e)
    /\ call' = [call EXCEPT ![e] = "short"]
    /\ UNCHANGED <<store, id, status, failure, active, pruned, watch, ended, answered, others>>

Returns(e, a) ==
    /\ call' = [call EXCEPT ![e] = "done"]
    /\ active' = [active EXCEPT ![e] = FALSE]
    /\ answered' = [answered EXCEPT ![e] = a]

\* Mutant: the call reports a failed process's end whether or not it is stored.
ReturnFailedReporting(e) ==
    /\ call[e] \in {"collecting", "short"}
    /\ failure[e]
    /\ ended' = [ended EXCEPT ![e] = @ + 1]
    /\ Remove(id[e])
    /\ status' = [status EXCEPT ![e] = Terminated(@)]
    /\ Returns(e, "failed")
    /\ UNCHANGED <<id, failure, pruned, watch, others>>

\* The output is collected and the process has failed (or its network access
\* was denied): the end is reported here if no watcher will report it.
ReturnFailed(e) ==
    /\ call[e] \in {"collecting", "short"}
    /\ failure[e]
    /\ ended' = [ended EXCEPT ![e] = IF call[e] = "short" THEN @ + 1 ELSE @]
    /\ Remove(id[e])
    /\ status' = [status EXCEPT ![e] = Terminated(@)]
    /\ Returns(e, "failed")
    /\ UNCHANGED <<id, failure, pruned, watch, others>>

\* refresh_process_state: an exited process leaves the store.
ReturnStored(e) ==
    /\ call[e] = "collecting"
    /\ ~failure[e]
    /\ LET x == processes[id[e]]
       IN  IF x = None THEN Returns(e, "unknown") /\ UNCHANGED store
           ELSE IF HasExited(x) THEN Returns(e, "exited") /\ Remove(id[e])
           ELSE Returns(e, "alive") /\ UNCHANGED store
    /\ UNCHANGED <<id, status, failure, pruned, watch, ended, others>>

\* A short-lived process: the call reports its end.
ReturnShort(e) ==
    /\ call[e] = "short"
    /\ ~failure[e]
    /\ ended' = [ended EXCEPT ![e] = @ + 1]
    /\ Remove(id[e])
    /\ Returns(e, "exited")
    /\ UNCHANGED <<id, status, failure, pruned, watch, others>>

\* Whether a process is dropped, and so terminated, when a call lets go of it.
LastReference(x) ==
    /\ ~Stored(x) /\ watch[x] # "spawned" /\ ~InProgress(x)
    /\ \A w \in Writers : writer[w].process # x
    /\ stopper.process # x

\* The turn is killed during the call.  The process it opened is dropped unless
\* it is stored; a process it pruned is dropped without being terminated.
KillCall(e) ==
    /\ InProgress(e)
    /\ call' = [call EXCEPT ![e] = "aborted"]
    /\ active' = [active EXCEPT ![e] = FALSE]
    /\ status' = [x \in Execs |->
         IF \/ x = e /\ call[e] \in {"opened", "short"}
            \/ x = pruned[e] /\ call[e] = "storing" /\ LastReference(x)
         THEN Terminated(status[x]) ELSE status[x]]
    /\ UNCHANGED <<store, id, failure, pruned, watch, ended, answered, others>>

----------------------------------------------------------------------------
(* The process, and its watcher. *)

\* The process exits, or the exec-server reports that it has.
Exit(e) ==
    /\ status[e] \in {"running", "killed"}
    /\ status' = [status EXCEPT ![e] = "gone"]
    /\ UNCHANGED <<store, call, id, failure, active, pruned, watch, ended, answered, others>>

\* terminate_process_on_network_denial, or a failure of the exec-server.
Fail(e) ==
    /\ status[e] \in {"running", "killed"}
    /\ status' = [status EXCEPT ![e] = "gone"]
    /\ failure' = [failure EXCEPT ![e] = TRUE]
    /\ UNCHANGED <<store, call, id, active, pruned, watch, ended, answered, others>>

\* spawn_exit_watcher: once the token is cancelled and the output drained.
WatcherReports(e) ==
    /\ watch[e] = "spawned"
    /\ Signalled(e)
    /\ watch' = [watch EXCEPT ![e] = "done"]
    /\ ended' = [ended EXCEPT ![e] = @ + 1]
    /\ UNCHANGED <<store, call, id, status, failure, active, pruned, answered, others>>

----------------------------------------------------------------------------
(* write_stdin *)

process == <<call, id, failure, active, pruned, watch, ended, answered>>

\* prepare_process_handles, with an id the model was given.
Prepare(w) ==
    /\ writer[w].at = "idle"
    /\ ops < MaxOps
    /\ \E p \in StoredIds :
         /\ answered[processes[p]] = "alive"
         /\ writer' = [writer EXCEPT ![w] = [at |-> "write", process |-> processes[p], id |-> p]]
         /\ recency' = Append(Without(recency, processes[p]), processes[p])
    /\ ops' = ops + 1
    /\ UNCHANGED <<reserved, processes, process, status, stopper, swept>>

Done(w) == writer' = [writer EXCEPT ![w] = Idle]

\* The input is written (or empty), and the output polled.
Write(w) ==
    /\ writer[w].at = "write"
    /\ writer' = [writer EXCEPT ![w].at = "poll"]
    /\ UNCHANGED <<store, process, status, stopper, swept, ops>>

\* The write fails.  An exited process leaves the store and its output is still
\* polled; a failed transport terminates the process; else the call returns.
WriteFails(w) ==
    /\ writer[w].at = "write"
    /\ LET p == writer[w].id
           e == writer[w].process
       IN  IF processes[p] # None /\ HasExited(processes[p])
           THEN /\ Remove(p)
                /\ writer' = [writer EXCEPT ![w].at = "removed"]
                /\ UNCHANGED status
           ELSE \/ Done(w) /\ UNCHANGED <<store, status>>
                \/ /\ status' = [status EXCEPT ![e] = Terminated(@)]
                   /\ Remove(p)
                   /\ Done(w)
    /\ UNCHANGED <<process, stopper, swept, ops>>

\* The poll ends: a failed process is released, an exited one leaves the store.
PollEnds(w) ==
    /\ writer[w].at \in {"poll", "removed"}
    /\ LET p == writer[w].id
           e == writer[w].process
       IN  IF failure[e]
           THEN Remove(p) /\ status' = [status EXCEPT ![e] = Terminated(@)]
           ELSE /\ IF writer[w].at = "poll" /\ processes[p] # None /\ HasExited(processes[p])
                   THEN Remove(p) ELSE UNCHANGED store
                /\ UNCHANGED status
    /\ Done(w)
    /\ UNCHANGED <<process, stopper, swept, ops>>

\* The turn is killed during the call, or the input is refused (a closed stdin,
\* an interrupt that fails): the call ends and changes nothing.
KillWriter(w) ==
    /\ writer[w] # Idle
    /\ Done(w)
    /\ UNCHANGED <<store, process, status, stopper, swept, ops>>

----------------------------------------------------------------------------
(* terminate_process and terminate_all_processes *)

\* The process is looked up and, unless it has exited, terminated; the
\* exec-server may refuse.
Stop ==
    /\ stopper = Idle
    /\ ops < MaxOps
    /\ \E p \in StoredIds :
         \/ /\ stopper' = [at |-> "remove", process |-> processes[p], id |-> p]
            /\ status' = [status EXCEPT ![processes[p]] = "gone"]
         \/ UNCHANGED <<stopper, status>>
    /\ ops' = ops + 1
    /\ UNCHANGED <<store, process, writer, swept>>

\* Mutant: the entry is removed under the feet of the exec_command call.
StopRemovesActive ==
    /\ stopper.at = "remove"
    /\ IF processes[stopper.id] = stopper.process
       THEN Remove(stopper.id) ELSE UNCHANGED store
    /\ stopper' = Idle
    /\ UNCHANGED <<process, status, writer, swept, ops>>

\* Its entry is removed if it is still the same process and its exec_command
\* call is not waiting to find it.
StopRemoves ==
    /\ stopper.at = "remove"
    /\ IF processes[stopper.id] = stopper.process /\ ~active[stopper.process]
       THEN Remove(stopper.id) ELSE UNCHANGED store
    /\ stopper' = Idle
    /\ UNCHANGED <<process, status, writer, swept, ops>>

\* All entries are drained and all reservations cleared under the lock.
Sweep ==
    /\ ops < MaxOps
    /\ \A e \in Execs : swept[e] # "pending"
    /\ ops' = ops + 1
    /\ swept' = [e \in Execs |-> IF Stored(e) THEN "pending" ELSE swept[e]]
    /\ processes' = [p \in Ids |-> None]
    /\ reserved' = {}
    /\ recency' = <<>>
    /\ UNCHANGED <<process, status, writer, stopper>>

\* Each drained process is terminated, after its approval is unregistered.
SweepNext(e) ==
    /\ swept[e] = "pending"
    /\ swept' = [swept EXCEPT ![e] = "done"]
    /\ status' = [status EXCEPT ![e] = Terminated(@)]
    /\ UNCHANGED <<store, process, writer, stopper, ops>>

----------------------------------------------------------------------------
CallStep(e) ==
    \/ NotOpened(e) \/ Open(e) \/ Store(e) \/ FinishStore(e) \/ NotStored(e)
    \/ ReturnFailed(e) \/ ReturnStored(e) \/ ReturnShort(e)

\* No call is in progress and no process waits to be reported.
Quiet ==
    /\ \A e \in Execs : ~InProgress(e)
    /\ \A e \in Execs : watch[e] = "spawned" => ~Signalled(e)
    /\ UNCHANGED vars

Next ==
    \/ \E e \in Execs :
         \/ Allocate(e) \/ CallStep(e) \/ KillCall(e)
         \/ Exit(e) \/ Fail(e) \/ WatcherReports(e) \/ SweepNext(e)
    \/ \E w \in Writers :
         Prepare(w) \/ Write(w) \/ WriteFails(w) \/ PollEnds(w) \/ KillWriter(w)
    \/ Stop \/ StopRemoves \/ Sweep
    \/ Quiet

Spec == Init /\ [][Next]_vars

----------------------------------------------------------------------------
(* Properties. *)

Holding == [at : {"idle", "write", "poll", "removed", "remove"},
            process : Execs \cup {None}, id : Ids \cup {None}]

\* Types; each stored process has one place in the order of use.
TypeOK ==
    /\ reserved \subseteq Ids
    /\ processes \in [Ids -> Execs \cup {None}]
    /\ recency \in Seq(Execs) /\ Len(recency) = Cardinality(StoredIds)
    /\ call \in [Execs -> Calling \cup {"idle", "done", "aborted"}]
    /\ id \in [Execs -> Ids \cup {None}]
    /\ status \in [Execs -> {"none", "running", "killed", "gone"}]
    /\ failure \in [Execs -> BOOLEAN] /\ active \in [Execs -> BOOLEAN]
    /\ pruned \in [Execs -> Execs \cup {None}]
    /\ watch \in [Execs -> {"none", "spawned", "done"}]
    /\ ended \in [Execs -> 0..2]
    /\ answered \in [Execs -> {"none", "alive", "exited", "failed", "unknown"}]
    /\ writer \in [Writers -> Holding] /\ stopper \in Holding
    /\ swept \in [Execs -> {"no", "pending", "done"}]
    /\ ops \in 0..MaxOps

\* ExecCommandEnd is emitted at most once for a process, by its watcher or by
\* its call, and not while the process runs untouched.
EndOnce == \A e \in Execs : ended[e] <= 1 /\ (ended[e] = 1 => Signalled(e))

\* The call that pruned e was killed inside store_process, before it could
\* terminate e: the one way this code loses a running process.
PruneInterrupted(e) == \E x \in Execs : pruned[x] = e /\ call[x] = "aborted"

\* A running process that is in the store no longer is about to be terminated
\* by whoever took it out: nothing runs on that nobody can list, poll or stop.
NoOrphans ==
    \A e \in Execs :
      status[e] = "running" /\ ~InProgress(e) /\ ~Stored(e) =>
         \/ swept[e] = "pending"
         \/ \E x \in Execs : pruned[x] = e /\ call[x] = "storing"
         \/ PruneInterrupted(e)

\* However the calls that store processes overlap, and whatever is pruned, taken
\* out or swept between them, the store never has more than
\* MAX_UNIFIED_EXEC_PROCESSES entries: the entry that is one too many is pruned
\* under the lock that adds it.
StoreBounded == Cardinality(StoredIds) <= MaxStored

\* While an exec_command call waits for its process's output, only pruning or
\* terminate_all_processes takes the process from the store: a concurrent
\* terminate_process leaves it, so that the call can report its exit.
EntryKept ==
    \A e \in Execs :
      call[e] = "collecting" /\ ~Stored(e) =>
         swept[e] # "no" \/ \E x \in Execs : pruned[x] = e
=============================================================================
