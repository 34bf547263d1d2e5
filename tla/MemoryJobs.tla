----------------------------- MODULE MemoryJobs -----------------------------
(***************************************************************************)
(* The memory pipeline's jobs in the memories database, which every codex  *)
(* process of a user shares: stage-1 extraction (one job per thread) and   *)
(* the single phase-2 consolidation. A worker owns a job through the token *)
(* of its claim and a lease; it may crash or be suspended at any point, so *)
(* a job whose lease ran out is claimed by another worker while the first  *)
(* one may still come back (a crashed worker is one that takes no further  *)
(* step). Every statement group of the store is one SQLite transaction,    *)
(* one action here; what a worker does between two of them is a separate   *)
(* step. The global row's retry_remaining is left out: nothing reads it.   *)
(***************************************************************************)
EXTENDS Naturals, FiniteSets

CONSTANTS
    Threads,        \* threads with a rollout to extract from
    MaxRunning,     \* max_rollouts_per_startup, the cap on running jobs
    Lease,          \* JOB_LEASE_SECONDS
    RetryDelay,     \* JOB_RETRY_DELAY_SECONDS
    Cooldown,       \* PHASE2_SUCCESS_COOLDOWN_SECONDS
    Retries,        \* DEFAULT_RETRY_REMAINING
    MaxSelected,    \* max_raw_memories_for_consolidation
    MaxTime,        \* bound: the clock
    MaxUpdates,     \* bound: updated_at of a thread, 1..MaxUpdates
    MaxClaims,      \* bound: stage-1 claims ever made
    MaxClaims2,     \* bound: phase-2 claims ever made
    MaxWatermark    \* bound: input watermark raised by pollution

ASSUME DelaysArePositive ==
    /\ {MaxRunning, Lease, RetryDelay, Cooldown, Retries} \subseteq Nat \ {0}
    /\ {MaxSelected, MaxUpdates, MaxClaims, MaxClaims2, MaxWatermark} \subseteq Nat
    /\ MaxTime \in Nat \ {0}

VARIABLES
    now,        \* Utc::now()
    job,        \* jobs rows of kind memory_stage1
    output,     \* stage1_outputs rows: source_updated_at and selection
    global,     \* the jobs row of kind memory_consolidate_global
    runs,       \* stage-1 claims a worker still works on
    runs2,      \* phase-2 claims a worker still works on
    claims,     \* ownership tokens issued for stage 1
    claims2,    \* ownership tokens issued for phase 2
    finished,   \* when phase 2 last succeeded, and with which selection
    fence       \* claims2 when the data was last cleared

storeVars == <<job, output, global>>
vars == <<now, storeVars, runs, runs2, claims, claims2, finished, fence>>

NoRow == [status |-> "absent"]
NoOutput == [src |-> 0, selected |-> 0]
Never == 0          \* a NULL lease_until, retry_at, finished_at or token

Present(row) == row.status # "absent"
Owned(row, token) == row.status = "running" /\ row.token = token
LeaseHeld(row) == row.status = "running" /\ row.lease > now

-----------------------------------------------------------------------------
(* enqueue_global_consolidation: a running job stays running, any other one*)
(* becomes pending without its retry delay; the watermark always advances. *)

Larger(a, b) == IF a > b THEN a ELSE b

NewGlobal(w) ==
    [status |-> "pending", token |-> Never, lease |-> Never, retryAt |-> Never,
     error |-> FALSE, doneAt |-> Never, started |-> Never,
     input |-> w, success |-> 0]

\* A new input makes the job as good as new.
EnqueuedAfresh(w) ==
    IF ~Present(global) \/ global.status # "running" THEN NewGlobal(w)
    ELSE [global EXCEPT !.input = Larger(w, @ + 1)]

Enqueued(w) ==
    IF ~Present(global) THEN NewGlobal(w)
    ELSE [global EXCEPT !.status = IF @ = "running" THEN @ ELSE "pending",
                        !.retryAt = IF global.status = "running" THEN @ ELSE Never,
                        !.input = Larger(w, @ + 1)]

-----------------------------------------------------------------------------
(* Stage 1.                                                                *)

Init ==
    /\ now = 1
    /\ job = [t \in Threads |-> NoRow]
    /\ output = [t \in Threads |-> NoOutput]
    /\ global = NoRow
    /\ runs = {}
    /\ runs2 = {}
    /\ claims = 0
    /\ claims2 = 0
    /\ finished = [at |-> Never, selection |-> {}]
    /\ fence = 0

UpToDate(t, src) ==
    \/ output[t].src >= src
    \/ Present(job[t]) /\ job[t].success >= src

Advanced(t, src) == src > job[t].input

Claimable(t, src) ==
    Present(job[t]) =>
        /\ ~LeaseHeld(job[t])
        /\ job[t].retryAt <= now \/ Advanced(t, src)
        /\ job[t].retries > 0 \/ Advanced(t, src)

ClaimedJob(t, src) ==
    [status |-> "running", token |-> claims + 1, lease |-> now + Lease,
     retryAt |-> Never, input |-> src,
     retries |-> IF Present(job[t]) /\ ~Advanced(t, src)
                 THEN job[t].retries ELSE Retries,
     success |-> IF Present(job[t]) THEN job[t].success ELSE 0]

BelowCap(t) == Cardinality({u \in Threads \ {t} : LeaseHeld(job[u])}) < MaxRunning

\* try_claim_stage1_job. The caller read the thread's updated_at from the state
\* database before, while the thread goes on: workers come with any src, an
\* older one after a newer one too.
ClaimStage1(t) ==
    /\ claims < MaxClaims
    /\ \E src \in 1..MaxUpdates :
          /\ ~UpToDate(t, src) /\ Claimable(t, src) /\ BelowCap(t)
          /\ job' = [job EXCEPT ![t] = ClaimedJob(t, src)]
          /\ runs' = runs \cup {[thread |-> t, token |-> claims + 1, src |-> src]}
    /\ claims' = claims + 1
    /\ UNCHANGED <<now, output, global, runs2, claims2, finished, fence>>

JobDone(t) ==
    [job EXCEPT ![t].status = "done", ![t].lease = Never, ![t].success = job[t].input]

OwnsJob(r) == Present(job[r.thread]) /\ Owned(job[r.thread], r.token)
StillRunning(r) == Present(job[r.thread]) /\ job[r.thread].status = "running"

\* The worker's guard on its final statements: the row runs under its token.
MayFinish(r) == OwnsJob(r)

\* mark_stage1_job_succeeded.
StoreOutput(r) ==
    /\ job' = JobDone(r.thread)
    /\ output' = IF r.src >= output[r.thread].src
                 THEN [output EXCEPT ![r.thread].src = r.src] ELSE output
    /\ global' = Enqueued(r.src)

\* mark_stage1_job_succeeded_no_output.
DropOutput(r) ==
    /\ job' = JobDone(r.thread)
    /\ output' = [output EXCEPT ![r.thread] = NoOutput]
    /\ global' = IF output[r.thread] = NoOutput THEN global
                 ELSE Enqueued(job[r.thread].input)

\* mark_stage1_job_failed.
FailJob(r) ==
    /\ job' = [job EXCEPT ![r.thread].status = "error", ![r.thread].lease = Never,
                          ![r.thread].retryAt = now + RetryDelay,
                          ![r.thread].retries = @ - 1]
    /\ UNCHANGED <<output, global>>

\* The worker ends its job; nothing is stored once it lost its claim.
FinishStage1(r) ==
    /\ runs' = runs \ {r}
    /\ \/ MayFinish(r) /\ (StoreOutput(r) \/ DropOutput(r) \/ FailJob(r))
       \/ ~MayFinish(r) /\ UNCHANGED storeVars
    /\ UNCHANGED <<now, runs2, claims, claims2, finished, fence>>

-----------------------------------------------------------------------------
(* Phase 2.                                                                *)

Cooled == global.error \/ global.doneAt = Never \/ global.doneAt + Cooldown <= now

\* The lease is taken for expired in its last tick.
ExpiredEarly == global.status # "running" \/ global.lease <= now + 1

Expired == global.status # "running" \/ global.lease <= now

\* try_claim_global_phase2_job: a missing row is created claimed.
ClaimPhase2 ==
    /\ claims2 < MaxClaims2
    /\ Present(global) => global.retryAt <= now /\ Expired /\ Cooled
    /\ global' = [(IF Present(global) THEN global ELSE NewGlobal(0)) EXCEPT
                     !.status = "running", !.token = claims2 + 1,
                     !.lease = now + Lease, !.retryAt = Never, !.error = FALSE,
                     !.doneAt = Never, !.started = now]
    /\ claims2' = claims2 + 1
    /\ runs2' = runs2 \cup {[token |-> claims2 + 1, pc |-> "select",
                             until |-> now + Lease, selection |-> {},
                             watermark |-> IF Present(global) THEN global.input ELSE 0]}
    /\ UNCHANGED <<now, job, output, runs, claims, finished, fence>>

OwnsGlobal(r) == Present(global) /\ Owned(global, r.token)

Becomes(r, q) == runs2' = (runs2 \ {r}) \cup {q}

Snapshots == {[thread |-> t, src |-> output[t].src] :
                 t \in {u \in Threads : output[u] # NoOutput}}

\* get_watermark: the newest selected source, not below the claimed one.
Watermark(r, sel) ==
    LET newest == {s.src : s \in sel} \cup {r.watermark}
    IN  CHOOSE w \in newest : \A v \in newest : v <= w

\* get_phase2_input_selection (which rows rank highest is left open), then the
\* workspace is synced: changes are handed to an agent.
SelectInputs(r) ==
    /\ r.pc = "select"
    /\ \E sel \in SUBSET Snapshots : \E next \in {"agent", "finish"} :
          /\ Cardinality(sel) <= MaxSelected
          /\ Becomes(r, [r EXCEPT !.pc = next, !.selection = sel,
                                  !.watermark = Watermark(r, sel)])
    /\ UNCHANGED <<now, storeVars, runs, claims, claims2, finished, fence>>

\* heartbeat_global_phase2_job, while the agent runs and once more when it is
\* done, before the run resets the baseline and records its success. Without
\* the lock the run ends.
Heartbeat(r) ==
    /\ r.pc = "agent"
    /\ OwnsGlobal(r)
    /\ global' = [global EXCEPT !.lease = now + Lease]
    /\ \E next \in {"agent", "finish"} :
          Becomes(r, [r EXCEPT !.pc = next, !.until = now + Lease])
    /\ UNCHANGED <<now, job, output, runs, claims, claims2, finished, fence>>

LostLock(r) ==
    /\ r.pc = "agent"
    /\ ~OwnsGlobal(r)
    /\ runs2' = runs2 \ {r}
    /\ UNCHANGED <<now, storeVars, runs, claims, claims2, finished, fence>>

\* Selections of earlier runs are not taken back.
SelectionAdded(sel) ==
    [t \in Threads |->
        IF [thread |-> t, src |-> output[t].src] \in sel
        THEN [output[t] EXCEPT !.selected = output[t].src] ELSE output[t]]

\* Only the rows that still are the snapshot that was consolidated are marked.
SelectionRewritten(sel) ==
    [t \in Threads |->
        [output[t] EXCEPT !.selected =
            IF [thread |-> t, src |-> output[t].src] \in sel THEN output[t].src ELSE 0]]

\* mark_global_phase2_job_succeeded.
SucceedPhase2(r) ==
    /\ r.pc = "finish"
    /\ runs2' = runs2 \ {r}
    /\ \/ /\ OwnsGlobal(r)
          /\ global' = [global EXCEPT !.status = "done", !.lease = Never,
                                      !.error = FALSE, !.doneAt = now,
                                      !.success = Larger(@, r.watermark)]
          /\ output' = SelectionRewritten(r.selection)
          /\ finished' = [at |-> now, selection |-> r.selection]
       \/ /\ ~OwnsGlobal(r)
          /\ UNCHANGED <<global, output, finished>>
    /\ UNCHANGED <<now, job, runs, claims, claims2, fence>>

\* mark_global_phase2_job_failed: at every step of a run. No running row is
\* without a token, so the fallback for an unowned row finds none.
FailPhase2(r) ==
    /\ runs2' = runs2 \ {r}
    /\ OwnsGlobal(r)
    /\ global' = [global EXCEPT !.status = "error", !.lease = Never,
                                !.retryAt = now + RetryDelay, !.error = TRUE,
                                !.doneAt = now]
    /\ UNCHANGED <<now, job, output, runs, claims, claims2, finished, fence>>

-----------------------------------------------------------------------------
(* Other writers of the store, and the environment.                        *)

\* prune_stage1_outputs_for_retention: unselected rows only; the job's
\* watermark stays, so the thread is not extracted again.
Prune(t) ==
    /\ output[t] # NoOutput /\ output[t].selected = 0
    /\ output' = [output EXCEPT ![t] = NoOutput]
    /\ UNCHANGED <<now, job, global, runs, runs2, claims, claims2,
                   finished, fence>>

\* delete_thread_memory.
DeleteThreadMemory(t) ==
    /\ output[t] # NoOutput \/ Present(job[t])
    /\ output' = [output EXCEPT ![t] = NoOutput]
    /\ job' = [job EXCEPT ![t] = NoRow]
    /\ global' = IF output[t].selected # 0 THEN Enqueued(now) ELSE global
    /\ UNCHANGED <<now, runs, runs2, claims, claims2, finished, fence>>

\* mark_thread_memory_mode_polluted, for a thread of the last baseline.
MarkPolluted(t) ==
    /\ output[t].selected # 0
    /\ Present(global) => global.input < MaxWatermark
    /\ global' = Enqueued(now)
    /\ UNCHANGED <<now, job, output, runs, runs2, claims, claims2,
                   finished, fence>>

\* clear_memory_data_in_pool.
ClearMemoryData ==
    /\ Present(global) \/ \E t \in Threads : Present(job[t])
    /\ job' = [t \in Threads |-> NoRow]
    /\ output' = [t \in Threads |-> NoOutput]
    /\ global' = NoRow
    /\ finished' = [at |-> Never, selection |-> {}]
    /\ fence' = claims2
    /\ UNCHANGED <<now, runs, runs2, claims, claims2>>

Tick ==
    /\ now < MaxTime
    /\ now' = now + 1
    /\ UNCHANGED <<storeVars, runs, runs2, claims, claims2, finished, fence>>

Next ==
    \/ \E t \in Threads :
          ClaimStage1(t) \/ Prune(t) \/ DeleteThreadMemory(t)
            \/ MarkPolluted(t)
    \/ \E r \in runs : FinishStage1(r)
    \/ ClaimPhase2
    \/ \E r \in runs2 :
          SelectInputs(r) \/ Heartbeat(r) \/ LostLock(r)
            \/ SucceedPhase2(r) \/ FailPhase2(r)
    \/ ClearMemoryData
    \/ Tick

Spec == Init /\ [][Next]_vars

-----------------------------------------------------------------------------
\* Types. A job's retries never fall below zero although mark_stage1_job_failed
\* decrements without a check: a job without retries is claimed only for newer
\* input, which restores them.
TypeOK ==
    /\ now \in 1..MaxTime
    /\ \A t \in Threads : Present(job[t]) =>
          /\ job[t].status \in {"running", "done", "error"}
          /\ job[t].retries \in 0..Retries
          /\ {job[t].input, job[t].success} \subseteq 0..MaxUpdates
    /\ \A t \in Threads : output[t].src \in 0..MaxUpdates
    /\ Present(global) =>
          global.status \in {"pending", "running", "done", "error"}

\* An output is never older than the newest extraction that succeeded for its
\* thread: a worker whose job was taken over cannot bring back what the new
\* owner replaced or found empty, nor have its old text pass for the new input.
OutputIsNewest ==
    \A t \in Threads :
        output[t] # NoOutput /\ Present(job[t]) => output[t].src >= job[t].success

\* Every row marked selected_for_phase2 carries a snapshot that the latest
\* successful consolidation really used, although outputs are replaced and
\* deleted while it runs and several runs overlap.
SelectionIsOfLastSuccess ==
    \A t \in Threads : output[t].selected # 0 =>
        [thread |-> t, src |-> output[t].selected] \in finished.selection

\* A consolidation that runs was claimed a full cooldown after the last one
\* that succeeded, whatever was enqueued, failed or crashed in between.
CooldownRespected ==
    Present(global) /\ global.status = "running" /\ finished.at # Never =>
        global.started >= finished.at + Cooldown

\* Until the lease of its claim or of its last successful heartbeat runs out, a
\* phase-2 run owns the global job: nobody else passes the ownership check that
\* guards the workspace baseline. Clearing all memory data ends every claim.
LeaseProtects ==
    \A r \in runs2 : r.until > now /\ r.token > fence => OwnsGlobal(r)
=============================================================================
