-------------------------- MODULE MemoryJobsProofs --------------------------
(***************************************************************************)
(* Invariance proofs for MemoryJobs, for every set of threads, every lease,*)
(* delay and cooldown and any number of workers that stall or come back.   *)
(***************************************************************************)
EXTENDS MemoryJobs, WellFoundedInduction, TLAPS

(* The rows and the claims, field by field. *)
JobRow ==
    [status : {"running", "done", "error"}, token : Nat, lease : Nat, retryAt : Nat,
     input : 0..MaxUpdates, retries : 0..Retries, success : 0..MaxUpdates]

GlobalRow ==
    [status : {"pending", "running", "done", "error"}, token : Nat, lease : Nat,
     retryAt : Nat, error : BOOLEAN, doneAt : Nat, started : Nat, input : Nat,
     success : Nat]

Snapshot == [thread : Threads, src : 0..MaxUpdates]

Run2 ==
    [token : Nat, pc : {"select", "agent", "finish"}, until : Nat,
     selection : SUBSET Snapshot, watermark : Nat]

Rows ==
    /\ now \in 1..MaxTime
    /\ job \in [Threads -> {NoRow} \cup JobRow]
    /\ output \in [Threads -> [src : 0..MaxUpdates, selected : 0..MaxUpdates]]
    /\ global \in {NoRow} \cup GlobalRow
    /\ finished \in [at : Nat, selection : SUBSET Snapshot]
    /\ finished.at <= now
    /\ runs \subseteq [thread : Threads, token : Nat, src : 1..MaxUpdates]
    /\ runs2 \subseteq Run2
    /\ claims \in Nat /\ claims2 \in Nat /\ fence \in Nat

(* Tokens are handed out once: a run's token is one already issued, and no  *)
(* two phase-2 runs share one.                                              *)
Tokens ==
    /\ fence <= claims2
    /\ \A r \in runs : r.token <= claims
    /\ \A r \in runs2 : r.token <= claims2
    /\ \A q, r \in runs2 : q.token = r.token => q = r

(* A job is claimed with retries left, and its owner works on its input.    *)
OwnersAgree ==
    /\ \A t \in Threads : job[t].status = "running" => job[t].retries > 0
    /\ \A r \in runs : OwnsJob(r) => r.src = job[r.thread].input

(* A run whose lease has not passed owns the row, and the row's lease lasts *)
(* at least as long as the run believes.                                    *)
LeaseAgrees ==
    \A r \in runs2 : r.until > now /\ r.token > fence =>
        OwnsGlobal(r) /\ global.lease >= r.until

(* Once phase 2 has succeeded, the row either remembers that success in     *)
(* doneAt, or it ran and failed later, which took a full cooldown.          *)
CooldownKept ==
    finished.at # Never =>
        /\ Present(global)
        /\ global.status = "running" =>
              /\ global.started >= finished.at + Cooldown
              /\ global.started <= now
        /\ global.status # "running" =>
              IF global.error THEN now >= finished.at + Cooldown
              ELSE global.doneAt # Never /\ global.doneAt >= finished.at

(* The inductive invariant. *)
IInv ==
    /\ Rows /\ Tokens /\ OwnersAgree /\ LeaseAgrees /\ CooldownKept
    /\ OutputIsNewest /\ SelectionIsOfLastSuccess

-----------------------------------------------------------------------------
(* A bounded set of naturals has a largest element: what Watermark chooses. *)
LEMMA LeastNat ==
    ASSUME NEW T, T \subseteq Nat, T # {}
    PROVE  \E x \in T : \A y \in T : x <= y
<1> DEFINE R == OpToRel(<, Nat)
<1>1. IsWellFoundedOn(R, Nat)
  BY NatLessThanWellFounded
<1>2. \A x, y \in Nat : x < y => <<x, y>> \in R
  BY DEF OpToRel
<1> HIDE DEF R
<1>3. PICK x \in T : \A y \in T : ~ (<<y, x>> \in R)
  BY <1>1, WFMin
<1>4. ASSUME NEW y \in T PROVE x <= y
  <2>1. x \in Nat /\ y \in Nat /\ ~(y < x)
    BY <1>2, <1>3
  <2> QED
    BY <2>1
<1> QED
  BY <1>4

LEMMA GreatestNat ==
    ASSUME NEW S, S \subseteq Nat, S # {}, NEW n \in Nat, \A s \in S : s <= n
    PROVE  \E m \in S : \A s \in S : s <= m
<1> DEFINE T == {n - s : s \in S}
<1>1. \A s \in S : n - s \in Nat /\ s \in Nat
  OBVIOUS
<1>2. T \subseteq Nat /\ T # {}
  BY <1>1, Zenon
<1>3. PICK x \in T : \A y \in T : x <= y
  BY <1>2, LeastNat
<1>4. PICK m \in S : x = n - m
  BY <1>3
<1>5. \A s \in S : n - m <= n - s
  BY <1>3, <1>4
<1> QED
  BY <1>1, <1>5

(* The watermark a run ends with is a number, and not below the one it      *)
(* claimed with.                                                            *)
LEMMA WatermarkIsLargest ==
    ASSUME NEW r \in Run2, NEW sel \in SUBSET Snapshot
    PROVE  Watermark(r, sel) \in Nat /\ Watermark(r, sel) >= r.watermark
<1> DEFINE newest == {s.src : s \in sel} \cup {r.watermark}
           n == r.watermark + MaxUpdates
<1> USE DelaysArePositive
<1>1. newest \subseteq Nat /\ newest # {} /\ n \in Nat /\ r.watermark \in newest
  BY DEF Run2, Snapshot
<1>2. \A v \in newest : v <= n
  BY DEF Run2, Snapshot
<1> HIDE DEF newest, n
<1>3. \E m \in newest : \A v \in newest : v <= m
  BY <1>1, <1>2, GreatestNat
<1>4. LET m == CHOOSE m \in newest : \A v \in newest : v <= m
      IN  m \in newest /\ \A v \in newest : v <= m
  BY <1>3
<1> QED
  BY <1>1, <1>4 DEF Watermark, newest

(* Enqueuing keeps a running row running under its token and lease, and     *)
(* whatever the row remembers of its last end.                              *)
LEMMA EnqueuedRow ==
    ASSUME global \in {NoRow} \cup GlobalRow, NEW w \in Nat
    PROVE  /\ Enqueued(w) \in GlobalRow
           /\ Enqueued(w).status \in {"running", "pending"}
           /\ ~Present(global) => Enqueued(w).status = "pending"
           /\ Present(global) =>
                 /\ (Enqueued(w).status = "running") <=> (global.status = "running")
                 /\ Enqueued(w).token = global.token
                 /\ Enqueued(w).lease = global.lease
                 /\ Enqueued(w).error = global.error
                 /\ Enqueued(w).doneAt = global.doneAt
                 /\ Enqueued(w).started = global.started
<1>1. CASE ~Present(global)
  BY <1>1 DEF Enqueued, NewGlobal, GlobalRow, Never
<1>2. CASE Present(global)
  <2> DEFINE g == Enqueued(w)
  <2>1. global \in GlobalRow
    BY <1>2 DEF Present, NoRow
  <2>2. g = [global EXCEPT
                !.status = IF global.status = "running" THEN "running" ELSE "pending",
                !.retryAt = IF global.status = "running" THEN global.retryAt ELSE Never,
                !.input = Larger(w, global.input + 1)]
    BY <1>2, <2>1 DEF Enqueued
  <2>3. Larger(w, global.input + 1) \in Nat
    BY <2>1 DEF GlobalRow, Larger
  <2> HIDE DEF g
  <2>4. g \in GlobalRow
    BY <2>1, <2>2, <2>3 DEF GlobalRow, Never
  <2>5. /\ g.token = global.token /\ g.lease = global.lease
        /\ g.doneAt = global.doneAt /\ g.started = global.started
    BY <2>1, <2>2 DEF GlobalRow
  <2>6. g.error = global.error
    BY <2>1, <2>2 DEF GlobalRow
  <2>7. g.status = IF global.status = "running" THEN "running" ELSE "pending"
    BY <2>1, <2>2 DEF GlobalRow
  <2> QED
    BY <1>2, <2>4, <2>5, <2>6, <2>7 DEF g
<1> QED
  BY <1>1, <1>2

LEMMA RowsStep ==
    ASSUME Rows, Tokens, OwnersAgree, Next PROVE Rows'
<1> USE DelaysArePositive DEF Rows
<1>0. /\ now \in Nat /\ now + Lease \in Nat /\ now + RetryDelay \in Nat
      /\ claims2 + 1 \in Nat /\ Never \in Nat
  BY DEF Never
<1>1. ASSUME NEW t \in Threads, ClaimStage1(t) PROVE Rows'
  <2>1. PICK src \in 1..MaxUpdates :
           /\ Claimable(t, src)
           /\ job' = [job EXCEPT ![t] = ClaimedJob(t, src)]
           /\ runs' = runs \cup {[thread |-> t, token |-> claims + 1, src |-> src]}
    BY <1>1 DEF ClaimStage1
  <2>2. ClaimedJob(t, src) \in JobRow
    BY <2>1 DEF ClaimedJob, JobRow, Claimable, Present, Advanced, NoRow, Never
  <2> QED
    BY <1>1, <2>1, <2>2 DEF ClaimStage1
<1>2. ASSUME NEW t \in Threads, Prune(t) PROVE Rows'
  BY <1>2 DEF Prune, NoOutput
<1>3. ASSUME NEW t \in Threads, DeleteThreadMemory(t) PROVE Rows'
  <2>1. global' \in {NoRow} \cup GlobalRow
    BY <1>3, EnqueuedRow DEF DeleteThreadMemory
  <2> QED
    BY <1>3, <2>1 DEF DeleteThreadMemory, NoOutput
<1>4. ASSUME NEW t \in Threads, MarkPolluted(t) PROVE Rows'
  BY <1>4, EnqueuedRow DEF MarkPolluted
<1>5. ASSUME NEW r \in runs, FinishStage1(r) PROVE Rows'
  <2> DEFINE t == r.thread
  <2>1. t \in Threads /\ r.src \in 1..MaxUpdates
    OBVIOUS
  <2>2. CASE ~MayFinish(r)
    BY <1>5, <2>2 DEF FinishStage1, storeVars
  <2>3. CASE MayFinish(r)
    <3>1. job[t] \in JobRow /\ job[t].status = "running" /\ job[t].retries > 0
      BY <2>1, <2>3 DEF MayFinish, OwnsJob, Owned, Present, NoRow, OwnersAgree
    <3>2. /\ [job[t] EXCEPT !.status = "done", !.lease = Never, !.success = job[t].input] \in JobRow
          /\ [job[t] EXCEPT !.status = "error", !.lease = Never, !.retryAt = now + RetryDelay,
                            !.retries = @ - 1] \in JobRow
      <4>1. job[t].retries - 1 \in 0..Retries
        BY <3>1 DEF JobRow
      <4> QED
        BY <1>0, <3>1, <4>1 DEF JobRow
    <3>3. job' \in [Threads -> {NoRow} \cup JobRow]
      BY <1>5, <2>1, <2>3, <3>2 DEF FinishStage1, StoreOutput, DropOutput, FailJob, JobDone
    <3>4. output' \in [Threads -> [src : 0..MaxUpdates, selected : 0..MaxUpdates]]
      BY <1>5, <2>1, <2>3 DEF FinishStage1, StoreOutput, DropOutput, FailJob, NoOutput
    <3>5. global' \in {NoRow} \cup GlobalRow
      <4>1. r.src \in Nat /\ job[t].input \in Nat
        BY <2>1, <3>1 DEF JobRow
      <4> QED
        BY <1>5, <2>3, <4>1, EnqueuedRow DEF FinishStage1, StoreOutput, DropOutput, FailJob
    <3> QED
      BY <1>5, <3>3, <3>4, <3>5 DEF FinishStage1
  <2> QED
    BY <2>2, <2>3
<1>6. CASE ClaimPhase2
  <2> DEFINE g == IF Present(global) THEN global ELSE NewGlobal(0)
  <2>1. g \in GlobalRow
    BY DEF GlobalRow, NewGlobal, Present, NoRow, Never
  <2>2. global' = [g EXCEPT !.status = "running", !.token = claims2 + 1,
                     !.lease = now + Lease, !.retryAt = Never, !.error = FALSE,
                     !.doneAt = Never, !.started = now]
    BY <1>6 DEF ClaimPhase2
  <2> HIDE DEF g
  <2>3. global' \in GlobalRow
    BY <1>0, <2>1, <2>2 DEF GlobalRow
  <2>4. (IF Present(global) THEN global.input ELSE 0) \in Nat
    BY DEF GlobalRow, Present, NoRow
  <2>5. runs2' \subseteq Run2
    BY <1>6, <2>4 DEF ClaimPhase2, Run2
  <2> QED
    BY <1>6, <2>3, <2>5 DEF ClaimPhase2
<1>7. ASSUME NEW r \in runs2, SelectInputs(r) PROVE Rows'
  <2>1. PICK sel \in SUBSET Snapshots, next \in {"agent", "finish"} :
           Becomes(r, [r EXCEPT !.pc = next, !.selection = sel,
                                !.watermark = Watermark(r, sel)])
    BY <1>7 DEF SelectInputs
  <2>2. sel \subseteq Snapshot /\ r \in Run2
    BY <2>1 DEF Snapshots, Snapshot
  <2>3. Watermark(r, sel) \in Nat
    BY <2>2, WatermarkIsLargest
  <2>4. [r EXCEPT !.pc = next, !.selection = sel, !.watermark = Watermark(r, sel)] \in Run2
    BY <2>1, <2>2, <2>3 DEF Run2
  <2> QED
    BY <1>7, <2>1, <2>4 DEF SelectInputs, Becomes, storeVars
<1>8. ASSUME NEW r \in runs2, Heartbeat(r) PROVE Rows'
  <2>1. global \in GlobalRow /\ r \in Run2
    BY <1>8 DEF Heartbeat, OwnsGlobal, Present, NoRow
  <2>2. global' \in GlobalRow
    BY <1>8, <2>1 DEF Heartbeat, GlobalRow
  <2>3. \A next \in {"agent", "finish"} : [r EXCEPT !.pc = next, !.until = now + Lease] \in Run2
    BY <1>0, <2>1 DEF Run2
  <2> QED
    BY <1>8, <2>2, <2>3 DEF Heartbeat, Becomes
<1>9. ASSUME NEW r \in runs2, LostLock(r) PROVE Rows'
  BY <1>9 DEF LostLock, storeVars
<1>10. ASSUME NEW r \in runs2, SucceedPhase2(r) PROVE Rows'
  <2>0. r \in Run2
    OBVIOUS
  <2>1. CASE OwnsGlobal(r)
    <3>1. global \in GlobalRow
      BY <2>1 DEF OwnsGlobal, Present, NoRow
    <3>2. Larger(global.success, r.watermark) \in Nat
      BY <2>0, <3>1 DEF GlobalRow, Run2, Larger
    <3>3. global' \in GlobalRow
      BY <1>0, <1>10, <2>1, <3>1, <3>2 DEF SucceedPhase2, GlobalRow
    <3>4. output' \in [Threads -> [src : 0..MaxUpdates, selected : 0..MaxUpdates]]
      <4>1. \A t \in Threads, n \in 0..MaxUpdates :
               [output[t] EXCEPT !.selected = n] \in [src : 0..MaxUpdates, selected : 0..MaxUpdates]
        OBVIOUS
      <4>2. \A t \in Threads : output[t].src \in 0..MaxUpdates
        OBVIOUS
      <4>3. output' = SelectionRewritten(r.selection)
        BY <1>10, <2>1 DEF SucceedPhase2
      <4> QED
        BY <4>1, <4>2, <4>3 DEF SelectionRewritten
    <3>5. finished' = [at |-> now, selection |-> r.selection]
      BY <1>10, <2>1 DEF SucceedPhase2
    <3> QED
      BY <1>10, <2>0, <3>3, <3>4, <3>5 DEF SucceedPhase2, Run2
  <2>2. CASE ~OwnsGlobal(r)
    BY <1>10, <2>2 DEF SucceedPhase2
  <2> QED
    BY <2>1, <2>2
<1>11. ASSUME NEW r \in runs2, FailPhase2(r) PROVE Rows'
  <2>1. global \in GlobalRow
    BY <1>11 DEF FailPhase2, OwnsGlobal, Present, NoRow
  <2>2. global' \in GlobalRow
    BY <1>0, <1>11, <2>1 DEF FailPhase2, GlobalRow
  <2> QED
    BY <1>11, <2>2 DEF FailPhase2
<1>12. CASE ClearMemoryData
  BY <1>12 DEF ClearMemoryData, NoOutput, Never
<1>13. CASE Tick
  BY <1>13 DEF Tick, storeVars
<1> QED
  BY <1>1, <1>2, <1>3, <1>4, <1>5, <1>6, <1>7, <1>8, <1>9, <1>10, <1>11, <1>12, <1>13 DEF Next

-----------------------------------------------------------------------------
(* Stage 1, pruning, deletion and pollution reach phase 2 only by enqueuing. *)
Stage1Step ==
    \/ \E t \in Threads :
          ClaimStage1(t) \/ Prune(t) \/ DeleteThreadMemory(t) \/ MarkPolluted(t)
    \/ \E r \in runs : FinishStage1(r)

LEMMA Stage1Enqueues ==
    ASSUME Rows, Stage1Step
    PROVE  /\ global' = global \/ \E w \in Nat : global' = Enqueued(w)
           /\ UNCHANGED <<now, runs2, claims2, finished, fence>>
<1> USE DelaysArePositive DEF Rows
<1>1. ASSUME NEW t \in Threads,
             ClaimStage1(t) \/ Prune(t) \/ DeleteThreadMemory(t) \/ MarkPolluted(t)
      PROVE  /\ global' = global \/ \E w \in Nat : global' = Enqueued(w)
             /\ UNCHANGED <<now, runs2, claims2, finished, fence>>
  <2>1. now \in Nat
    OBVIOUS
  <2> QED
    BY <1>1, <2>1, Zenon DEF ClaimStage1, Prune, DeleteThreadMemory, MarkPolluted
<1>2. ASSUME NEW r \in runs, FinishStage1(r)
      PROVE  /\ global' = global \/ \E w \in Nat : global' = Enqueued(w)
             /\ UNCHANGED <<now, runs2, claims2, finished, fence>>
  <2>1. r.src \in Nat /\ (MayFinish(r) => job[r.thread].input \in Nat)
    BY DEF MayFinish, OwnsJob, Present, NoRow, JobRow
  <2> QED
    BY <1>2, <2>1, Zenon DEF FinishStage1, StoreOutput, DropOutput, FailJob, storeVars
<1> QED
  BY <1>1, <1>2 DEF Stage1Step

LEMMA NextCases ==
    ASSUME Next
    PROVE  \/ Stage1Step
           \/ ClaimPhase2
           \/ \E r \in runs2 : SelectInputs(r) \/ Heartbeat(r) \/ LostLock(r)
                                 \/ SucceedPhase2(r) \/ FailPhase2(r)
           \/ ClearMemoryData
           \/ Tick
  BY DEF Next, Stage1Step

(* What a phase-2 run becomes keeps its token. *)
LEMMA RunKeepsToken ==
    ASSUME NEW r \in Run2, SelectInputs(r) \/ Heartbeat(r)
    PROVE  \E q : /\ runs2' = (runs2 \ {r}) \cup {q}
                  /\ q.token = r.token
                  /\ SelectInputs(r) => q.until = r.until
                  /\ Heartbeat(r) => q.until = now + Lease
<1>1. CASE SelectInputs(r)
  <2>1. PICK sel \in SUBSET Snapshots, next \in {"agent", "finish"} :
           Becomes(r, [r EXCEPT !.pc = next, !.selection = sel,
                                !.watermark = Watermark(r, sel)])
    BY <1>1 DEF SelectInputs
  <2>2. ~Heartbeat(r)
    BY <1>1 DEF SelectInputs, Heartbeat
  <2> DEFINE q == [r EXCEPT !.pc = next, !.selection = sel, !.watermark = Watermark(r, sel)]
  <2>3. q.token = r.token /\ q.until = r.until
    BY DEF Run2
  <2> QED
    BY <2>1, <2>2, <2>3 DEF Becomes
<1>2. CASE Heartbeat(r)
  <2>1. PICK next \in {"agent", "finish"} :
           Becomes(r, [r EXCEPT !.pc = next, !.until = now + Lease])
    BY <1>2 DEF Heartbeat
  <2>2. ~SelectInputs(r)
    BY <1>2 DEF SelectInputs, Heartbeat
  <2> DEFINE q == [r EXCEPT !.pc = next, !.until = now + Lease]
  <2>3. q.token = r.token /\ q.until = now + Lease
    BY DEF Run2
  <2> QED
    BY <2>1, <2>2, <2>3 DEF Becomes
<1> QED
  BY <1>1, <1>2

LEMMA TokensStep ==
    ASSUME Rows, Tokens, Next PROVE Tokens'
<1> USE DelaysArePositive DEF Rows, Tokens
<1>1. ASSUME NEW t \in Threads, ClaimStage1(t) PROVE Tokens'
  BY <1>1 DEF ClaimStage1
<1>2. ASSUME NEW t \in Threads, Prune(t) \/ DeleteThreadMemory(t) \/ MarkPolluted(t)
      PROVE  Tokens'
  BY <1>2 DEF Prune, DeleteThreadMemory, MarkPolluted
<1>3. ASSUME NEW r \in runs, FinishStage1(r) PROVE Tokens'
  BY <1>3 DEF FinishStage1
<1>4. CASE ClaimPhase2
  <2> DEFINE q == [token |-> claims2 + 1, pc |-> "select", until |-> now + Lease,
                   selection |-> {},
                   watermark |-> IF Present(global) THEN global.input ELSE 0]
  <2>1. q.token = claims2 + 1 /\ runs2' = runs2 \cup {q}
    BY <1>4 DEF ClaimPhase2
  <2>2. \A r \in runs2 : r.token \in Nat
    BY DEF Run2
  <2> HIDE DEF q
  <2> QED
    BY <1>4, <2>1, <2>2 DEF ClaimPhase2
<1>5. ASSUME NEW r \in runs2, SelectInputs(r) \/ Heartbeat(r) PROVE Tokens'
  <2>1. PICK q : q.token = r.token /\ runs2' = (runs2 \ {r}) \cup {q}
    BY <1>5, RunKeepsToken
  <2>2. UNCHANGED <<runs, claims, claims2, fence>>
    BY <1>5 DEF SelectInputs, Heartbeat
  <2> QED
    BY <2>1, <2>2
<1>6. ASSUME NEW r \in runs2, LostLock(r) \/ SucceedPhase2(r) \/ FailPhase2(r) PROVE Tokens'
  BY <1>6 DEF LostLock, SucceedPhase2, FailPhase2
<1>7. CASE ClearMemoryData
  BY <1>7 DEF ClearMemoryData
<1>8. CASE Tick
  BY <1>8 DEF Tick
<1> QED
  BY <1>1, <1>2, <1>3, <1>4, <1>5, <1>6, <1>7, <1>8 DEF Next

LEMMA OwnersStep ==
    ASSUME Rows, Tokens, OwnersAgree, Next PROVE OwnersAgree'
<1> USE DelaysArePositive DEF Rows
<1>1. ASSUME NEW t \in Threads, ClaimStage1(t) PROVE OwnersAgree'
  <2>1. PICK src \in 1..MaxUpdates :
           /\ Claimable(t, src)
           /\ job' = [job EXCEPT ![t] = ClaimedJob(t, src)]
           /\ runs' = runs \cup {[thread |-> t, token |-> claims + 1, src |-> src]}
    BY <1>1 DEF ClaimStage1
  <2>2. /\ ClaimedJob(t, src).retries > 0
        /\ ClaimedJob(t, src).token = claims + 1
        /\ ClaimedJob(t, src).input = src
    BY <2>1 DEF ClaimedJob, Claimable, Present, NoRow, JobRow
  <2>3. \A r \in runs : r.token # claims + 1
    BY DEF Tokens
  <2>4. job'[t] = ClaimedJob(t, src) /\ \A u \in Threads \ {t} : job'[u] = job[u]
    BY <2>1
  <2> HIDE DEF ClaimedJob
  <2> QED
    BY <2>1, <2>2, <2>3, <2>4 DEF OwnersAgree, OwnsJob, Present, Owned
<1>2. ASSUME NEW t \in Threads, Prune(t) \/ MarkPolluted(t) PROVE OwnersAgree'
  BY <1>2 DEF Prune, MarkPolluted, OwnersAgree, OwnsJob
<1>3. ASSUME NEW t \in Threads, DeleteThreadMemory(t) PROVE OwnersAgree'
  BY <1>3 DEF DeleteThreadMemory, OwnersAgree, OwnsJob, Present, Owned, NoRow
<1>4. ASSUME NEW r \in runs, FinishStage1(r) PROVE OwnersAgree'
  <2> DEFINE t == r.thread
  <2>1. CASE ~MayFinish(r)
    BY <1>4, <2>1 DEF FinishStage1, storeVars, OwnersAgree, OwnsJob
  <2>2. CASE MayFinish(r)
    <3>1. t \in Threads /\ job[t] \in JobRow
      BY <2>2 DEF MayFinish, OwnsJob, Present, NoRow
    <3>2. /\ job'[t].status \in {"done", "error"}
          /\ \A u \in Threads \ {t} : job'[u] = job[u]
      BY <1>4, <2>2, <3>1 DEF FinishStage1, StoreOutput, DropOutput, FailJob, JobDone, JobRow
    <3> QED
      BY <1>4, <3>1, <3>2 DEF FinishStage1, OwnersAgree, OwnsJob, Present, Owned
  <2> QED
    BY <2>1, <2>2
<1>5. CASE ClaimPhase2 \/ Tick
  BY <1>5 DEF ClaimPhase2, Tick, storeVars, OwnersAgree, OwnsJob
<1>6. ASSUME NEW r \in runs2,
             SelectInputs(r) \/ Heartbeat(r) \/ LostLock(r) \/ SucceedPhase2(r) \/ FailPhase2(r)
      PROVE  OwnersAgree'
  BY <1>6 DEF SelectInputs, Heartbeat, LostLock, SucceedPhase2, FailPhase2, storeVars,
              OwnersAgree, OwnsJob
<1>7. CASE ClearMemoryData
  BY <1>7 DEF ClearMemoryData, OwnersAgree, OwnsJob, Present, NoRow
<1> QED
  BY <1>1, <1>2, <1>3, <1>4, <1>5, <1>6, <1>7 DEF Next

LEMMA LeaseStep ==
    ASSUME Rows, Tokens, LeaseAgrees, Next PROVE LeaseAgrees'
<1> USE DelaysArePositive DEF Rows
<1>0. /\ \A r \in runs2 : r \in Run2 /\ r.token \in Nat /\ r.until \in Nat
      /\ now \in Nat /\ now + Lease \in Nat
      /\ Present(global) => global \in GlobalRow /\ global.lease \in Nat /\ global.token \in Nat
  BY DEF Run2, GlobalRow, Present, NoRow
<1>1. CASE Stage1Step
  <2>1. UNCHANGED <<now, runs2, claims2, fence>>
    BY <1>1, Stage1Enqueues
  <2>2. Present(global) => /\ Present(global)'
                           /\ global.status = "running" => global'.status = "running"
                           /\ global'.token = global.token
                           /\ global'.lease = global.lease
    BY <1>1, Stage1Enqueues, EnqueuedRow DEF Present
  <2> QED
    BY <2>1, <2>2 DEF LeaseAgrees, OwnsGlobal, Owned
<1>2. CASE ClaimPhase2
  <2> DEFINE q == [token |-> claims2 + 1, pc |-> "select", until |-> now + Lease,
                   selection |-> {},
                   watermark |-> IF Present(global) THEN global.input ELSE 0]
  <2>1. q.token = claims2 + 1 /\ q.until = now + Lease /\ runs2' = runs2 \cup {q}
    BY <1>2 DEF ClaimPhase2
  <2>2. UNCHANGED <<now, fence>>
    BY <1>2 DEF ClaimPhase2
  <2>3. ASSUME NEW r \in runs2, r.until > now, r.token > fence PROVE FALSE
    <3>1. OwnsGlobal(r) /\ global.lease >= r.until
      BY <2>3 DEF LeaseAgrees
    <3>2. Present(global) /\ Expired /\ global.status = "running"
      BY <1>2, <3>1 DEF ClaimPhase2, OwnsGlobal, Owned
    <3> QED
      BY <1>0, <2>3, <3>1, <3>2 DEF Expired
  <2>4. /\ global'.status = "running"
        /\ global'.token = claims2 + 1
        /\ global'.lease = now + Lease
    <3> DEFINE g == IF Present(global) THEN global ELSE NewGlobal(0)
    <3>1. g \in GlobalRow
      BY DEF GlobalRow, NewGlobal, Present, NoRow, Never
    <3>2. global' = [g EXCEPT !.status = "running", !.token = claims2 + 1,
                       !.lease = now + Lease, !.retryAt = Never, !.error = FALSE,
                       !.doneAt = Never, !.started = now]
      BY <1>2 DEF ClaimPhase2
    <3> HIDE DEF g
    <3> QED
      BY <3>1, <3>2 DEF GlobalRow
  <2> HIDE DEF q
  <2> QED
    BY <1>0, <2>1, <2>2, <2>3, <2>4 DEF LeaseAgrees, OwnsGlobal, Owned, Present
<1>3. ASSUME NEW r \in runs2, SelectInputs(r) PROVE LeaseAgrees'
  <2>1. PICK q : /\ q.token = r.token /\ q.until = r.until
                 /\ runs2' = (runs2 \ {r}) \cup {q}
    BY <1>0, <1>3, RunKeepsToken
  <2>2. UNCHANGED <<now, global, fence>>
    BY <1>3 DEF SelectInputs, storeVars
  <2> QED
    BY <2>1, <2>2 DEF LeaseAgrees, OwnsGlobal, Owned
<1>4. ASSUME NEW r \in runs2, Heartbeat(r) PROVE LeaseAgrees'
  <2>1. PICK q : /\ q.token = r.token /\ q.until = now + Lease
                 /\ runs2' = (runs2 \ {r}) \cup {q}
    BY <1>0, <1>4, RunKeepsToken
  <2>2. OwnsGlobal(r) /\ UNCHANGED <<now, fence>>
    BY <1>4 DEF Heartbeat
  <2>3. /\ global'.lease = now + Lease
        /\ global'.status = "running" /\ global'.token = r.token
    BY <1>0, <1>4, <2>2 DEF Heartbeat, GlobalRow, OwnsGlobal, Owned
  <2>4. ASSUME NEW p \in runs2 \ {r}, p.until > now, p.token > fence PROVE FALSE
    BY <2>2, <2>4 DEF LeaseAgrees, OwnsGlobal, Owned, Tokens
  <2> QED
    BY <1>0, <2>1, <2>2, <2>3, <2>4 DEF LeaseAgrees, OwnsGlobal, Owned, Present
<1>5. ASSUME NEW r \in runs2, LostLock(r) PROVE LeaseAgrees'
  BY <1>5 DEF LostLock, storeVars, LeaseAgrees, OwnsGlobal
<1>6. ASSUME NEW r \in runs2, SucceedPhase2(r) \/ FailPhase2(r) PROVE LeaseAgrees'
  <2>1. runs2' = runs2 \ {r} /\ UNCHANGED <<now, fence>>
    BY <1>6 DEF SucceedPhase2, FailPhase2
  <2>2. CASE OwnsGlobal(r)
    <3>1. ASSUME NEW p \in runs2 \ {r}, p.until > now, p.token > fence PROVE FALSE
      BY <2>2, <3>1 DEF LeaseAgrees, OwnsGlobal, Owned, Tokens
    <3> QED
      BY <2>1, <3>1 DEF LeaseAgrees
  <2>3. CASE ~OwnsGlobal(r)
    BY <1>6, <2>1, <2>3 DEF SucceedPhase2, FailPhase2, LeaseAgrees, OwnsGlobal
  <2> QED
    BY <2>2, <2>3
<1>7. CASE ClearMemoryData
  BY <1>0, <1>7 DEF ClearMemoryData, LeaseAgrees, Tokens
<1>8. CASE Tick
  BY <1>0, <1>8 DEF Tick, storeVars, LeaseAgrees, OwnsGlobal
<1> QED
  BY <1>1, <1>2, <1>3, <1>4, <1>5, <1>6, <1>7, <1>8, NextCases

LEMMA CooldownStep ==
    ASSUME Rows, Tokens, CooldownKept, Next PROVE CooldownKept'
<1> USE DelaysArePositive DEF Rows
<1>0. /\ now \in Nat /\ now # Never /\ finished.at \in Nat /\ Cooldown \in Nat
      /\ Present(global) =>
            /\ global \in GlobalRow /\ global.doneAt \in Nat /\ global.started \in Nat
  BY DEF GlobalRow, Present, NoRow, Never
<1>1. CASE Stage1Step
  <2>1. UNCHANGED <<now, finished>>
    BY <1>1, Stage1Enqueues
  <2>2. Present(global) => /\ Present(global)'
                           /\ global'.status = "running" <=> global.status = "running"
                           /\ global'.error = global.error
                           /\ global'.doneAt = global.doneAt
                           /\ global'.started = global.started
    BY <1>1, Stage1Enqueues, EnqueuedRow DEF Present
  <2> QED
    BY <2>1, <2>2 DEF CooldownKept
<1>2. CASE ClaimPhase2
  <2>1. /\ global'.status = "running"
        /\ global'.started = now
    <3> DEFINE g == IF Present(global) THEN global ELSE NewGlobal(0)
    <3>1. g \in GlobalRow
      BY DEF GlobalRow, NewGlobal, Present, NoRow, Never
    <3>2. global' = [g EXCEPT !.status = "running", !.token = claims2 + 1,
                       !.lease = now + Lease, !.retryAt = Never, !.error = FALSE,
                       !.doneAt = Never, !.started = now]
      BY <1>2 DEF ClaimPhase2
    <3> HIDE DEF g
    <3> QED
      BY <3>1, <3>2 DEF GlobalRow
  <2>2. UNCHANGED <<now, finished>>
    BY <1>2 DEF ClaimPhase2
  <2>3. ASSUME finished.at # Never PROVE now >= finished.at + Cooldown
    <3>1. Present(global) /\ Expired /\ Cooled
      BY <1>2, <2>3 DEF ClaimPhase2, CooldownKept
    <3>2. CASE global.status = "running"
      BY <1>0, <2>3, <3>2 DEF CooldownKept
    <3>3. CASE global.status # "running" /\ global.error
      BY <2>3, <3>3 DEF CooldownKept
    <3>4. CASE global.status # "running" /\ ~global.error
      <4>1. global.doneAt # Never /\ global.doneAt >= finished.at
        BY <2>3, <3>4 DEF CooldownKept
      <4>2. global.doneAt + Cooldown <= now
        BY <3>1, <3>4, <4>1 DEF Cooled
      <4> QED
        BY <1>0, <3>1, <4>1, <4>2
    <3> QED
      BY <3>2, <3>3, <3>4
  <2> QED
    BY <1>0, <2>1, <2>2, <2>3 DEF CooldownKept, Present
<1>3. ASSUME NEW r \in runs2, SelectInputs(r) \/ LostLock(r) PROVE CooldownKept'
  BY <1>3 DEF SelectInputs, LostLock, storeVars, CooldownKept
<1>4. ASSUME NEW r \in runs2, Heartbeat(r) PROVE CooldownKept'
  <2>1. /\ global'.status = "running" /\ global.status = "running"
        /\ global'.started = global.started
    BY <1>0, <1>4 DEF Heartbeat, GlobalRow, OwnsGlobal, Owned
  <2>2. UNCHANGED <<now, finished>>
    BY <1>4 DEF Heartbeat
  <2> QED
    BY <2>1, <2>2 DEF CooldownKept, Present
<1>5. ASSUME NEW r \in runs2, SucceedPhase2(r) PROVE CooldownKept'
  <2>1. CASE OwnsGlobal(r)
    <3>1. global \in GlobalRow
      BY <1>0, <2>1 DEF OwnsGlobal
    <3>2. /\ global'.status = "done" /\ global'.error = FALSE
          /\ global'.doneAt = now
      BY <1>5, <2>1, <3>1 DEF SucceedPhase2, GlobalRow
    <3>3. finished'.at = now /\ now' = now
      BY <1>5, <2>1 DEF SucceedPhase2
    <3> QED
      BY <1>0, <3>2, <3>3 DEF CooldownKept, Present
  <2>2. CASE ~OwnsGlobal(r)
    BY <1>5, <2>2 DEF SucceedPhase2, CooldownKept
  <2> QED
    BY <2>1, <2>2
<1>6. ASSUME NEW r \in runs2, FailPhase2(r) PROVE CooldownKept'
  <2>1. global \in GlobalRow /\ global.status = "running"
    BY <1>0, <1>6 DEF FailPhase2, OwnsGlobal, Owned
  <2>2. global'.status = "error" /\ global'.error = TRUE
    BY <1>6, <2>1 DEF FailPhase2, GlobalRow
  <2>3. UNCHANGED <<now, finished>>
    BY <1>6 DEF FailPhase2
  <2>4. finished.at # Never => now >= finished.at + Cooldown
    BY <1>0, <2>1 DEF CooldownKept
  <2> QED
    BY <2>2, <2>3, <2>4 DEF CooldownKept, Present
<1>7. CASE ClearMemoryData
  BY <1>7 DEF ClearMemoryData, CooldownKept
<1>8. CASE Tick
  BY <1>0, <1>8 DEF Tick, storeVars, CooldownKept
<1> QED
  BY <1>1, <1>2, <1>3, <1>4, <1>5, <1>6, <1>7, <1>8, NextCases

LEMMA SelectionStep ==
    ASSUME Rows, SelectionIsOfLastSuccess, Next PROVE SelectionIsOfLastSuccess'
<1> USE DelaysArePositive DEF Rows
<1>1. ASSUME NEW t \in Threads, ClaimStage1(t) \/ MarkPolluted(t)
      PROVE  SelectionIsOfLastSuccess'
  BY <1>1 DEF ClaimStage1, MarkPolluted, SelectionIsOfLastSuccess
<1>2. ASSUME NEW t \in Threads, Prune(t) \/ DeleteThreadMemory(t)
      PROVE  SelectionIsOfLastSuccess'
  BY <1>2 DEF Prune, DeleteThreadMemory, SelectionIsOfLastSuccess, NoOutput
<1>3. ASSUME NEW r \in runs, FinishStage1(r) PROVE SelectionIsOfLastSuccess'
  <2>1. finished' = finished
    BY <1>3 DEF FinishStage1
  <2>2. \A t \in Threads : output'[t].selected \in {0, output[t].selected}
    BY <1>3 DEF FinishStage1, StoreOutput, DropOutput, FailJob, NoOutput, storeVars
  <2> QED
    BY <2>1, <2>2 DEF SelectionIsOfLastSuccess
<1>4. ASSUME NEW r \in runs2, SelectInputs(r) \/ Heartbeat(r) \/ LostLock(r) \/ FailPhase2(r)
      PROVE  SelectionIsOfLastSuccess'
  BY <1>4 DEF SelectInputs, Heartbeat, LostLock, FailPhase2, storeVars, SelectionIsOfLastSuccess
<1>5. ASSUME NEW r \in runs2, SucceedPhase2(r) PROVE SelectionIsOfLastSuccess'
  <2>1. CASE OwnsGlobal(r)
    <3>1. output' = SelectionRewritten(r.selection) /\ finished'.selection = r.selection
      BY <1>5, <2>1 DEF SucceedPhase2
    <3>2. ASSUME NEW t \in Threads, output'[t].selected # 0
          PROVE  [thread |-> t, src |-> output'[t].selected] \in r.selection
      <4>1. output'[t] =
               [output[t] EXCEPT !.selected =
                   IF [thread |-> t, src |-> output[t].src] \in r.selection
                   THEN output[t].src ELSE 0]
        BY <3>1 DEF SelectionRewritten
      <4>2. output'[t].selected =
               IF [thread |-> t, src |-> output[t].src] \in r.selection
               THEN output[t].src ELSE 0
        BY <4>1
      <4> QED
        BY <3>2, <4>2
    <3> QED
      BY <3>1, <3>2 DEF SelectionIsOfLastSuccess
  <2>2. CASE ~OwnsGlobal(r)
    BY <1>5, <2>2 DEF SucceedPhase2, SelectionIsOfLastSuccess
  <2> QED
    BY <2>1, <2>2
<1>6. CASE ClaimPhase2 \/ Tick
  BY <1>6 DEF ClaimPhase2, Tick, storeVars, SelectionIsOfLastSuccess
<1>7. CASE ClearMemoryData
  BY <1>7 DEF ClearMemoryData, SelectionIsOfLastSuccess, NoOutput
<1> QED
  BY <1>1, <1>2, <1>3, <1>4, <1>5, <1>6, <1>7 DEF Next

LEMMA NewestStep ==
    ASSUME Rows, Tokens, OwnersAgree, OutputIsNewest, Next PROVE OutputIsNewest'
<1> USE DelaysArePositive DEF Rows
<1>1. ASSUME NEW t \in Threads, ClaimStage1(t) PROVE OutputIsNewest'
  <2>1. PICK src \in 1..MaxUpdates :
           ~UpToDate(t, src) /\ job' = [job EXCEPT ![t] = ClaimedJob(t, src)]
    BY <1>1 DEF ClaimStage1
  <2>2. ClaimedJob(t, src).success = IF Present(job[t]) THEN job[t].success ELSE 0
    BY DEF ClaimedJob
  <2>3. output' = output
    BY <1>1 DEF ClaimStage1
  <2> QED
    BY <2>1, <2>2, <2>3 DEF OutputIsNewest
<1>2. ASSUME NEW t \in Threads, Prune(t) \/ DeleteThreadMemory(t) \/ MarkPolluted(t)
      PROVE  OutputIsNewest'
  BY <1>2 DEF Prune, DeleteThreadMemory, MarkPolluted, OutputIsNewest, Present, NoRow
<1>3. ASSUME NEW r \in runs, FinishStage1(r) PROVE OutputIsNewest'
  <2> DEFINE t == r.thread
  <2>1. CASE ~MayFinish(r)
    BY <1>3, <2>1 DEF FinishStage1, storeVars, OutputIsNewest
  <2>2. CASE MayFinish(r)
    <3>1. t \in Threads /\ job[t] \in JobRow /\ r.src = job[t].input
      BY <2>2 DEF MayFinish, OwnsJob, Present, NoRow, OwnersAgree
    <3>2. \A u \in Threads \ {t} : job'[u] = job[u] /\ output'[u] = output[u]
      BY <1>3, <2>2, <3>1 DEF FinishStage1, StoreOutput, DropOutput, FailJob, JobDone
    <3>3. CASE StoreOutput(r)
      <4>1. job'[t].success = job[t].input
        BY <3>1, <3>3 DEF StoreOutput, JobDone, JobRow
      <4>2. output'[t].src >= r.src
        BY <3>1, <3>3 DEF StoreOutput
      <4> QED
        BY <3>1, <3>2, <4>1, <4>2 DEF OutputIsNewest
    <3>4. CASE DropOutput(r)
      BY <3>1, <3>2, <3>4 DEF DropOutput, OutputIsNewest
    <3>5. CASE FailJob(r)
      <4>1. job'[t].success = job[t].success /\ output' = output /\ Present(job[t])
        BY <3>1, <3>5 DEF FailJob, JobRow, Present
      <4> QED
        BY <3>1, <3>2, <4>1 DEF OutputIsNewest
    <3> QED
      BY <1>3, <2>2, <3>3, <3>4, <3>5 DEF FinishStage1
  <2> QED
    BY <2>1, <2>2
<1>4. ASSUME NEW r \in runs2, SelectInputs(r) \/ Heartbeat(r) \/ LostLock(r) \/ FailPhase2(r)
      PROVE  OutputIsNewest'
  BY <1>4 DEF SelectInputs, Heartbeat, LostLock, FailPhase2, storeVars, OutputIsNewest
<1>5. ASSUME NEW r \in runs2, SucceedPhase2(r) PROVE OutputIsNewest'
  <2>1. CASE OwnsGlobal(r)
    <3>1. output' = SelectionRewritten(r.selection) /\ job' = job
      BY <1>5, <2>1 DEF SucceedPhase2
    <3>2. ASSUME NEW t \in Threads
          PROVE  /\ output'[t].src = output[t].src
                 /\ output[t] = NoOutput => output'[t] = NoOutput
      <4>1. output'[t] =
               [output[t] EXCEPT !.selected =
                   IF [thread |-> t, src |-> output[t].src] \in r.selection
                   THEN output[t].src ELSE 0]
        BY <3>1 DEF SelectionRewritten
      <4>2. output'[t].src = output[t].src
        BY <4>1
      <4> QED
        BY <4>1, <4>2 DEF NoOutput
    <3> QED
      BY <3>1, <3>2 DEF OutputIsNewest
  <2>2. CASE ~OwnsGlobal(r)
    BY <1>5, <2>2 DEF SucceedPhase2, OutputIsNewest
  <2> QED
    BY <2>1, <2>2
<1>6. CASE ClaimPhase2 \/ Tick
  BY <1>6 DEF ClaimPhase2, Tick, storeVars, OutputIsNewest
<1>7. CASE ClearMemoryData
  BY <1>7 DEF ClearMemoryData, OutputIsNewest, Present, NoRow
<1> QED
  BY <1>1, <1>2, <1>3, <1>4, <1>5, <1>6, <1>7 DEF Next

-----------------------------------------------------------------------------
LEMMA InitIInv == ASSUME Init PROVE IInv
<1> USE DelaysArePositive DEF Init
<1>1. Rows
  BY DEF Rows, NoOutput, Never
<1>2. Tokens /\ LeaseAgrees
  BY DEF Tokens, LeaseAgrees
<1>3. OwnersAgree
  BY DEF OwnersAgree, NoRow
<1>4. CooldownKept
  BY DEF CooldownKept, Never
<1>5. OutputIsNewest /\ SelectionIsOfLastSuccess
  BY DEF OutputIsNewest, SelectionIsOfLastSuccess, NoOutput
<1> QED
  BY <1>1, <1>2, <1>3, <1>4, <1>5 DEF IInv

LEMMA StepIInv == ASSUME IInv, [Next]_vars PROVE IInv'
<1>1. CASE Next
  BY <1>1, RowsStep, TokensStep, OwnersStep, LeaseStep, CooldownStep, NewestStep, SelectionStep
     DEF IInv
<1>2. CASE UNCHANGED vars
  BY <1>2 DEF vars, storeVars, IInv, Rows, Tokens, OwnersAgree, OwnsJob, LeaseAgrees, OwnsGlobal,
              CooldownKept, OutputIsNewest, SelectionIsOfLastSuccess
<1> QED
  BY <1>1, <1>2

(* IInv is an invariant of the memory jobs, for every set of workers and      *)
(* threads and every lease, delay and cooldown.                               *)
THEOREM IInvHolds == Spec => []IInv
  BY InitIInv, StepIInv, PTL DEF Spec

(* Every row the store writes has its type: in particular a job's retries    *)
(* stay within 0..Retries although mark_stage1_job_failed decrements them    *)
(* unchecked.                                                                *)
THEOREM MemoryTypeCorrect == Spec => []TypeOK
<1>1. IInv => TypeOK
  <2> SUFFICES ASSUME IInv PROVE TypeOK
    OBVIOUS
  <2> USE DelaysArePositive DEF IInv, Rows
  <2>1. \A t \in Threads : Present(job[t]) => job[t] \in JobRow
    BY DEF Present, NoRow
  <2>2. \A t \in Threads : output[t].src \in 0..MaxUpdates
    OBVIOUS
  <2>3. Present(global) => global.status \in {"pending", "running", "done", "error"}
    BY DEF Present, NoRow, GlobalRow
  <2> QED
    BY <2>1, <2>2, <2>3 DEF TypeOK, JobRow
<1> QED
  BY <1>1, IInvHolds, PTL

(* mark_stage1_job_succeeded and try_claim_stage1_job: no worker, however    *)
(* late, leaves an output older than the newest extraction that succeeded.   *)
THEOREM OutputIsNewestHolds == Spec => []OutputIsNewest
  BY IInvHolds, PTL DEF IInv

(* mark_global_phase2_job_succeeded: what is marked as selected is what the  *)
(* latest successful consolidation used.                                     *)
THEOREM SelectionIsOfLastSuccessHolds == Spec => []SelectionIsOfLastSuccess
  BY IInvHolds, PTL DEF IInv

(* try_claim_global_phase2_job: a running consolidation was claimed a full   *)
(* cooldown after the last success, across failures, enqueues and crashes.   *)
THEOREM CooldownRespectedHolds == Spec => []CooldownRespected
<1>1. IInv => CooldownRespected
  BY DEF IInv, CooldownKept, CooldownRespected
<1> QED
  BY <1>1, IInvHolds, PTL

(* Until its lease runs out a phase-2 run passes the ownership check, and    *)
(* nobody else does.                                                         *)
THEOREM LeaseProtectsHolds == Spec => []LeaseProtects
<1>1. IInv => LeaseProtects
  BY DEF IInv, LeaseAgrees, LeaseProtects
<1> QED
  BY <1>1, IInvHolds, PTL
=============================================================================
