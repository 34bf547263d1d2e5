-------------------------- MODULE UnifiedExecProofs --------------------------
(***************************************************************************)
(* Invariance proofs for UnifiedExec, for every number of calls, ids and   *)
(* writers and every size of the store.  Of the process that is pruned     *)
(* only the bound of the store needs to know that it is a stored one.      *)
(***************************************************************************)
EXTENDS UnifiedExec, SequenceTheorems, FiniteSetTheorems, WellFoundedInduction, TLAPS

Calls == Calling \cup {"idle", "done", "aborted"}

Types ==
    /\ processes \in [Ids -> Execs \cup {None}]
    /\ call \in [Execs -> Calls]
    /\ id \in [Execs -> Ids \cup {None}]
    /\ status \in [Execs -> {"none", "running", "killed", "gone"}]
    /\ active \in [Execs -> BOOLEAN]
    /\ DOMAIN pruned = Execs
    /\ watch \in [Execs -> {"none", "spawned", "done"}]
    /\ ended \in [Execs -> Nat]
    /\ answered \in [Execs -> {"none", "alive", "exited", "failed", "unknown"}]
    /\ writer \in [Writers -> Holding] /\ stopper \in Holding
    /\ swept \in [Execs -> {"no", "pending", "done"}]

(* What a call has done by the time it is at each of its awaits.  A process *)
(* has one reporter: its watcher, or the call that did not store it.        *)
CallsAgree ==
    \A e \in Execs :
        /\ InProgress(e) => id[e] \in Ids
        /\ call[e] \in {"idle", "allocated"} => status[e] = "none"
        /\ call[e] \in {"idle", "allocated", "opened"} => pruned[e] = None
        /\ call[e] \in {"idle", "allocated", "opened", "storing", "short"} =>
              watch[e] = "none" /\ ended[e] = 0
        /\ call[e] = "short" => HasExited(e)
        /\ call[e] \in {"storing", "collecting"} => active[e]
        /\ answered[e] # "none" => call[e] = "done"
        /\ watch[e] = "spawned" => ended[e] = 0

(* An id belongs to one call at a time, and the store holds nobody else's   *)
(* process under it.                                                        *)
OwnIds ==
    /\ \A x, y \in Execs : InProgress(x) /\ InProgress(y) /\ id[x] = id[y] => x = y
    /\ \A p \in Ids : processes[p] # None =>
          /\ id[processes[p]] = p
          /\ call[processes[p]] \in {"storing", "collecting", "done", "aborted"}
    /\ \A x \in Execs : InProgress(x) => processes[id[x]] \in {None, x}

(* Until write_stdin lets go of an id, no other process is stored under it. *)
WritersAgree ==
    \A w \in Writers : writer[w].at # "idle" =>
        /\ writer[w].process \in Execs /\ writer[w].id \in Ids
        /\ call[writer[w].process] = "done"
        /\ processes[writer[w].id] \in {None, writer[w].process}
        /\ \A x \in Execs : InProgress(x) => id[x] # writer[w].id

StopperAgrees ==
    stopper.at = "remove" =>
        /\ stopper.process \in Execs /\ stopper.id \in Ids
        /\ status[stopper.process] = "gone"

(* NoOrphans, also while the call of the process goes on. *)
HandedOver(e) ==
    \/ swept[e] = "pending"
    \/ \E x \in Execs : pruned[x] = e /\ call[x] = "storing"
    \/ PruneInterrupted(e)

RunningIsOwned ==
    \A e \in Execs :
        status[e] = "running" /\ ~Stored(e) /\ call[e] # "opened" => HandedOver(e)

(* EntryKept, from the step that stores the process on. *)
StoredIsKept ==
    \A e \in Execs :
        call[e] \in {"storing", "collecting"} /\ ~Stored(e) =>
            swept[e] # "no" \/ \E x \in Execs : pruned[x] = e

(* The rest of the types. *)
Kinds ==
    /\ reserved \subseteq Ids
    /\ failure \in [Execs -> BOOLEAN]
    /\ pruned \in [Execs -> Execs \cup {None}]
    /\ ops \in 0..MaxOps

(* The order of use has each stored process, and nothing else, once, and is *)
(* no longer than the store may be.                                         *)
In(x, s) == \E k \in 1..Len(s) : s[k] = x
Distinct(s) == \A j, k \in 1..Len(s) : s[j] = s[k] => j = k

OrderAgrees ==
    /\ recency \in Seq(Execs) /\ Distinct(recency)
    /\ \A e \in Execs : In(e, recency) <=> Stored(e)
    /\ Len(recency) <= MaxStored

(* The inductive invariant. *)
IInv ==
    /\ Types /\ CallsAgree /\ OwnIds /\ WritersAgree /\ StopperAgrees
    /\ RunningIsOwned /\ StoredIsKept /\ EndOnce /\ Kinds /\ OrderAgrees

-----------------------------------------------------------------------------
LEMMA TypesStep ==
    ASSUME Types, CallsAgree, WritersAgree, StopperAgrees, Next PROVE Types'
<1> USE DEF Types, Calls, Calling
<1>1. ASSUME NEW e \in Execs, Allocate(e) PROVE Types'
  BY <1>1 DEF Allocate, others
<1>2. ASSUME NEW e \in Execs, NotOpened(e) PROVE Types'
  BY <1>2 DEF NotOpened, Remove, others, store
<1>3. ASSUME NEW e \in Execs, Open(e) PROVE Types'
  BY <1>3 DEF Open, others, store
<1>4. ASSUME NEW e \in Execs, Store(e) PROVE Types'
  BY <1>4 DEF Store, others
<1>5. ASSUME NEW e \in Execs, FinishStore(e) PROVE Types'
  BY <1>5 DEF FinishStore, Terminated, others, store
<1>6. ASSUME NEW e \in Execs, NotStored(e) PROVE Types'
  BY <1>6 DEF NotStored, others, store
<1>7. ASSUME NEW e \in Execs, ReturnFailed(e) PROVE Types'
  <2>1. ended' \in [Execs -> Nat]
    BY <1>7 DEF ReturnFailed
  <2> QED
    BY <1>7, <2>1 DEF ReturnFailed, Returns, Remove, Terminated, others
<1>8. ASSUME NEW e \in Execs, ReturnStored(e) PROVE Types'
  BY <1>8 DEF ReturnStored, Returns, Remove, others, store
<1>9. ASSUME NEW e \in Execs, ReturnShort(e) PROVE Types'
  <2>1. ended' \in [Execs -> Nat]
    BY <1>9 DEF ReturnShort
  <2> QED
    BY <1>9, <2>1 DEF ReturnShort, Returns, Remove, others
<1>10. ASSUME NEW e \in Execs, KillCall(e) PROVE Types'
  BY <1>10 DEF KillCall, Terminated, others, store
<1>11. ASSUME NEW e \in Execs, Exit(e) \/ Fail(e) \/ WatcherReports(e) PROVE Types'
  BY <1>11 DEF Exit, Fail, WatcherReports, others, store
<1>12. ASSUME NEW e \in Execs, SweepNext(e) PROVE Types'
  BY <1>12 DEF SweepNext, Terminated, process, store
<1>13. ASSUME NEW w \in Writers, Prepare(w) PROVE Types'
  BY <1>13 DEF Prepare, process, Holding, StoredIds
<1>14. ASSUME NEW w \in Writers, Write(w) \/ KillWriter(w) PROVE Types'
  <2>1. [writer[w] EXCEPT !.at = "poll"] \in Holding /\ Idle \in Holding
    BY DEF Holding, Idle
  <2>2. writer' \in [Writers -> Holding]
    BY <1>14, <2>1 DEF Write, KillWriter, Done
  <2> QED
    BY <1>14, <2>2 DEF Write, KillWriter, process, store
<1>15. ASSUME NEW w \in Writers, WriteFails(w) PROVE Types'
  BY <1>15 DEF WriteFails, Done, Remove, process, Holding, Idle, Terminated, store
<1>16. ASSUME NEW w \in Writers, PollEnds(w) PROVE Types'
  BY <1>16 DEF PollEnds, Done, Remove, process, Holding, Idle, Terminated, store
<1>17. CASE Stop
  BY <1>17 DEF Stop, process, Holding, StoredIds, store
<1>18. CASE StopRemoves
  BY <1>18 DEF StopRemoves, Remove, process, Holding, Idle, store
<1>19. CASE Sweep
  BY <1>19 DEF Sweep, process
<1>20. CASE Quiet
  BY <1>20 DEF Quiet, vars
<1> QED
  BY <1>1, <1>2, <1>3, <1>4, <1>5, <1>6, <1>7, <1>8, <1>9, <1>10, <1>11, <1>12, <1>13, <1>14,
     <1>15, <1>16, <1>17, <1>18, <1>19, <1>20 DEF Next, CallStep

LEMMA CallsStep ==
    ASSUME Types, CallsAgree, OwnIds, Next PROVE CallsAgree'
<1> USE UnifiedExecAssumption DEF Types, Calls, Calling, CallsAgree, InProgress, HasExited
<1>1. ASSUME NEW e \in Execs, Allocate(e) PROVE CallsAgree'
  BY <1>1 DEF Allocate, others
<1>2. ASSUME NEW e \in Execs, NotOpened(e) PROVE CallsAgree'
  BY <1>2 DEF NotOpened, others, store
<1>3. ASSUME NEW e \in Execs, Open(e) PROVE CallsAgree'
  BY <1>3 DEF Open, others, store
<1>4. ASSUME NEW e \in Execs, Store(e) PROVE CallsAgree'
  BY <1>4 DEF Store, others
<1>5. ASSUME NEW e \in Execs, FinishStore(e) PROVE CallsAgree'
  BY <1>5 DEF FinishStore, Terminated, others, store
<1>6. ASSUME NEW e \in Execs, NotStored(e) PROVE CallsAgree'
  BY <1>6 DEF NotStored, others, store
<1>7. ASSUME NEW e \in Execs, ReturnFailed(e) PROVE CallsAgree'
  BY <1>7 DEF ReturnFailed, Returns, Terminated, others
<1>8. ASSUME NEW e \in Execs, ReturnStored(e) PROVE CallsAgree'
  BY <1>8 DEF ReturnStored, Returns, others, store
<1>9. ASSUME NEW e \in Execs, ReturnShort(e) PROVE CallsAgree'
  BY <1>9 DEF ReturnShort, Returns, others
<1>10. ASSUME NEW e \in Execs, KillCall(e) PROVE CallsAgree'
  BY <1>10 DEF KillCall, Terminated, others, store
<1>11. ASSUME NEW e \in Execs, Exit(e) \/ Fail(e) \/ WatcherReports(e) PROVE CallsAgree'
  BY <1>11 DEF Exit, Fail, WatcherReports, others, store
<1>12. ASSUME NEW e \in Execs, SweepNext(e) PROVE CallsAgree'
  BY <1>12 DEF SweepNext, Terminated, process, store
<1>13. ASSUME NEW w \in Writers, Prepare(w) \/ Write(w) \/ KillWriter(w) PROVE CallsAgree'
  <2>1. UNCHANGED <<call, id, status, active, pruned, watch, ended, answered>>
    BY <1>13 DEF Prepare, Write, KillWriter, process
  <2> QED
    BY <2>1
<1>14. ASSUME NEW w \in Writers, WriteFails(w) \/ PollEnds(w) PROVE CallsAgree'
  BY <1>14 DEF WriteFails, PollEnds, process, Terminated
<1>15. CASE Stop
  <2>1. UNCHANGED <<call, id, active, pruned, watch, ended, answered>>
    BY <1>15 DEF Stop, process
  <2>2. \A e \in Execs : \/ status'[e] = status[e]
                         \/ status'[e] = "gone" /\ call[e] \notin {"idle", "allocated"}
    BY <1>15 DEF Stop, StoredIds, OwnIds
  <2> QED
    BY <2>1, <2>2
<1>16. CASE StopRemoves \/ Sweep
  BY <1>16 DEF StopRemoves, Sweep, process
<1>17. CASE Quiet
  BY <1>17 DEF Quiet, vars
<1> QED
  BY <1>1, <1>2, <1>3, <1>4, <1>5, <1>6, <1>7, <1>8, <1>9, <1>10, <1>11, <1>12, <1>13, <1>14,
     <1>15, <1>16, <1>17 DEF Next, CallStep

-----------------------------------------------------------------------------
(* The steps that move no call and take, at most, entries out of the store. *)
LEMMA OwnFrame ==
    ASSUME OwnIds, UNCHANGED <<call, id>>, \A p \in Ids : processes'[p] \in {None, processes[p]},
           \A e \in Execs : InProgress(e) => id[e] \in Ids
    PROVE  OwnIds'
  BY DEF OwnIds, InProgress

(* The steps that end a call. *)
LEMMA OwnReturn ==
    ASSUME Types, CallsAgree, OwnIds, NEW e \in Execs, NEW c \in {"done", "aborted", "short"},
           InProgress(e), c = "short" => call[e] = "opened",
           call' = [call EXCEPT ![e] = c], UNCHANGED id,
           \A p \in Ids : processes'[p] \in {None, processes[p]}
    PROVE  OwnIds'
  BY DEF Types, CallsAgree, OwnIds, InProgress, Calling

LEMMA OwnStep ==
    ASSUME Types, CallsAgree, OwnIds, WritersAgree, StopperAgrees, Next PROVE OwnIds'
<1> USE UnifiedExecAssumption
<1>0. /\ processes \in [Ids -> Execs \cup {None}] /\ call \in [Execs -> Calls]
      /\ id \in [Execs -> Ids \cup {None}]
      /\ \A e \in Execs : InProgress(e) => id[e] \in Ids
      /\ \A p \in Ids : Remove(p) => \A q \in Ids : processes'[q] \in {None, processes[q]}
  BY DEF Types, CallsAgree, Remove
<1>1. ASSUME NEW e \in Execs, Allocate(e) PROVE OwnIds'
  BY <1>0, <1>1 DEF Allocate, OwnIds, InProgress, Calling
<1>2. ASSUME NEW e \in Execs, Open(e) PROVE OwnIds'
  BY <1>0, <1>2 DEF Open, store, OwnIds, InProgress, Calling
<1>3. ASSUME NEW e \in Execs, Store(e) PROVE OwnIds'
  <2>1. /\ call[e] = "opened" /\ UNCHANGED id /\ id[e] \in Ids
        /\ \A x \in Execs \ {e} : call'[x] = call[x]
        /\ call'[e] \in {"storing", "collecting"}
        /\ processes'[id[e]] = e
        /\ \A p \in Ids \ {id[e]} : processes'[p] \in {None, processes[p]}
    BY <1>0, <1>3 DEF Store, InProgress, Calling
  <2>2. \A x \in Execs \ {e} : InProgress(x) => id[x] # id[e]
    BY <2>1 DEF OwnIds, InProgress, Calling
  <2>3. \A x \in Execs : InProgress(x)' <=> InProgress(x)
    BY <2>1 DEF InProgress, Calling
  <2> QED
    BY <1>0, <2>1, <2>2, <2>3 DEF OwnIds
<1>4. ASSUME NEW e \in Execs, FinishStore(e) PROVE OwnIds'
  BY <1>0, <1>4 DEF FinishStore, store, OwnIds, InProgress, Calling
<1>5. ASSUME NEW e \in Execs,
             NotOpened(e) \/ ReturnFailed(e) \/ ReturnStored(e) \/ ReturnShort(e)
      PROVE  OwnIds'
  <2>1. InProgress(e) /\ UNCHANGED id /\ call' = [call EXCEPT ![e] = "done"]
    BY <1>5 DEF NotOpened, ReturnFailed, ReturnStored, ReturnShort, Returns, InProgress, Calling
  <2>2. Remove(id[e]) \/ UNCHANGED processes
    BY <1>5 DEF NotOpened, ReturnFailed, ReturnStored, ReturnShort, store
  <2>3. \A p \in Ids : processes'[p] \in {None, processes[p]}
    BY <1>0, <2>1, <2>2
  <2> QED
    BY <2>1, <2>3, OwnReturn
<1>6. ASSUME NEW e \in Execs, NotStored(e) \/ KillCall(e) PROVE OwnIds'
  <2>1. /\ InProgress(e) /\ UNCHANGED <<id, processes>>
        /\ \/ call' = [call EXCEPT ![e] = "aborted"]
           \/ call' = [call EXCEPT ![e] = "short"] /\ call[e] = "opened"
    BY <1>6 DEF NotStored, KillCall, store, InProgress, Calling
  <2> QED
    BY <2>1, OwnReturn
<1>7. ASSUME NEW e \in Execs, Exit(e) \/ Fail(e) \/ WatcherReports(e) \/ SweepNext(e) PROVE OwnIds'
  <2>1. UNCHANGED <<call, id, processes>>
    BY <1>7 DEF Exit, Fail, WatcherReports, SweepNext, store, process
  <2> QED
    BY <1>0, <2>1, OwnFrame
<1>8. ASSUME NEW w \in Writers, Prepare(w) \/ Write(w) \/ KillWriter(w) PROVE OwnIds'
  <2>1. UNCHANGED <<call, id, processes>>
    BY <1>8 DEF Prepare, Write, KillWriter, store, process
  <2> QED
    BY <1>0, <2>1, OwnFrame
<1>9. ASSUME NEW w \in Writers, WriteFails(w) \/ PollEnds(w) PROVE OwnIds'
  <2>1. UNCHANGED <<call, id>> /\ (Remove(writer[w].id) \/ UNCHANGED processes)
    BY <1>9 DEF WriteFails, PollEnds, store, process
  <2>2. writer[w].id \in Ids
    BY <1>9 DEF WriteFails, PollEnds, WritersAgree
  <2> QED
    BY <1>0, <2>1, <2>2, OwnFrame
<1>10. CASE StopRemoves
  <2>1. UNCHANGED <<call, id>> /\ (Remove(stopper.id) \/ UNCHANGED processes)
    BY <1>10 DEF StopRemoves, store, process
  <2>2. stopper.id \in Ids
    BY <1>10 DEF StopRemoves, StopperAgrees
  <2> QED
    BY <1>0, <2>1, <2>2, OwnFrame
<1>11. CASE Stop \/ Sweep \/ Quiet
  <2>1. UNCHANGED <<call, id>>
    BY <1>11 DEF Stop, Sweep, Quiet, process, vars
  <2>2. \A p \in Ids : processes'[p] \in {None, processes[p]}
    BY <1>11 DEF Stop, Sweep, Quiet, store, vars
  <2> QED
    BY <1>0, <2>1, <2>2, OwnFrame
<1> QED
  BY <1>1, <1>2, <1>3, <1>4, <1>5, <1>6, <1>7, <1>8, <1>9, <1>10, <1>11 DEF Next, CallStep

-----------------------------------------------------------------------------
(* What no step takes back: a call that ended, the id a call holds, what it *)
(* pruned, the end of a process.                                            *)
Moves ==
    \A e \in Execs :
        /\ call[e] \in {"done", "aborted"} => call'[e] = call[e]
        /\ InProgress(e)' => Allocate(e) \/ (InProgress(e) /\ id'[e] = id[e])
        /\ pruned[e] # None => pruned'[e] = pruned[e]
        /\ status[e] = "gone" => status'[e] = "gone"
        /\ status[e] = "killed" => status'[e] \in {"killed", "gone"}
        /\ status'[e] = "running" => status[e] = "running" \/ call'[e] = "opened"

LEMMA MovesStep ==
    ASSUME Types, CallsAgree, Next PROVE Moves
<1>0. /\ call \in [Execs -> Calls] /\ id \in [Execs -> Ids \cup {None}] /\ DOMAIN pruned = Execs
      /\ status \in [Execs -> {"none", "running", "killed", "gone"}]
      /\ \A e \in Execs : /\ call[e] \in {"idle", "allocated"} => status[e] = "none"
                          /\ call[e] \in {"idle", "allocated", "opened"} => pruned[e] = None
  BY DEF Types, CallsAgree
<1> USE DEF Moves, InProgress, Calling
<1>1. ASSUME NEW e \in Execs, Allocate(e) PROVE Moves
  BY <1>0, <1>1 DEF Allocate
<1>2. ASSUME NEW e \in Execs, NotOpened(e) \/ Open(e) \/ NotStored(e) PROVE Moves
  BY <1>0, <1>2 DEF NotOpened, Open, NotStored
<1>3. ASSUME NEW e \in Execs, Store(e) PROVE Moves
  BY <1>0, <1>3 DEF Store
<1>4. ASSUME NEW e \in Execs, FinishStore(e) \/ ReturnFailed(e) PROVE Moves
  BY <1>0, <1>4 DEF FinishStore, ReturnFailed, Returns, Terminated
<1>5. ASSUME NEW e \in Execs, ReturnStored(e) \/ ReturnShort(e) PROVE Moves
  BY <1>0, <1>5 DEF ReturnStored, ReturnShort, Returns
<1>6. ASSUME NEW e \in Execs, KillCall(e) PROVE Moves
  BY <1>0, <1>6 DEF KillCall, Terminated
<1>7. ASSUME NEW e \in Execs, Exit(e) \/ Fail(e) \/ WatcherReports(e) \/ SweepNext(e) PROVE Moves
  BY <1>0, <1>7 DEF Exit, Fail, WatcherReports, SweepNext, Terminated, process
<1>8. ASSUME NEW w \in Writers, Prepare(w) \/ Write(w) \/ KillWriter(w) PROVE Moves
  BY <1>0, <1>8 DEF Prepare, Write, KillWriter, process
<1>9. ASSUME NEW w \in Writers, WriteFails(w) \/ PollEnds(w) PROVE Moves
  BY <1>0, <1>9 DEF WriteFails, PollEnds, Terminated, process
<1>10. CASE Stop \/ StopRemoves \/ Sweep \/ Quiet
  BY <1>0, <1>10 DEF Stop, StopRemoves, Sweep, Quiet, process, vars
<1> QED
  BY <1>1, <1>2, <1>3, <1>4, <1>5, <1>6, <1>7, <1>8, <1>9, <1>10 DEF Next, CallStep

(* An entry that leaves the store: why, and of which process. *)
Leaves(p) ==
    \/ \E x \in Execs : pruned'[x] = processes[p] /\ call'[x] = "storing"
    \/ processes[p] \in Execs /\ swept'[processes[p]] = "pending"
    \/ /\ status'[processes[p]] # "running"
       /\ call'[processes[p]] \notin {"storing", "collecting"}

LEMMA StoreStep ==
    ASSUME Types, CallsAgree, OwnIds, WritersAgree, StopperAgrees, Next
    PROVE  \A p \in Ids :
              \/ processes'[p] = processes[p]
              \/ \E x \in Execs : call[x] = "opened" /\ id[x] = p /\ processes'[p] = x
              \/ processes'[p] = None /\ Leaves(p)
<1> USE UnifiedExecAssumption
<1>0. /\ processes \in [Ids -> Execs \cup {None}] /\ call \in [Execs -> Calls]
      /\ id \in [Execs -> Ids \cup {None}] /\ active \in [Execs -> BOOLEAN]
      /\ status \in [Execs -> {"none", "running", "killed", "gone"}]
      /\ \A e \in Execs : InProgress(e) => id[e] \in Ids
      /\ \A p \in Ids : Remove(p) =>
            /\ processes'[p] = None
            /\ \A q \in Ids \ {p} : processes'[q] = processes[q]
      /\ DOMAIN pruned = Execs
  BY DEF Types, CallsAgree, Remove
<1>1. ASSUME NEW q \in Ids, Remove(q), processes[q] # None => Leaves(q), NEW p \in Ids
      PROVE  processes'[p] = processes[p] \/ (processes'[p] = None /\ Leaves(p))
  BY <1>0, <1>1
<1>2. ASSUME NEW e \in Execs,
             Allocate(e) \/ Open(e) \/ FinishStore(e) \/ NotStored(e) \/ KillCall(e) \/ Exit(e)
               \/ Fail(e) \/ WatcherReports(e) \/ SweepNext(e)
      PROVE  UNCHANGED processes
  BY <1>2 DEF Allocate, Open, FinishStore, NotStored, KillCall, Exit, Fail, WatcherReports,
     SweepNext, store
<1>3. ASSUME NEW w \in Writers, Prepare(w) \/ Write(w) \/ KillWriter(w) PROVE UNCHANGED processes
  BY <1>3 DEF Prepare, Write, KillWriter, store
<1>4. CASE Stop \/ Quiet
  BY <1>4 DEF Stop, Quiet, store, vars
<1>5. ASSUME NEW e \in Execs, Store(e), NEW p \in Ids
      PROVE  \/ processes'[p] = processes[p]
             \/ \E x \in Execs : call[x] = "opened" /\ id[x] = p /\ processes'[p] = x
             \/ processes'[p] = None /\ Leaves(p)
  <2>1. PICK victim : /\ pruned' = [pruned EXCEPT ![e] = victim]
                      /\ processes'[p] = IF p = id[e] THEN e
                                         ELSE IF processes[p] = victim /\ victim # None THEN None
                                         ELSE processes[p]
                      /\ call'[e] = IF victim = None THEN "collecting" ELSE "storing"
    BY <1>0, <1>5 DEF Store
  <2>2. call[e] = "opened" /\ pruned'[e] = victim
    BY <1>0, <1>5, <2>1 DEF Store
  <2> QED
    BY <2>1, <2>2 DEF Leaves
<1>6. ASSUME NEW e \in Execs, NotOpened(e) PROVE processes' = processes
  <2>1. processes[id[e]] = None /\ id[e] \in Ids
    BY <1>0, <1>6 DEF NotOpened, OwnIds, InProgress, Calling
  <2> QED
    BY <1>0, <1>6, <2>1 DEF NotOpened, Remove, store
<1>7. ASSUME NEW e \in Execs, ReturnFailed(e) \/ ReturnStored(e) \/ ReturnShort(e)
      PROVE  UNCHANGED processes \/ (Remove(id[e]) /\ id[e] \in Ids /\ (processes[id[e]] # None => Leaves(id[e])))
  <2>1. id[e] \in Ids /\ processes[id[e]] \in {None, e}
    BY <1>0, <1>7 DEF ReturnFailed, ReturnStored, ReturnShort, OwnIds, InProgress, Calling
  <2>2. call'[e] = "done"
    BY <1>0, <1>7 DEF ReturnFailed, ReturnStored, ReturnShort, Returns
  <2>3. processes[id[e]] = e =>
           UNCHANGED processes \/ (Remove(id[e]) /\ status'[e] # "running")
    <3>1. CASE ReturnFailed(e)
      BY <1>0, <3>1 DEF ReturnFailed, Terminated
    <3>2. CASE ReturnStored(e)
      BY <1>0, <3>2 DEF ReturnStored, HasExited, store
    <3>3. CASE ReturnShort(e)
      BY <1>0, <3>3 DEF ReturnShort, CallsAgree, HasExited
    <3> QED
      BY <1>7, <3>1, <3>2, <3>3
  <2>4. Remove(id[e]) \/ UNCHANGED processes
    BY <1>7 DEF ReturnFailed, ReturnStored, ReturnShort, store
  <2> QED
    BY <2>1, <2>2, <2>3, <2>4 DEF Leaves
<1>8. ASSUME NEW w \in Writers, WriteFails(w) \/ PollEnds(w)
      PROVE  \/ UNCHANGED processes
             \/ /\ Remove(writer[w].id) /\ writer[w].id \in Ids
                /\ processes[writer[w].id] # None => Leaves(writer[w].id)
  <2> DEFINE q == writer[w].id
             e == writer[w].process
  <2>1. q \in Ids /\ e \in Execs /\ call[e] = "done" /\ processes[q] \in {None, e}
    BY <1>8 DEF WriteFails, PollEnds, WritersAgree
  <2>2. call' = call
    BY <1>8 DEF WriteFails, PollEnds, process
  <2>3. UNCHANGED processes \/ (Remove(q) /\ (processes[q] # None => status'[e] # "running"))
    BY <1>0, <1>8, <2>1 DEF WriteFails, PollEnds, HasExited, Terminated, store
  <2> QED
    BY <2>1, <2>2, <2>3 DEF Leaves
<1>9. CASE StopRemoves
  <2>1. CASE processes[stopper.id] = stopper.process /\ ~active[stopper.process]
    <3>1. /\ stopper.id \in Ids /\ stopper.process \in Execs /\ Remove(stopper.id)
          /\ status'[stopper.process] = "gone"
      BY <1>9, <2>1 DEF StopRemoves, StopperAgrees
    <3>2. call'[stopper.process] \notin {"storing", "collecting"}
      BY <1>9, <2>1, <3>1 DEF StopRemoves, CallsAgree, process
    <3> QED
      BY <1>1, <2>1, <3>1, <3>2 DEF Leaves
  <2>2. CASE ~(processes[stopper.id] = stopper.process /\ ~active[stopper.process])
    BY <1>9, <2>2 DEF StopRemoves, store
  <2> QED
    BY <2>1, <2>2
<1>10. ASSUME Sweep, NEW p \in Ids
       PROVE  processes'[p] = processes[p] \/ (processes'[p] = None /\ Leaves(p))
  BY <1>0, <1>10 DEF Sweep, Stored, Leaves
<1> QED
  BY <1>1, <1>2, <1>3, <1>4, <1>5, <1>6, <1>7, <1>8, <1>9, <1>10 DEF Next, CallStep

-----------------------------------------------------------------------------
LEMMA WritersStep ==
    ASSUME Types, CallsAgree, OwnIds, WritersAgree, StopperAgrees, Next PROVE WritersAgree'
<1> USE UnifiedExecAssumption
<1>0. writer \in [Writers -> Holding] /\ processes \in [Ids -> Execs \cup {None}]
  BY DEF Types
<1>1. ASSUME NEW w \in Writers, writer[w].at # "idle", writer'[w].at # "idle",
             writer'[w].process = writer[w].process, writer'[w].id = writer[w].id
      PROVE  /\ writer'[w].process \in Execs /\ writer'[w].id \in Ids
             /\ call'[writer'[w].process] = "done"
             /\ processes'[writer'[w].id] \in {None, writer'[w].process}
             /\ \A x \in Execs : InProgress(x)' => id'[x] # writer'[w].id
  <2>1. /\ writer[w].process \in Execs /\ writer[w].id \in Ids
        /\ call[writer[w].process] = "done"
        /\ processes[writer[w].id] \in {None, writer[w].process}
        /\ \A x \in Execs : InProgress(x) => id[x] # writer[w].id
    BY <1>1 DEF WritersAgree
  <2>2. call'[writer[w].process] = "done"
    BY <2>1, MovesStep DEF Moves
  <2>3. processes'[writer[w].id] \in {None, processes[writer[w].id]}
    BY <2>1, StoreStep DEF InProgress, Calling
  <2>4. ASSUME NEW x \in Execs, Allocate(x) PROVE id'[x] # writer[w].id
    BY <2>1, <2>4 DEF Allocate, Types
  <2>5. \A x \in Execs : InProgress(x)' => id'[x] # writer[w].id
    BY <2>1, <2>4, MovesStep DEF Moves
  <2> QED
    BY <1>1, <2>1, <2>2, <2>3, <2>5
<1>2. ASSUME NEW w \in Writers, Prepare(w), NEW v \in Writers, writer'[v].at # "idle"
      PROVE  /\ writer'[v].process \in Execs /\ writer'[v].id \in Ids
             /\ call'[writer'[v].process] = "done"
             /\ processes'[writer'[v].id] \in {None, writer'[v].process}
             /\ \A x \in Execs : InProgress(x)' => id'[x] # writer'[v].id
  <2>1. CASE v # w
    <3>1. writer'[v] = writer[v]
      BY <1>0, <1>2, <2>1 DEF Prepare
    <3> QED
      BY <1>1, <1>2, <3>1
  <2>2. CASE v = w
    <3>1. PICK p \in StoredIds :
             /\ answered[processes[p]] = "alive"
             /\ writer' = [writer EXCEPT ![w] = [at |-> "write", process |-> processes[p], id |-> p]]
      BY <1>2 DEF Prepare
    <3>2. /\ UNCHANGED <<call, id, processes>> /\ p \in Ids /\ processes[p] \in Execs
          /\ writer'[w].process = processes[p] /\ writer'[w].id = p
      BY <1>0, <1>2, <3>1 DEF Prepare, StoredIds, process
    <3>3. call[processes[p]] = "done"
      BY <3>1, <3>2 DEF CallsAgree
    <3>4. \A x \in Execs : InProgress(x) => id[x] # p
      BY <3>2, <3>3 DEF OwnIds, InProgress, Calling
    <3> QED
      BY <2>2, <3>2, <3>3, <3>4 DEF InProgress
  <2> QED
    BY <2>1, <2>2
<1>3. ASSUME NEW w \in Writers, Write(w) \/ WriteFails(w), NEW v \in Writers, writer'[v].at # "idle"
      PROVE  /\ writer[v].at # "idle"
             /\ writer'[v].process = writer[v].process /\ writer'[v].id = writer[v].id
  BY <1>0, <1>3 DEF Write, WriteFails, Done, Idle, Holding
<1>4. ASSUME NEW w \in Writers, PollEnds(w) \/ KillWriter(w), NEW v \in Writers, writer'[v].at # "idle"
      PROVE  writer'[v] = writer[v]
  BY <1>0, <1>4 DEF PollEnds, KillWriter, Done, Idle
<1>5. CASE \A w \in Writers : /\ ~Prepare(w) /\ ~Write(w) /\ ~WriteFails(w)
                              /\ ~PollEnds(w) /\ ~KillWriter(w)
  <2>1. writer' = writer
    BY <1>5 DEF Next, Allocate, CallStep, NotOpened, Open, Store, FinishStore, NotStored,
       ReturnFailed, ReturnStored, ReturnShort, KillCall, Exit, Fail, WatcherReports, SweepNext,
       Stop, StopRemoves, Sweep, Quiet, others, vars
  <2> QED
    BY <1>1, <2>1 DEF WritersAgree
<1> QED
  BY <1>1, <1>2, <1>3, <1>4, <1>5 DEF WritersAgree

LEMMA StopperStep ==
    ASSUME Types, CallsAgree, StopperAgrees, Next PROVE StopperAgrees'
<1> USE UnifiedExecAssumption
<1>1. CASE Stop
  <2>1. stopper' = stopper \/ \E p \in StoredIds :
           /\ stopper'.process = processes[p] /\ stopper'.id = p
           /\ status' = [status EXCEPT ![processes[p]] = "gone"]
    BY <1>1 DEF Stop
  <2>2. CASE stopper' = stopper
    BY <2>2, MovesStep DEF StopperAgrees, Moves
  <2> QED
    BY <2>1, <2>2 DEF StopperAgrees, StoredIds, Types
<1>2. CASE StopRemoves
  BY <1>2 DEF StopRemoves, StopperAgrees, Idle
<1>3. CASE ~Stop /\ ~StopRemoves
  <2>1. stopper' = stopper
    BY <1>3 DEF Next, Allocate, CallStep, NotOpened, Open, Store, FinishStore, NotStored,
       ReturnFailed, ReturnStored, ReturnShort, KillCall, Exit, Fail, WatcherReports, SweepNext,
       Prepare, Write, WriteFails, PollEnds, KillWriter, Sweep, Quiet, others, vars
  <2> QED
    BY <2>1, MovesStep DEF StopperAgrees, Moves
<1> QED
  BY <1>1, <1>2, <1>3

LEMMA EndStep ==
    ASSUME Types, CallsAgree, EndOnce, Next PROVE EndOnce'
<1>0. /\ ended \in [Execs -> Nat] /\ call \in [Execs -> Calls]
      /\ status \in [Execs -> {"none", "running", "killed", "gone"}]
      /\ \A e \in Execs : Signalled(e) => Signalled(e)'
  BY MovesStep DEF Types, Moves, Signalled
<1>1. ASSUME NEW e \in Execs, ended[e] = 0, Signalled(e), ended'[e] \in {0, 1},
             \A x \in Execs \ {e} : ended'[x] = ended[x]
      PROVE  EndOnce'
  BY <1>0, <1>1 DEF EndOnce
<1>2. ASSUME NEW e \in Execs, ReturnFailed(e) PROVE EndOnce'
  <2>1. CASE call[e] = "short"
    <3>1. ended[e] = 0 /\ Signalled(e)
      BY <2>1 DEF CallsAgree, HasExited, Signalled
    <3>2. ended'[e] = 1 /\ \A x \in Execs \ {e} : ended'[x] = ended[x]
      BY <1>0, <1>2, <2>1, <3>1 DEF ReturnFailed
    <3> QED
      BY <1>1, <3>1, <3>2
  <2>2. CASE call[e] # "short"
    <3>1. \A x \in Execs : ended'[x] = ended[x]
      BY <1>0, <1>2, <2>2 DEF ReturnFailed
    <3> QED
      BY <1>0, <3>1 DEF EndOnce
  <2> QED
    BY <2>1, <2>2
<1>3. ASSUME NEW e \in Execs, ReturnShort(e) \/ WatcherReports(e) PROVE EndOnce'
  <2>1. ended[e] = 0 /\ Signalled(e)
    BY <1>3 DEF ReturnShort, WatcherReports, CallsAgree, HasExited, Signalled
  <2>2. ended'[e] = 1 /\ \A x \in Execs \ {e} : ended'[x] = ended[x]
    BY <1>0, <1>3, <2>1 DEF ReturnShort, WatcherReports
  <2> QED
    BY <1>1, <2>1, <2>2
<1>4. CASE \A e \in Execs : ~ReturnFailed(e) /\ ~ReturnShort(e) /\ ~WatcherReports(e)
  <2>1. ended' = ended
    BY <1>4 DEF Next, Allocate, CallStep, NotOpened, Open, Store, FinishStore, NotStored,
       ReturnStored, KillCall, Exit, Fail, SweepNext, Stop, StopRemoves, Prepare, Write,
       WriteFails, PollEnds, KillWriter, Sweep, Quiet, process, vars
  <2> QED
    BY <1>0, <2>1 DEF EndOnce
<1> QED
  BY <1>2, <1>3, <1>4

-----------------------------------------------------------------------------
(* A call comes to wait for its process by storing it, and one whose        *)
(* process runs leaves "opened" in no other way.                            *)
LEMMA CallEnters ==
    ASSUME Types, CallsAgree, Next, NEW e \in Execs
    PROVE  /\ Store(e) => Stored(e)'
           /\ call'[e] \in {"storing", "collecting"} /\ call[e] \notin {"storing", "collecting"}
                 => Store(e)
           /\ call[e] = "opened" /\ call'[e] # "opened" => Store(e) \/ status'[e] # "running"
<1>0. /\ call \in [Execs -> Calls] /\ id \in [Execs -> Ids \cup {None}]
      /\ status \in [Execs -> {"none", "running", "killed", "gone"}]
      /\ processes \in [Ids -> Execs \cup {None}]
  BY DEF Types
<1>1. ASSUME Store(e) PROVE Stored(e)'
  <2>1. id[e] \in Ids
    BY <1>1 DEF Store, CallsAgree, InProgress, Calling
  <2>2. processes'[id[e]] = e
    BY <1>0, <1>1, <2>1 DEF Store
  <2> QED
    BY <2>1, <2>2 DEF Stored
<1>2. CASE call' = call
  BY <1>1, <1>2
<1>3. ASSUME NEW x \in Execs, Allocate(x) \/ CallStep(x)
      PROVE  /\ call'[e] \in {"storing", "collecting"} /\ call[e] \notin {"storing", "collecting"}
                   => Store(e)
             /\ call[e] = "opened" /\ call'[e] # "opened" => Store(e) \/ status'[e] # "running"
  <2>1. CASE x # e
    BY <1>0, <1>3, <2>1 DEF Allocate, CallStep, NotOpened, Open, Store, FinishStore, NotStored,
       ReturnFailed, ReturnStored, ReturnShort, Returns
  <2>2. CASE x = e /\ (Allocate(e) \/ NotOpened(e) \/ Open(e) \/ Store(e) \/ FinishStore(e))
    BY <1>0, <2>2 DEF Allocate, NotOpened, Open, FinishStore
  <2>3. CASE x = e /\ NotStored(e)
    BY <1>0, <2>3 DEF NotStored, HasExited
  <2>4. CASE x = e /\ (ReturnFailed(e) \/ ReturnStored(e) \/ ReturnShort(e))
    BY <1>0, <2>4 DEF ReturnFailed, ReturnStored, ReturnShort, Returns
  <2> QED
    BY <1>3, <2>1, <2>2, <2>3, <2>4 DEF CallStep
<1>4. ASSUME NEW x \in Execs, KillCall(x)
      PROVE  /\ call'[e] \in {"storing", "collecting"} => call[e] \in {"storing", "collecting"}
             /\ call[e] = "opened" /\ call'[e] # "opened" => status'[e] # "running"
  BY <1>0, <1>4 DEF KillCall, Terminated
<1>5. CASE \A x \in Execs : ~Allocate(x) /\ ~CallStep(x) /\ ~KillCall(x)
  <2>1. call' = call
    BY <1>5 DEF Next, Exit, Fail, WatcherReports, SweepNext, Stop, StopRemoves, Prepare, Write,
       WriteFails, PollEnds, KillWriter, Sweep, Quiet, process, vars
  <2> QED
    BY <1>2, <2>1
<1> QED
  BY <1>1, <1>3, <1>4, <1>5

(* A process that was handed over stays so until it is terminated. *)
LEMMA HandedOverStays ==
    ASSUME Types, CallsAgree, Next, NEW e \in Execs, HandedOver(e), status'[e] = "running"
    PROVE  HandedOver(e)'
<1> USE UnifiedExecAssumption
<1>0. /\ call \in [Execs -> Calls] /\ swept \in [Execs -> {"no", "pending", "done"}]
      /\ status \in [Execs -> {"none", "running", "killed", "gone"}] /\ DOMAIN pruned = Execs
  BY DEF Types
<1>1. CASE swept[e] = "pending"
  <2>1. ASSUME NEW x \in Execs, SweepNext(x) PROVE swept'[e] = "pending"
    BY <1>0, <1>1, <2>1 DEF SweepNext, Terminated
  <2>2. ~Sweep
    BY <1>1 DEF Sweep
  <2>3. ASSUME \A x \in Execs : ~SweepNext(x) PROVE swept' = swept
    BY <2>2, <2>3 DEF Next, Allocate, CallStep, NotOpened, Open, Store, FinishStore, NotStored,
       ReturnFailed, ReturnStored, ReturnShort, KillCall, Exit, Fail, WatcherReports,
       Prepare, Write, WriteFails, PollEnds, KillWriter, Stop, StopRemoves, Quiet, others, vars
  <2>4. swept'[e] = "pending"
    BY <1>1, <2>1, <2>3
  <2> QED
    BY <2>4 DEF HandedOver
<1>2. ASSUME NEW x \in Execs, pruned[x] = e, call[x] = "storing" PROVE HandedOver(e)'
  <2>0. pruned'[x] = e
    BY <1>2, MovesStep DEF Moves
  <2>1. ASSUME NEW y \in Execs, FinishStore(y) PROVE call'[x] = "storing"
    BY <1>0, <1>2, <2>1 DEF FinishStore, Terminated
  <2>2. ASSUME NEW y \in Execs, KillCall(y) PROVE call'[x] \in {"storing", "aborted"}
    BY <1>0, <1>2, <2>2 DEF KillCall
  <2>3. ASSUME NEW y \in Execs, Allocate(y) \/ CallStep(y), ~FinishStore(y) PROVE call'[x] = call[x]
    BY <1>0, <1>2, <2>3 DEF Allocate, CallStep, NotOpened, Open, Store, NotStored, ReturnFailed,
       ReturnStored, ReturnShort, Returns
  <2>4. ASSUME \A y \in Execs : ~Allocate(y) /\ ~CallStep(y) /\ ~KillCall(y) PROVE call' = call
    BY <2>4 DEF Next, Exit, Fail, WatcherReports, SweepNext, Stop, StopRemoves, Prepare, Write,
       WriteFails, PollEnds, KillWriter, Sweep, Quiet, process, vars
  <2>5. call'[x] \in {"storing", "aborted"}
    BY <1>2, <2>1, <2>2, <2>3, <2>4
  <2> QED
    BY <2>0, <2>5 DEF HandedOver, PruneInterrupted
<1>3. CASE PruneInterrupted(e)
  BY <1>3, MovesStep DEF PruneInterrupted, HandedOver, Moves
<1> QED
  BY <1>1, <1>2, <1>3 DEF HandedOver

(* A process whose entry is gone after the step, and why. *)
LEMMA LeavesStore ==
    ASSUME Types, CallsAgree, OwnIds, WritersAgree, StopperAgrees, Next, NEW e \in Execs, Stored(e),
           ~Stored(e)'
    PROVE  \/ \E x \in Execs : pruned'[x] = e /\ call'[x] = "storing"
           \/ swept'[e] = "pending"
           \/ status'[e] # "running" /\ call'[e] \notin {"storing", "collecting"}
<1> USE UnifiedExecAssumption
<1>1. PICK p \in Ids : processes[p] = e
  BY DEF Stored
<1>2. processes'[p] # processes[p]
  BY <1>1 DEF Stored
<1>3. \A x \in Execs : call[x] = "opened" /\ id[x] = p => FALSE
  BY <1>1 DEF OwnIds, InProgress, Calling
<1>4. Leaves(p)
  BY <1>2, <1>3, StoreStep
<1> QED
  BY <1>1, <1>4 DEF Leaves

LEMMA RunningStep ==
    ASSUME Types, CallsAgree, OwnIds, WritersAgree, StopperAgrees, RunningIsOwned, Next
    PROVE  RunningIsOwned'
<1>1. SUFFICES ASSUME NEW e \in Execs, status'[e] = "running", ~Stored(e)', call'[e] # "opened"
               PROVE  HandedOver(e)'
  BY DEF RunningIsOwned
<1>2. status[e] = "running"
  BY <1>1, MovesStep DEF Moves
<1>3. call[e] # "opened"
  BY <1>1, CallEnters
<1>4. CASE Stored(e)
  BY <1>1, <1>4, LeavesStore DEF HandedOver
<1>5. CASE ~Stored(e)
  BY <1>1, <1>2, <1>3, <1>5, HandedOverStays DEF RunningIsOwned
<1> QED
  BY <1>4, <1>5

LEMMA KeptStep ==
    ASSUME Types, CallsAgree, OwnIds, WritersAgree, StopperAgrees, StoredIsKept, Next
    PROVE  StoredIsKept'
<1> USE UnifiedExecAssumption
<1>1. SUFFICES ASSUME NEW e \in Execs, call'[e] \in {"storing", "collecting"}, ~Stored(e)'
               PROVE  swept'[e] # "no" \/ \E x \in Execs : pruned'[x] = e
  BY DEF StoredIsKept
<1>2. call[e] \in {"storing", "collecting"}
  BY <1>1, CallEnters
<1>3. CASE Stored(e)
  BY <1>1, <1>3, LeavesStore
<1>4. CASE ~Stored(e)
  <2>1. swept[e] # "no" => swept'[e] # "no"
    <3>1. swept \in [Execs -> {"no", "pending", "done"}]
      BY DEF Types
    <3>2. CASE Sweep \/ \E x \in Execs : SweepNext(x)
      BY <3>1, <3>2 DEF Sweep, SweepNext
    <3>3. CASE ~Sweep /\ \A x \in Execs : ~SweepNext(x)
      BY <3>3 DEF Next, Allocate, CallStep, NotOpened, Open, Store, FinishStore, NotStored,
         ReturnFailed, ReturnStored, ReturnShort, KillCall, Exit, Fail, WatcherReports,
         Prepare, Write, WriteFails, PollEnds, KillWriter, Stop, StopRemoves, Quiet, others, vars
    <3> QED
      BY <3>2, <3>3
  <2>2. \A x \in Execs : pruned[x] = e => pruned'[x] = e
    BY MovesStep DEF Moves
  <2> QED
    BY <1>2, <1>4, <2>1, <2>2 DEF StoredIsKept
<1> QED
  BY <1>3, <1>4

-----------------------------------------------------------------------------
(* The order of use.  A set of places that is not empty has a first one. *)
LEMMA FirstIn ==
    ASSUME NEW T, T \subseteq Nat, T # {}
    PROVE  First(T) \in T /\ \A j \in T : First(T) <= j
<1> DEFINE R == OpToRel(<, Nat)
<1>1. IsWellFoundedOn(R, Nat)
  BY NatLessThanWellFounded
<1>2. \A x, y \in Nat : x < y => <<x, y>> \in R
  BY DEF OpToRel
<1> HIDE DEF R
<1>3. PICK x \in T : \A y \in T : ~ (<<y, x>> \in R)
  BY <1>1, WFMin
<1>4. \A y \in T : x \in Nat /\ y \in Nat /\ ~(y < x)
  BY <1>2, <1>3
<1>5. \A y \in T : x <= y
  BY <1>4
<1> QED
  BY <1>5 DEF First

(* Without takes out the one element; Append and Placed put a new one in. *)
LEMMA WithoutLeaves ==
    ASSUME NEW S, NEW s \in Seq(S), Distinct(s), NEW x
    PROVE  /\ Without(s, x) \in Seq(S) /\ Distinct(Without(s, x))
           /\ \A y : In(y, Without(s, x)) <=> In(y, s) /\ y # x
           /\ Len(Without(s, x)) = IF In(x, s) THEN Len(s) - 1 ELSE Len(s)
<1> DEFINE at == {k \in 1..Len(s) : s[k] = x}
           f == First(at)
           w == [k \in 1..(Len(s) - 1) |-> IF k < f THEN s[k] ELSE s[k + 1]]
<1>0. Len(s) \in Nat /\ \A k \in 1..Len(s) : s[k] \in S
  BY LenProperties, ElementOfSeq
<1>1. CASE at = {}
  <2>1. Without(s, x) = s /\ ~In(x, s)
    BY <1>1 DEF Without, In
  <2> QED
    BY <2>1 DEF In
<1>2. CASE at # {}
  <2>0. at \subseteq Nat
    BY <1>0
  <2>1. f \in at
    <3> HIDE DEF at
    <3> QED
      BY <1>2, <2>0, FirstIn
  <2>2. f \in 1..Len(s) /\ s[f] = x /\ In(x, s)
    BY <2>1 DEF In
  <2>3. Without(s, x) = w
    BY <1>2 DEF Without
  <2> HIDE DEF f
  <2>4. Len(s) - 1 \in Nat /\ \A k \in 1..(Len(s) - 1) : k \in 1..Len(s) /\ k + 1 \in 1..Len(s)
    BY <1>0, <2>2
  <2>5. \A k \in 1..(Len(s) - 1) : w[k] \in S
    BY <1>0, <2>4
  <2>6. w \in Seq(S) /\ Len(w) = Len(s) - 1
    BY <2>4, <2>5, IsASeq
  <2>7. \A k \in 1..Len(s) : s[k] = x => k = f
    BY <2>2 DEF Distinct
  <2>8. Distinct(w)
    <3> SUFFICES ASSUME NEW j \in 1..(Len(s) - 1), NEW k \in 1..(Len(s) - 1), w[j] = w[k]
                 PROVE  j = k
      BY <2>6 DEF Distinct
    <3> DEFINE J == IF j < f THEN j ELSE j + 1
               K == IF k < f THEN k ELSE k + 1
    <3>1. J \in 1..Len(s) /\ K \in 1..Len(s) /\ w[j] = s[J] /\ w[k] = s[K]
      BY <2>4
    <3>2. J = K
      BY <3>1 DEF Distinct
    <3> QED
      BY <1>0, <2>2, <3>2
  <2>9. ASSUME NEW y PROVE In(y, w) <=> In(y, s) /\ y # x
    <3>1. ASSUME In(y, w) PROVE In(y, s) /\ y # x
      <4>1. PICK k \in 1..(Len(s) - 1) : w[k] = y
        BY <2>6, <3>1 DEF In
      <4> DEFINE K == IF k < f THEN k ELSE k + 1
      <4>2. K \in 1..Len(s) /\ s[K] = y
        BY <2>4, <4>1
      <4>3. K # f
        BY <1>0, <2>2
      <4> HIDE DEF K
      <4> QED
        BY <2>7, <4>2, <4>3 DEF In
    <3>2. ASSUME In(y, s), y # x PROVE In(y, w)
      <4>1. PICK k \in 1..Len(s) : s[k] = y
        BY <3>2 DEF In
      <4> DEFINE K == IF k < f THEN k ELSE k - 1
      <4>2. k # f
        BY <2>2, <3>2, <4>1
      <4>3. K \in 1..(Len(s) - 1) /\ (K < f => k = K) /\ (~(K < f) => k = K + 1)
        BY <1>0, <2>2, <4>2
      <4> HIDE DEF K
      <4>4. w[K] = s[k]
        BY <4>3
      <4> QED
        BY <2>6, <4>1, <4>3, <4>4 DEF In
    <3> QED
      BY <3>1, <3>2
  <2> QED
    BY <2>2, <2>3, <2>6, <2>8, <2>9
<1> QED
  BY <1>1, <1>2

LEMMA AppendEnters ==
    ASSUME NEW S, NEW s \in Seq(S), Distinct(s), NEW x \in S, ~In(x, s)
    PROVE  /\ Append(s, x) \in Seq(S) /\ Distinct(Append(s, x))
           /\ \A y : In(y, Append(s, x)) <=> In(y, s) \/ y = x
           /\ Len(Append(s, x)) = Len(s) + 1
<1>1. /\ Append(s, x) \in Seq(S) /\ Len(Append(s, x)) = Len(s) + 1
      /\ \A i \in 1..Len(s) : Append(s, x)[i] = s[i]
      /\ Append(s, x)[Len(s) + 1] = x
  BY AppendProperties
<1>2. Len(s) \in Nat
  BY LenProperties
<1>3. \A i : i \in 1..(Len(s) + 1) <=> i \in 1..Len(s) \/ i = Len(s) + 1
  BY <1>2
<1>4. Distinct(Append(s, x))
  BY <1>1, <1>3 DEF Distinct, In
<1>5. \A y : In(y, Append(s, x)) <=> In(y, s) \/ y = x
  BY <1>1, <1>3 DEF In
<1> QED
  BY <1>1, <1>4, <1>5

LEMMA PlacedEnters ==
    ASSUME NEW S, NEW s \in Seq(S), Distinct(s), NEW x \in S, ~In(x, s), NEW t \in Placed(s, x)
    PROVE  /\ t \in Seq(S) /\ Distinct(t)
           /\ \A y : In(y, t) <=> In(y, s) \/ y = x
           /\ Len(t) = Len(s) + 1
<1>0. Len(s) \in Nat /\ \A k \in 1..Len(s) : s[k] \in S
  BY LenProperties, ElementOfSeq
<1>1. PICK n \in 1..(Len(s) + 1) :
         t = [k \in 1..(Len(s) + 1) |-> IF k < n THEN s[k] ELSE IF k = n THEN x ELSE s[k - 1]]
  BY DEF Placed
<1>2. /\ \A k \in 1..(Len(s) + 1) : k < n => k \in 1..Len(s) /\ t[k] = s[k]
      /\ \A k \in 1..(Len(s) + 1) : n < k => k - 1 \in 1..Len(s) /\ t[k] = s[k - 1]
      /\ t[n] = x
  BY <1>0, <1>1
<1>3. \A k \in 1..(Len(s) + 1) : k < n \/ k = n \/ n < k
  BY <1>0
<1>4. \A k \in 1..(Len(s) + 1) : t[k] \in S
  BY <1>0, <1>2, <1>3
<1>5. t \in Seq(S) /\ Len(t) = Len(s) + 1
  BY <1>0, <1>1, <1>4, IsASeq
<1>6. Distinct(t)
  <2> SUFFICES ASSUME NEW j \in 1..(Len(s) + 1), NEW k \in 1..(Len(s) + 1), t[j] = t[k]
               PROVE  j = k
    BY <1>5 DEF Distinct
  <2> DEFINE J == IF j < n THEN j ELSE j - 1
             K == IF k < n THEN k ELSE k - 1
  <2>1. j # n => J \in 1..Len(s) /\ t[j] = s[J]
    BY <1>2, <1>3
  <2>2. k # n => K \in 1..Len(s) /\ t[k] = s[K]
    BY <1>2, <1>3
  <2>3. j = n <=> k = n
    <3> HIDE DEF J, K
    <3> QED
      BY <1>2, <2>1, <2>2 DEF In
  <2>4. CASE j # n
    <3>1. J = K
      <4> HIDE DEF J, K
      <4> QED
        BY <2>1, <2>2, <2>3, <2>4 DEF Distinct
    <3> QED
      BY <1>0, <2>3, <2>4, <3>1
  <2> QED
    BY <2>3, <2>4
<1>7. \A y : In(y, t) <=> In(y, s) \/ y = x
  <2>1. ASSUME NEW y, In(y, t) PROVE In(y, s) \/ y = x
    BY <1>2, <1>3, <1>5, <2>1 DEF In
  <2>2. In(x, t)
    BY <1>2, <1>5 DEF In
  <2>3. ASSUME NEW k \in 1..Len(s) PROVE In(s[k], t)
    <3>1. CASE k < n
      <4>1. k \in 1..(Len(s) + 1) /\ t[k] = s[k]
        BY <1>0, <1>2, <3>1
      <4> QED
        BY <1>5, <4>1 DEF In
    <3>2. CASE ~(k < n)
      <4>1. k + 1 \in 1..(Len(s) + 1) /\ n < k + 1 /\ (k + 1) - 1 = k
        BY <1>0, <3>2
      <4>2. t[k + 1] = s[k]
        BY <1>2, <4>1
      <4> QED
        BY <1>5, <4>1, <4>2 DEF In
    <3> QED
      BY <3>1, <3>2
  <2>4. \A y : In(y, s) => In(y, t)
    BY <2>3 DEF In
  <2> QED
    BY <2>1, <2>2, <2>4
<1> QED
  BY <1>5, <1>6, <1>7

(* A full store has a process to prune: it holds more than are protected. *)
LEMMA PruneTakes ==
    ASSUME OrderAgrees
    PROVE  /\ Len(recency) < MaxStored => ToPrune = None
           /\ ~(Len(recency) < MaxStored) => In(ToPrune, recency)
<1> USE UnifiedExecAssumption
<1> DEFINE exited == {k \in Prunable : HasExited(recency[k])}
           pool == IF exited # {} THEN exited ELSE Prunable
<1>1. Len(recency) \in Nat
  BY LenProperties DEF OrderAgrees
<1>2. ASSUME ~(Len(recency) < MaxStored) PROVE In(ToPrune, recency)
  <2>1. 1 \in Prunable /\ Prunable \subseteq 1..Len(recency) /\ Prunable \subseteq Nat
    BY <1>1, <1>2 DEF Prunable
  <2>2. pool # {} /\ pool \subseteq Prunable
    BY <2>1
  <2>3. ToPrune = recency[First(pool)]
    BY <1>2 DEF ToPrune
  <2> HIDE DEF pool
  <2>4. First(pool) \in pool
    BY <2>1, <2>2, FirstIn
  <2> QED
    BY <2>1, <2>2, <2>3, <2>4 DEF In
<1> QED
  BY <1>2 DEF ToPrune

LEMMA RemoveOrder ==
    ASSUME Types, OwnIds, OrderAgrees, NEW p \in Ids, Remove(p)
    PROVE  OrderAgrees'
<1> USE UnifiedExecAssumption
<1>1. /\ recency \in Seq(Execs) /\ Distinct(recency) /\ Len(recency) \in Nat
      /\ \A e \in Execs : In(e, recency) <=> Stored(e)
      /\ Len(recency) <= MaxStored
  BY LenProperties DEF OrderAgrees
<1>2. /\ recency' \in Seq(Execs) /\ Distinct(recency')
      /\ \A y : In(y, recency') <=> In(y, recency) /\ y # processes[p]
      /\ Len(recency') = Len(recency) \/ Len(recency') = Len(recency) - 1
  BY <1>1, WithoutLeaves DEF Remove
<1>3. /\ processes \in [Ids -> Execs \cup {None}]
      /\ processes' = [processes EXCEPT ![p] = None]
      /\ \A q, r \in Ids : processes[q] # None /\ processes[q] = processes[r] => q = r
  BY DEF Types, Remove, OwnIds
<1>4. \A e \in Execs : Stored(e)' <=> Stored(e) /\ e # processes[p]
  BY <1>3 DEF Stored
<1>5. \A e \in Execs : In(e, recency') <=> Stored(e)'
  BY <1>1, <1>2, <1>4
<1>6. Len(recency') <= MaxStored
  BY <1>1, <1>2
<1> QED
  BY <1>2, <1>5, <1>6 DEF OrderAgrees

LEMMA StoreOrder ==
    ASSUME Types, CallsAgree, OwnIds, OrderAgrees, NEW e \in Execs, Store(e)
    PROVE  OrderAgrees'
<1> USE UnifiedExecAssumption
<1> DEFINE v == ToPrune
           rest == Without(recency, v)
<1>1. /\ recency \in Seq(Execs) /\ Distinct(recency) /\ Len(recency) \in Nat
      /\ \A x \in Execs : In(x, recency) <=> Stored(x)
      /\ Len(recency) <= MaxStored
  BY LenProperties DEF OrderAgrees
<1>2. /\ Len(recency) < MaxStored => v = None
      /\ ~(Len(recency) < MaxStored) => In(v, recency)
  BY PruneTakes
<1>3. /\ recency' \in Placed(rest, e)
      /\ \A p \in Ids : processes'[p] = IF p = id[e] THEN e
                                        ELSE IF processes[p] = v /\ v # None THEN None
                                        ELSE processes[p]
  BY DEF Store
<1> HIDE DEF v
<1>4. /\ rest \in Seq(Execs) /\ Distinct(rest)
      /\ \A y : In(y, rest) <=> In(y, recency) /\ y # v
      /\ Len(rest) = IF In(v, recency) THEN Len(recency) - 1 ELSE Len(recency)
  BY <1>1, WithoutLeaves
<1>5. /\ processes \in [Ids -> Execs \cup {None}] /\ id[e] \in Ids
      /\ processes[id[e]] = None /\ ~Stored(e)
  <2>1. call[e] = "opened" /\ InProgress(e)
    BY DEF Store, InProgress, Calling
  <2> QED
    BY <2>1 DEF Types, CallsAgree, OwnIds, Stored
<1>6. \A x \in Execs : Stored(x)' <=> x = e \/ (Stored(x) /\ x # v)
  BY <1>3, <1>5 DEF Stored
<1> HIDE DEF rest
<1>7. ~In(e, rest)
  BY <1>1, <1>4, <1>5
<1>8. /\ recency' \in Seq(Execs) /\ Distinct(recency')
      /\ \A y : In(y, recency') <=> In(y, rest) \/ y = e
      /\ Len(recency') = Len(rest) + 1
  BY <1>3, <1>4, <1>7, PlacedEnters
<1>9. \A x \in Execs : In(x, recency') <=> Stored(x)'
  BY <1>1, <1>4, <1>6, <1>8
<1>10. Len(recency') <= MaxStored
  BY <1>1, <1>2, <1>4, <1>8
<1> QED
  BY <1>8, <1>9, <1>10 DEF OrderAgrees

LEMMA PrepareOrder ==
    ASSUME Types, OrderAgrees, NEW w \in Writers, Prepare(w)
    PROVE  OrderAgrees'
<1> USE UnifiedExecAssumption
<1>1. PICK p \in StoredIds : recency' = Append(Without(recency, processes[p]), processes[p])
  BY DEF Prepare
<1> DEFINE v == processes[p]
           rest == Without(recency, v)
<1>2. /\ recency \in Seq(Execs) /\ Distinct(recency) /\ Len(recency) \in Nat
      /\ \A x \in Execs : In(x, recency) <=> Stored(x)
      /\ Len(recency) <= MaxStored
  BY LenProperties DEF OrderAgrees
<1>3. v \in Execs /\ In(v, recency)
  BY <1>2 DEF Types, StoredIds, Stored
<1> HIDE DEF v
<1>4. /\ rest \in Seq(Execs) /\ Distinct(rest)
      /\ \A y : In(y, rest) <=> In(y, recency) /\ y # v
      /\ Len(rest) = Len(recency) - 1
  BY <1>2, <1>3, WithoutLeaves
<1>5. recency' = Append(rest, v)
  BY <1>1 DEF v
<1> HIDE DEF rest
<1>6. /\ recency' \in Seq(Execs) /\ Distinct(recency')
      /\ \A y : In(y, recency') <=> In(y, rest) \/ y = v
      /\ Len(recency') = Len(rest) + 1
  BY <1>3, <1>4, <1>5, AppendEnters
<1>7. \A x \in Execs : Stored(x)' <=> Stored(x)
  BY DEF Prepare, Stored
<1>8. \A x \in Execs : In(x, recency') <=> Stored(x)'
  BY <1>2, <1>3, <1>4, <1>6, <1>7
<1> QED
  BY <1>2, <1>4, <1>6, <1>8 DEF OrderAgrees

LEMMA SameOrder ==
    ASSUME OrderAgrees, UNCHANGED <<processes, recency>> PROVE OrderAgrees'
  BY DEF OrderAgrees, Stored

LEMMA OrderStep ==
    ASSUME Types, CallsAgree, OwnIds, WritersAgree, StopperAgrees, OrderAgrees, Next
    PROVE  OrderAgrees'
<1> USE UnifiedExecAssumption
<1>1. ASSUME NEW e \in Execs,
             Allocate(e) \/ Open(e) \/ FinishStore(e) \/ NotStored(e) \/ KillCall(e) \/ Exit(e)
               \/ Fail(e) \/ WatcherReports(e) \/ SweepNext(e)
      PROVE  UNCHANGED <<processes, recency>>
  BY <1>1 DEF Allocate, Open, FinishStore, NotStored, KillCall, Exit, Fail, WatcherReports,
     SweepNext, store
<1>2. ASSUME NEW e \in Execs, NotOpened(e) \/ ReturnFailed(e) \/ ReturnStored(e) \/ ReturnShort(e)
      PROVE  UNCHANGED <<processes, recency>> \/ (id[e] \in Ids /\ Remove(id[e]))
  <2>1. id[e] \in Ids
    BY <1>2 DEF NotOpened, ReturnFailed, ReturnStored, ReturnShort, CallsAgree, InProgress, Calling
  <2> QED
    BY <1>2, <2>1 DEF NotOpened, ReturnFailed, ReturnStored, ReturnShort, store
<1>3. ASSUME NEW w \in Writers, Write(w) \/ KillWriter(w) PROVE UNCHANGED <<processes, recency>>
  BY <1>3 DEF Write, KillWriter, store
<1>4. ASSUME NEW w \in Writers, WriteFails(w) \/ PollEnds(w)
      PROVE  UNCHANGED <<processes, recency>> \/ (writer[w].id \in Ids /\ Remove(writer[w].id))
  <2>1. writer[w].id \in Ids
    BY <1>4 DEF WriteFails, PollEnds, WritersAgree
  <2> QED
    BY <1>4, <2>1 DEF WriteFails, PollEnds, store
<1>5. CASE Stop \/ Quiet
  BY <1>5, SameOrder DEF Stop, Quiet, store, vars
<1>6. CASE StopRemoves
  <2>1. UNCHANGED <<processes, recency>> \/ (stopper.id \in Ids /\ Remove(stopper.id))
    BY <1>6 DEF StopRemoves, StopperAgrees, store
  <2> QED
    BY <2>1, SameOrder, RemoveOrder
<1>7. CASE Sweep
  <2>1. recency' = <<>> /\ \A p \in Ids : processes'[p] = None
    BY <1>7 DEF Sweep
  <2>2. \A e \in Execs : ~In(e, recency') /\ ~Stored(e)'
    BY <2>1 DEF In, Stored
  <2>3. recency' \in Seq(Execs) /\ Distinct(recency') /\ Len(recency') <= MaxStored
    BY <2>1 DEF Distinct
  <2> QED
    BY <2>2, <2>3 DEF OrderAgrees
<1> QED
  BY <1>1, <1>2, <1>3, <1>4, <1>5, <1>6, <1>7, SameOrder, RemoveOrder, StoreOrder, PrepareOrder
     DEF Next, CallStep

LEMMA KindsStep ==
    ASSUME Types, CallsAgree, Kinds, OrderAgrees, Next PROVE Kinds'
<1> USE UnifiedExecAssumption DEF Kinds
<1>1. ASSUME NEW e \in Execs, Store(e) PROVE Kinds'
  <2>1. ToPrune \in Execs \cup {None}
    <3>1. recency \in Seq(Execs) /\ \A k \in 1..Len(recency) : recency[k] \in Execs
      BY ElementOfSeq DEF OrderAgrees
    <3> QED
      BY <3>1, PruneTakes DEF In
  <2>2. /\ reserved' \subseteq reserved /\ UNCHANGED <<failure, ops>>
        /\ pruned' = [pruned EXCEPT ![e] = ToPrune]
    BY <1>1 DEF Store, others
  <2> QED
    BY <2>1, <2>2
<1>2. ASSUME NEW e \in Execs,
             Allocate(e) \/ Open(e) \/ FinishStore(e) \/ NotStored(e) \/ KillCall(e) \/ Exit(e)
               \/ Fail(e) \/ WatcherReports(e) \/ SweepNext(e)
      PROVE  Kinds'
  BY <1>2 DEF Allocate, Open, FinishStore, NotStored, KillCall, Exit, Fail, WatcherReports,
     SweepNext, others, store, process
<1>3. ASSUME NEW e \in Execs, NotOpened(e) \/ ReturnFailed(e) \/ ReturnStored(e) \/ ReturnShort(e)
      PROVE  Kinds'
  BY <1>3 DEF NotOpened, ReturnFailed, ReturnStored, ReturnShort, Remove, others, store
<1>4. ASSUME NEW w \in Writers, Prepare(w) \/ Write(w) \/ WriteFails(w) \/ PollEnds(w) \/ KillWriter(w)
      PROVE  Kinds'
  BY <1>4 DEF Prepare, Write, WriteFails, PollEnds, KillWriter, Remove, process, store
<1>5. CASE Stop \/ StopRemoves \/ Sweep \/ Quiet
  BY <1>5 DEF Stop, StopRemoves, Sweep, Quiet, Remove, process, store, vars
<1> QED
  BY <1>1, <1>2, <1>3, <1>4, <1>5 DEF Next, CallStep

-----------------------------------------------------------------------------
LEMMA InitIInv == ASSUME Init PROVE IInv
<1> USE UnifiedExecAssumption DEF Init
<1>1. Types
  BY DEF Types, Calls, Idle, Holding
<1>2. CallsAgree /\ OwnIds /\ WritersAgree /\ StopperAgrees
  BY DEF CallsAgree, OwnIds, WritersAgree, StopperAgrees, InProgress, Calling, HasExited, Idle
<1>3. RunningIsOwned /\ StoredIsKept /\ EndOnce
  BY DEF RunningIsOwned, StoredIsKept, EndOnce
<1>4. Kinds
  BY DEF Kinds
<1>5. OrderAgrees
  <2>1. /\ recency = <<>> /\ Len(recency) = 0 /\ recency \in Seq(Execs)
        /\ \A e \in Execs : ~Stored(e)
    BY DEF Stored
  <2> QED
    BY <2>1 DEF OrderAgrees, In, Distinct
<1> QED
  BY <1>1, <1>2, <1>3, <1>4, <1>5 DEF IInv

LEMMA StepIInv == ASSUME IInv, [Next]_vars PROVE IInv'
<1>1. CASE Next
  BY <1>1, TypesStep, CallsStep, OwnStep, WritersStep, StopperStep, RunningStep, KeptStep, EndStep,
     KindsStep, OrderStep
     DEF IInv
<1>2. CASE UNCHANGED vars
  <2>1. OrderAgrees' /\ Kinds'
    BY <1>2, SameOrder DEF IInv, vars, Kinds
  <2> QED
    BY <1>2, <2>1
       DEF IInv, vars, Types, CallsAgree, OwnIds, WritersAgree, StopperAgrees, RunningIsOwned,
       StoredIsKept, EndOnce, HandedOver, PruneInterrupted, InProgress, HasExited, Stored, Signalled
<1> QED
  BY <1>1, <1>2

(* IInv is an invariant of the process manager, for every number of calls,  *)
(* ids and writers and every size of the store.                             *)
THEOREM IInvHolds == Spec => []IInv
  BY InitIInv, StepIInv, PTL DEF Spec

(* ExecCommandEnd is emitted at most once for a process, and only for one   *)
(* that was signalled or has exited: a stored process is reported by its    *)
(* exit watcher, one that exited before it was stored by its call.          *)
THEOREM EndOnceHolds == Spec => []EndOnce
<1>1. IInv => EndOnce
  BY DEF IInv
<1> QED
  BY <1>1, IInvHolds, PTL

(* A running process that left the store is about to be terminated by       *)
(* whoever took it out, but for the prune that store_process interrupts.    *)
THEOREM NoOrphansHolds == Spec => []NoOrphans
<1>1. IInv => NoOrphans
  BY DEF IInv, RunningIsOwned, HandedOver, NoOrphans, InProgress, Calling
<1> QED
  BY <1>1, IInvHolds, PTL

(* While an exec_command call waits for output its entry is taken only by   *)
(* pruning or terminate_all_processes: initial_exec_command_active holds    *)
(* terminate_process off, and write_stdin never has the id of such a call.  *)
THEOREM EntryKeptHolds == Spec => []EntryKept
<1>1. IInv => EntryKept
  BY DEF IInv, StoredIsKept, EntryKept
<1> QED
  BY <1>1, IInvHolds, PTL

(* The order of use is a numbering of the occupied ids. *)
LEMMA OrderCounts == ASSUME IInv PROVE Cardinality(StoredIds) = Len(recency)
<1> USE UnifiedExecAssumption
<1> DEFINE f == [k \in 1..Len(recency) |-> id[recency[k]]]
<1>1. /\ recency \in Seq(Execs) /\ Len(recency) \in Nat
      /\ \A k \in 1..Len(recency) : recency[k] \in Execs
      /\ Distinct(recency) /\ \A e \in Execs : In(e, recency) <=> Stored(e)
  BY LenProperties, ElementOfSeq DEF IInv, OrderAgrees
<1>2. /\ processes \in [Ids -> Execs \cup {None}]
      /\ \A p \in Ids : processes[p] # None => id[processes[p]] = p
  BY DEF IInv, Types, OwnIds
<1>3. \A k \in 1..Len(recency) : id[recency[k]] \in StoredIds /\ processes[id[recency[k]]] = recency[k]
  <2> SUFFICES ASSUME NEW k \in 1..Len(recency)
               PROVE  id[recency[k]] \in StoredIds /\ processes[id[recency[k]]] = recency[k]
    OBVIOUS
  <2>1. PICK p \in Ids : processes[p] = recency[k]
    BY <1>1 DEF In, Stored
  <2> QED
    BY <1>1, <1>2, <2>1 DEF StoredIds
<1>4. f \in [1..Len(recency) -> StoredIds]
  BY <1>3
<1>5. \A j, k \in 1..Len(recency) : f[j] = f[k] => j = k
  BY <1>1, <1>3 DEF Distinct
<1>6. \A p \in StoredIds : \E k \in 1..Len(recency) : f[k] = p
  <2> SUFFICES ASSUME NEW p \in StoredIds PROVE \E k \in 1..Len(recency) : f[k] = p
    OBVIOUS
  <2>1. p \in Ids /\ processes[p] \in Execs /\ id[processes[p]] = p
    BY <1>2 DEF StoredIds
  <2>2. PICK k \in 1..Len(recency) : recency[k] = processes[p]
    BY <1>1, <2>1 DEF In, Stored
  <2> QED
    BY <2>1, <2>2
<1> HIDE DEF f
<1>7. f \in Surjection(1..Len(recency), StoredIds) /\ f \in Injection(1..Len(recency), StoredIds)
  BY <1>4, <1>5, <1>6 DEF Surjection, Injection, IsInjective
<1>8. IsFiniteSet(1..Len(recency)) /\ Cardinality(1..Len(recency)) = Len(recency)
  BY <1>1, FS_Interval
<1> QED
  BY <1>7, <1>8, FS_Surjection

(* The store never holds more than MAX_UNIFIED_EXEC_PROCESSES processes: a  *)
(* full one always has an entry outside the protected ones to prune.        *)
THEOREM StoreBoundedHolds == Spec => []StoreBounded
<1>1. IInv => StoreBounded
  BY OrderCounts DEF IInv, OrderAgrees, StoreBounded
<1> QED
  BY <1>1, IInvHolds, PTL

(* Type correctness, and each stored process has one place in the order of  *)
(* use by which the next one to prune is chosen.                            *)
THEOREM UnifiedExecTypeCorrect == Spec => []TypeOK
<1>1. ASSUME IInv PROVE TypeOK
  <2>1. ended \in [Execs -> 0..2]
    BY <1>1 DEF IInv, Types, EndOnce
  <2> QED
    BY <1>1, <2>1, OrderCounts DEF IInv, Types, Kinds, OrderAgrees, TypeOK, Calls
<1> QED
  BY <1>1, IInvHolds, PTL
=============================================================================
