--------------------------- MODULE AgentResidency ---------------------------
(***************************************************************************)
(* Which agents of a V2 session tree are in memory, and how many may run   *)
(* (core/src/agent/control/residency.rs, control/execution.rs): spawning   *)
(* an agent or sending it a message may first unload the least recently    *)
(* used idle agent, and may reload its target from its stored thread       *)
(* (control/spawn.rs, thread_manager.rs).                                  *)
(*                                                                         *)
(* An agent keeps its thread id when it is unloaded and reloaded; every    *)
(* load makes a new instance, a running session with its own queue of      *)
(* operations.  Every await and every lock acquisition ends a step.        *)
(***************************************************************************)
EXTENDS Naturals, Sequences, SequencesExt, FiniteSets

CONSTANTS
    Actors,      \* concurrent spawn, send_message and followup_task calls
    Agents,      \* thread ids of sub-agents
    Initial,     \* the agents that exist, loaded and idle, at the start
    Capacity,    \* effective_agent_max_threads: residents and running turns
    MaxLoads,    \* bound on the instances of one agent
    MaxOps,      \* bound on the calls
    None

ASSUME ResidencyAssumption ==
    /\ IsFiniteSet(Actors) /\ IsFiniteSet(Agents)
    /\ Initial \subseteq Agents /\ None \notin Agents
    /\ Capacity \in Nat \ {0} /\ MaxLoads \in Nat \ {0} /\ MaxOps \in Nat

Gens == 1 .. MaxLoads
Instances == Agents \X Gens
Unloaded == 0

VARIABLES
    residents, pending_slots,   \* V2ResidencyState
    threads,    \* agent -> the instance the thread manager holds, or Unloaded
    store,      \* agent -> the instance with the live rollout writer
    known,      \* agents with an entry in the registry
    loads,      \* agent -> how many instances it has had
    running,    \* instances whose submission loop runs
    inbox,      \* instance -> operations not yet handled
    status,     \* instance -> init, active (a turn runs) or done
    mail,       \* instances with pending mailbox items
    active,     \* AgentExecutionLimiter
    pc, target, trigger, inst, slot, scan, cand, ops   \* locals of the calls

stateVars == <<residents, pending_slots>>
agentVars == <<threads, store, known, loads>>
loopVars == <<running, inbox, status, mail, active>>
callVars == <<target, trigger, inst, slot, scan, cand>>
vars == <<stateVars, agentVars, loopVars, pc, callVars, ops>>

Init ==
    /\ residents = SetToSeq(Initial)
    /\ pending_slots = 0
    /\ threads = [a \in Agents |-> IF a \in Initial THEN 1 ELSE Unloaded]
    /\ store = threads /\ loads = threads
    /\ known = Initial
    /\ running = Initial \X {1}
    /\ inbox = [i \in Instances |-> <<>>]
    /\ status = [i \in Instances |-> IF i \in running THEN "done" ELSE "init"]
    /\ mail = {} /\ active = 0
    /\ pc = [x \in Actors |-> "idle"]
    /\ target = [x \in Actors |-> None] /\ trigger = [x \in Actors |-> FALSE]
    /\ inst = [x \in Actors |-> Unloaded] /\ slot = [x \in Actors |-> FALSE]
    /\ scan = [x \in Actors |-> 0] /\ cand = [x \in Actors |-> None]
    /\ ops = 0

Goes(x, place) == pc' = [pc EXCEPT ![x] = place]

(* The call returns; a slot it still holds is dropped. *)
ReturnsKeepingSlot(x) ==
    /\ Goes(x, "idle")
    /\ target' = [target EXCEPT ![x] = None]
    /\ trigger' = [trigger EXCEPT ![x] = FALSE]
    /\ inst' = [inst EXCEPT ![x] = Unloaded]
    /\ scan' = [scan EXCEPT ![x] = 0]
    /\ cand' = [cand EXCEPT ![x] = None]
    /\ slot' = [slot EXCEPT ![x] = FALSE]
    /\ UNCHANGED pending_slots

Returns(x) ==
    /\ Goes(x, "idle")
    /\ target' = [target EXCEPT ![x] = None]
    /\ trigger' = [trigger EXCEPT ![x] = FALSE]
    /\ inst' = [inst EXCEPT ![x] = Unloaded]
    /\ scan' = [scan EXCEPT ![x] = 0]
    /\ cand' = [cand EXCEPT ![x] = None]
    /\ slot' = [slot EXCEPT ![x] = FALSE]
    /\ pending_slots' = IF slot[x] THEN pending_slots - 1 ELSE pending_slots

(* VecDeque::retain of everything but a. *)
Without(s, a) ==
    LET kept[k \in 0 .. Len(s)] ==
            IF k = 0 THEN <<>>
            ELSE IF s[k] = a THEN kept[k - 1] ELSE Append(kept[k - 1], s[k])
    IN  kept[Len(s)]

Touched(a) == Append(Without(residents, a), a)

HasCapacity == active < Capacity

(***************************************************************************)
(* The calls: handle_message_string_tool and spawn_agent_internal.         *)
(***************************************************************************)

SendMessage(x) ==
    /\ pc[x] = "idle" /\ ops < MaxOps /\ ops' = ops + 1
    /\ \E a \in known, t \in BOOLEAN :
          /\ target' = [target EXCEPT ![x] = a]
          /\ trigger' = [trigger EXCEPT ![x] = t]
    /\ Goes(x, "lookup")
    /\ UNCHANGED <<stateVars, agentVars, loopVars, inst, slot, scan, cand>>

(* A spawn checks the execution limit before anything else. *)
SpawnAgent(x) ==
    /\ pc[x] = "idle" /\ ops < MaxOps /\ ops' = ops + 1
    /\ HasCapacity
    /\ \E a \in {b \in Agents : loads[b] = 0 /\ \A y \in Actors : target[y] # b} :
          target' = [target EXCEPT ![x] = a]
    /\ trigger' = [trigger EXCEPT ![x] = TRUE]
    /\ Goes(x, "reserve")
    /\ UNCHANGED <<stateVars, agentVars, loopVars, inst, slot, scan, cand>>

(* ensure_v2_agent_loaded. *)
Lookup(x) ==
    /\ pc[x] = "lookup"
    /\ \/ /\ threads[target[x]] # Unloaded
          /\ Goes(x, "touch")
          /\ UNCHANGED <<pending_slots, callVars>>
       \/ /\ threads[target[x]] = Unloaded /\ target[x] \in known
          /\ Goes(x, "reserve")
          /\ UNCHANGED <<pending_slots, callVars>>
       \/ /\ threads[target[x]] = Unloaded /\ target[x] \notin known
          /\ Returns(x)
    /\ UNCHANGED <<residents, agentVars, loopVars, ops>>

TouchLoaded(x) ==
    /\ pc[x] = "touch"
    /\ residents' = IF threads[target[x]] # Unloaded THEN Touched(target[x]) ELSE residents
    /\ Goes(x, "capacity")
    /\ UNCHANGED <<pending_slots, agentVars, loopVars, callVars, ops>>

(***************************************************************************)
(* reserve_slot and try_unload_one_resident.                               *)
(***************************************************************************)

TryReservePendingSlot(x) ==
    /\ pc[x] = "reserve"
    /\ \/ /\ Len(residents) + pending_slots < Capacity
          /\ pending_slots' = pending_slots + 1
          /\ slot' = [slot EXCEPT ![x] = TRUE]
          /\ Goes(x, "resume")
          /\ UNCHANGED scan
       \/ /\ Len(residents) + pending_slots >= Capacity
          /\ Goes(x, "count")
          /\ UNCHANGED <<pending_slots, slot, scan>>
    /\ UNCHANGED <<residents, agentVars, loopVars, target, trigger, inst, cand, ops>>

ResidentCount(x) ==
    /\ pc[x] = "count"
    /\ scan' = [scan EXCEPT ![x] = Len(residents)]
    /\ Goes(x, "pop")
    /\ UNCHANGED <<stateVars, agentVars, loopVars, target, trigger, inst, slot, cand, ops>>

(* The thread to be loaded is protected: rotated to the back, not popped.  *)
(* A spawn protects nothing, and its target is in no queue yet.            *)
PopLruCandidate(x) ==
    /\ pc[x] = "pop"
    /\ LET free == {k \in DOMAIN residents : residents[k] # target[x]} IN
       \/ /\ scan[x] = 0 \/ free = {}
          /\ Returns(x) /\ UNCHANGED residents
       \/ /\ scan[x] > 0 /\ free # {}
          /\ LET k == CHOOSE j \in free : \A i \in free : j <= i IN
             /\ cand' = [cand EXCEPT ![x] = residents[k]]
             /\ residents' = SubSeq(residents, k + 1, Len(residents))
                             \o SubSeq(residents, 1, k - 1)
          /\ scan' = [scan EXCEPT ![x] = @ - 1]
          /\ Goes(x, "look")
          /\ UNCHANGED <<pending_slots, target, trigger, inst, slot>>
    /\ UNCHANGED <<agentVars, loopVars, ops>>

(* A candidate that is not loaded any more is forgotten. *)
GetCandidate(x) ==
    /\ pc[x] = "look"
    /\ \/ /\ threads[cand[x]] = Unloaded
          /\ cand' = [cand EXCEPT ![x] = None]
          /\ Goes(x, "pop")
          /\ UNCHANGED inst
       \/ /\ threads[cand[x]] # Unloaded
          /\ inst' = [inst EXCEPT ![x] = threads[cand[x]]]
          /\ Goes(x, "check")
          /\ UNCHANGED cand
    /\ UNCHANGED <<stateVars, agentVars, loopVars, target, trigger, slot, scan, ops>>

IsUnloadable(i) == status[i] = "done" /\ i \notin mail

CheckForgetsBusy(x) ==
    /\ pc[x] = "check"
    /\ \/ /\ IsUnloadable(<<cand[x], inst[x]>>)
          /\ Goes(x, "shutdown")
          /\ UNCHANGED <<cand, inst>>
       \/ /\ ~IsUnloadable(<<cand[x], inst[x]>>)
          /\ cand' = [cand EXCEPT ![x] = None]
          /\ inst' = [inst EXCEPT ![x] = Unloaded]
          /\ Goes(x, "pop")
    /\ UNCHANGED <<stateVars, agentVars, loopVars, target, trigger, slot, scan, ops>>

CheckCandidate(x) ==
    /\ pc[x] = "check"
    /\ \/ /\ IsUnloadable(<<cand[x], inst[x]>>)
          /\ Goes(x, "shutdown")
          /\ UNCHANGED <<residents, cand, inst>>
       \/ /\ ~IsUnloadable(<<cand[x], inst[x]>>)
          /\ residents' = Touched(cand[x])
          /\ cand' = [cand EXCEPT ![x] = None]
          /\ inst' = [inst EXCEPT ![x] = Unloaded]
          /\ Goes(x, "pop")
    /\ UNCHANGED <<pending_slots, agentVars, loopVars, target, trigger, slot, scan, ops>>

Submit(i, op) == inbox' = IF i \in running THEN [inbox EXCEPT ![i] = Append(@, op)] ELSE inbox

SubmitShutdown(x) ==
    /\ pc[x] = "shutdown"
    /\ Submit(<<cand[x], inst[x]>>, "shutdown")
    /\ Goes(x, "terminated")
    /\ UNCHANGED <<stateVars, agentVars, running, status, mail, active, callVars, ops>>

(* shutdown_and_wait returns and the thread is removed, by its id. *)
RemoveUnloaded(x) ==
    /\ pc[x] = "terminated" /\ <<cand[x], inst[x]>> \notin running
    /\ threads' = [threads EXCEPT ![cand[x]] = Unloaded]
    /\ cand' = [cand EXCEPT ![x] = None]
    /\ inst' = [inst EXCEPT ![x] = Unloaded]
    /\ Goes(x, "reserve")
    /\ UNCHANGED <<stateVars, store, known, loads, loopVars, target, trigger, slot, scan, ops>>

(***************************************************************************)
(* resume_thread_with_history_with_source, or the creation of a new thread *)
(***************************************************************************)

CommitSlot(x) ==
    /\ pending_slots' = pending_slots - 1
    /\ residents' = Touched(target[x])
    /\ slot' = [slot EXCEPT ![x] = FALSE]

ResumeThread(x) ==
    /\ pc[x] = "resume"
    /\ LET a == target[x]  g == threads[a] IN
       \/ /\ g # Unloaded /\ <<a, g>> \in running
          /\ CommitSlot(x)
          /\ Goes(x, "capacity")
          /\ UNCHANGED threads
       \/ /\ g = Unloaded \/ <<a, g>> \notin running
          /\ threads' = [threads EXCEPT ![a] = Unloaded]
          /\ Goes(x, "create")
          /\ UNCHANGED <<stateVars, slot>>
    /\ UNCHANGED <<store, known, loads, loopVars, target, trigger, inst, scan, cand, ops>>

(* The thread store refuses a second live writer of the same rollout. *)
AnyWriter(a) == TRUE
NoLiveWriter(a) == store[a] = Unloaded

CreateSession(x) ==
    /\ pc[x] = "create"
    /\ LET a == target[x] IN
       \/ /\ NoLiveWriter(a) /\ loads[a] < MaxLoads
          /\ loads' = [loads EXCEPT ![a] = @ + 1]
          /\ store' = [store EXCEPT ![a] = loads'[a]]
          /\ running' = running \cup {<<a, loads'[a]>>}
          /\ inst' = [inst EXCEPT ![x] = loads'[a]]
          /\ Goes(x, "insert")
       \/ /\ ~NoLiveWriter(a)
          /\ Goes(x, "resumeFailed")
          /\ UNCHANGED <<loads, store, running, inst>>
    /\ UNCHANGED <<stateVars, threads, known, inbox, status, mail, active,
                   target, trigger, slot, scan, cand, ops>>

(* finalize_thread_spawn: when the entry is taken, even by an instance     *)
(* that has just ended, the new instance is shut down as a duplicate.      *)
FinalizeThreadSpawn(x) ==
    /\ pc[x] = "insert"
    /\ LET a == target[x] IN
       \/ /\ threads[a] = Unloaded
          /\ threads' = [threads EXCEPT ![a] = inst[x]]
          /\ Goes(x, "commit")
          /\ UNCHANGED inbox
       \/ /\ threads[a] # Unloaded
          /\ Submit(<<a, inst[x]>>, "shutdown")
          /\ Goes(x, "duplicate")
          /\ UNCHANGED threads
    /\ UNCHANGED <<stateVars, store, known, loads, running, status, mail, active,
                   callVars, ops>>

DuplicateGone(x) ==
    /\ pc[x] = "duplicate" /\ <<target[x], inst[x]>> \notin running
    /\ inst' = [inst EXCEPT ![x] = Unloaded]
    /\ Goes(x, "resumeFailed")
    /\ UNCHANGED <<stateVars, agentVars, loopVars, target, trigger, slot, scan, cand, ops>>

(* The first instance of an agent is the one its spawn creates. *)
Spawning(x) == inst[x] = 1

(* A spawn also commits its registry entry and sends its first input       *)
(* without a second capacity check.                                        *)
Commit(x) ==
    /\ pc[x] = "commit"
    /\ CommitSlot(x)
    /\ inst' = [inst EXCEPT ![x] = Unloaded]
    /\ known' = IF Spawning(x) THEN known \cup {target[x]} ELSE known
    /\ Goes(x, IF Spawning(x) THEN "send" ELSE "capacity")
    /\ UNCHANGED <<threads, store, loads, loopVars, target, trigger, scan, cand, ops>>

(* Somebody else may have loaded the agent meanwhile. *)
ResumeFailed(x) ==
    /\ pc[x] = "resumeFailed"
    /\ \/ /\ threads[target[x]] # Unloaded
          /\ pending_slots' = pending_slots - 1
          /\ slot' = [slot EXCEPT ![x] = FALSE]
          /\ Goes(x, "touch")
          /\ UNCHANGED <<target, trigger, inst, scan, cand>>
       \/ /\ threads[target[x]] = Unloaded
          /\ Returns(x)
    /\ UNCHANGED <<residents, agentVars, loopVars, ops>>

(***************************************************************************)
(* send_inter_agent_communication.                                         *)
(***************************************************************************)

EnsureExecutionCapacity(x) ==
    /\ pc[x] = "capacity"
    /\ LET a == target[x]
           ok == \/ ~trigger[x]
                 \/ /\ threads[a] # Unloaded
                    /\ status[<<a, threads[a]>>] = "active" \/ HasCapacity
       IN \/ ok /\ Goes(x, "send") /\ UNCHANGED <<pending_slots, callVars>>
          \/ ~ok /\ Returns(x)
    /\ UNCHANGED <<residents, agentVars, loopVars, ops>>

SendOp(x) ==
    /\ pc[x] = "send"
    /\ LET a == target[x]  i == <<a, threads[a]>> IN
       \/ /\ threads[a] # Unloaded /\ i \in running
          /\ Submit(i, IF trigger[x] THEN "trigger" ELSE "mail")
          /\ Returns(x)
       \/ /\ threads[a] # Unloaded /\ i \notin running     \* InternalAgentDied
          /\ Goes(x, "died")
          /\ UNCHANGED <<inbox, pending_slots, callVars>>
       \/ /\ threads[a] = Unloaded
          /\ Returns(x) /\ UNCHANGED inbox
    /\ UNCHANGED <<residents, agentVars, running, status, mail, active, ops>>

(* handle_thread_request_result: the agent died. *)
RemoveDead(x) ==
    /\ pc[x] = "died"
    /\ threads' = [threads EXCEPT ![target[x]] = Unloaded]
    /\ Goes(x, "forget")
    /\ UNCHANGED <<stateVars, store, known, loads, loopVars, callVars, ops>>

ForgetAndRelease(x) ==
    /\ pc[x] = "forget"
    /\ residents' = Without(residents, target[x])
    /\ known' = known \ {target[x]}
    /\ Returns(x)
    /\ UNCHANGED <<threads, store, loads, loopVars, ops>>

(***************************************************************************)
(* The sessions: an abstraction of SessionTurns.                           *)
(***************************************************************************)

Handle(i) ==
    /\ i \in running /\ inbox[i] # <<>>
    /\ LET op == Head(inbox[i])  a == i[1] IN
       \/ /\ op = "mail"
          /\ mail' = IF status[i] = "active" THEN mail ELSE mail \cup {i}
          /\ inbox' = [inbox EXCEPT ![i] = Tail(@)]
          /\ UNCHANGED <<running, status, active, store>>
       \/ /\ op = "trigger"
          /\ status' = [status EXCEPT ![i] = "active"]
          /\ active' = IF status[i] = "active" THEN active ELSE active + 1
          /\ mail' = mail \ {i}
          /\ inbox' = [inbox EXCEPT ![i] = Tail(@)]
          /\ UNCHANGED <<running, store>>
       \/ /\ op = "shutdown"
          /\ status' = [status EXCEPT ![i] = "done"]
          /\ active' = IF status[i] = "active" THEN active - 1 ELSE active
          /\ running' = running \ {i}
          /\ store' = [store EXCEPT ![a] = Unloaded]
          /\ mail' = mail \ {i}
          /\ inbox' = [inbox EXCEPT ![i] = <<>>]
    /\ UNCHANGED <<stateVars, threads, known, loads, pc, callVars, ops>>

TurnEnds(i) ==
    /\ i \in running /\ status[i] = "active"
    /\ status' = [status EXCEPT ![i] = "done"]
    /\ active' = active - 1
    /\ UNCHANGED <<stateVars, agentVars, running, inbox, mail, pc, callVars, ops>>

ActorStep(x) ==
    \/ SendMessage(x) \/ SpawnAgent(x) \/ Lookup(x) \/ TouchLoaded(x)
    \/ TryReservePendingSlot(x) \/ ResidentCount(x) \/ PopLruCandidate(x)
    \/ GetCandidate(x) \/ CheckCandidate(x) \/ SubmitShutdown(x) \/ RemoveUnloaded(x)
    \/ ResumeThread(x) \/ CreateSession(x) \/ FinalizeThreadSpawn(x) \/ DuplicateGone(x)
    \/ Commit(x) \/ ResumeFailed(x) \/ EnsureExecutionCapacity(x) \/ SendOp(x)
    \/ RemoveDead(x) \/ ForgetAndRelease(x)

Next ==
    \/ \E x \in Actors : ActorStep(x)
    \/ \E i \in Instances : Handle(i) \/ TurnEnds(i)

Spec == Init /\ [][Next]_vars

(***************************************************************************)
(* Properties.                                                             *)
(***************************************************************************)

(* Types; pops, touches and commits of concurrent calls never leave an     *)
(* agent in the LRU queue twice, where it would take two places.           *)
TypeOK ==
    /\ residents \in Seq(Agents) /\ pending_slots \in Nat
    /\ threads \in [Agents -> 0 .. MaxLoads] /\ store \in [Agents -> 0 .. MaxLoads]
    /\ known \subseteq Agents /\ running \subseteq Instances
    /\ status \in [Instances -> {"init", "active", "done"}]
    /\ active \in Nat /\ slot \in [Actors -> BOOLEAN]
    /\ \A j, k \in DOMAIN residents : residents[j] = residents[k] => j = k

(* The two counters are exact.  The slots given away are the calls that    *)
(* will commit or drop one: saturating_sub never hides a slot returned     *)
(* twice.  The limiter counts the turns that run, whoever starts, finishes *)
(* or kills them.                                                          *)
CountersExact ==
    /\ pending_slots = Cardinality({x \in Actors : slot[x]})
    /\ active = Cardinality({i \in Instances : status[i] = "active"})

(* Two loads of the same agent never run at once, so one rollout never has *)
(* two writers.                                                            *)
OneLiveInstance ==
    \A a \in Agents : Cardinality({g \in Gens : <<a, g>> \in running}) <= 1

(* Every registered agent that is loaded stays within reach of an eviction *)
(* through all pops, touches, reloads and removals: it is in the queue, in *)
(* the hands of an eviction, or about to be put (back) in the queue.       *)
LoadedIsTracked ==
    \A a \in known : threads[a] # Unloaded =>
        \/ a \in ToSet(residents)
        \/ \E x \in Actors : cand[x] = a \/ (target[x] = a /\ pc[x] \in {"commit", "touch"})
=============================================================================
