--------------------------- MODULE AgentRegistry ---------------------------
(***************************************************************************)
(* The registry of the agents of one session tree                          *)
(* (core/src/agent/registry.rs) and the operations of AgentControl that    *)
(* use it: spawning an agent, resuming a closed one and closing a live one *)
(* (agent/control.rs, control/spawn.rs, control/legacy.rs).                *)
(*                                                                         *)
(* The registry is shared by every agent of the tree.  Its tree of agents  *)
(* is behind a mutex, its slot counter total_count is an atomic outside    *)
(* that mutex, so a slot and the entry it pays for change at different     *)
(* moments.  Every lock acquisition and every atomic operation is one step.*)
(***************************************************************************)
EXTENDS Integers, FiniteSets

CONSTANTS
    Spawners,      \* concurrent calls of spawn_agent or resume_agent
    Closers,       \* concurrent calls of shutdown_live_agent
    Threads,       \* thread ids
    RootThread,    \* the thread id of the root session
    Paths,         \* agent paths other than the root path
    Names,         \* the pool of nicknames
    MaxThreads,    \* agents.max_threads
    SpawnLimited,  \* TRUE when spawns pass Some(max_threads), FALSE for None
    MaxResets,     \* bound on the resets of the nickname pool
    RootPath,      \* AgentPath::ROOT, the key of the root entry
    None           \* the null value of every Option

ASSUME RegistryAssumption ==
    /\ IsFiniteSet(Spawners) /\ IsFiniteSet(Closers)
    /\ IsFiniteSet(Threads) /\ IsFiniteSet(Paths)
    /\ MaxThreads \in Nat \ {0}
    /\ MaxResets \in Nat
    /\ SpawnLimited \in BOOLEAN
    /\ RootThread \in Threads
    /\ RootPath \notin Paths \cup Threads
    /\ Paths \cap Threads = {}
    /\ None \notin Paths \cup Threads \cup {RootPath}

(* The key of an agent without a path is built from its thread id. *)
Keys == Paths \cup Threads \cup {RootPath}

(* A tree entry whose agent_id is still unset: a reserved path. *)
Reserved == "reserved"

ASSUME ReservedAssumption == Reserved \notin Threads \cup {None}

Nicknames == Names \X (0 .. MaxResets)

ASSUME NicknameAssumption == None \notin Nicknames

VARIABLES
    total_count,           \* the slot counter
    agent_tree,            \* key -> thread id, Reserved, or None for no entry
    used_agent_nicknames,  \* nicknames taken since the last reset of the pool
    nickname_reset_count,
    running,               \* the threads the thread manager holds
    home,                  \* thread -> its stored agent path
    nickname,              \* thread -> its stored nickname
    pc, current, path, nick, thread,   \* locals of a spawner
    cpc, target                        \* locals of a closer

registryVars == <<total_count, agent_tree, used_agent_nicknames, nickname_reset_count>>
managerVars  == <<running, home, nickname>>
spawnerVars  == <<pc, current, path, nick, thread>>
closerVars   == <<cpc, target>>
vars == <<registryVars, managerVars, spawnerVars, closerVars>>

(* A thread has been created once it has a nickname; thread ids are fresh. *)
Born == {t \in Threads : nickname[t] # None}

(***************************************************************************)
(* Derived sets: who owns a slot of total_count.                           *)
(***************************************************************************)
Holding  == {"slot", "path", "named", "build", "created", "undo", "drop"}
Holders  == {p \in Spawners : pc[p] \in Holding}
Counted  == {k \in Paths \cup Threads : agent_tree[k] \in Threads}
Freeing  == {c \in Closers : cpc[c] = "sub"}

TypeOK ==
    /\ total_count \in Nat
    /\ agent_tree \in [Keys -> Threads \cup {Reserved, None}]
    /\ used_agent_nicknames \subseteq Nicknames
    /\ nickname_reset_count \in 0 .. MaxResets
    /\ running \subseteq Threads
    /\ home \in [Threads -> Paths \cup {None}]
    /\ nickname \in [Threads -> Nicknames \cup {None}]
    /\ pc \in [Spawners -> Holding \cup {"idle", "cas"}]
    /\ current \in [Spawners -> Nat]
    /\ path \in [Spawners -> Paths \cup {None}]
    /\ nick \in [Spawners -> Nicknames \cup {None}]
    /\ thread \in [Spawners -> Threads \cup {None}]
    /\ cpc \in [Closers -> {"idle", "release", "sub"}]
    /\ target \in [Closers -> Threads \cup {None}]

Init ==
    /\ total_count = 0
    /\ agent_tree = [k \in Keys |-> None]
    /\ used_agent_nicknames = {}
    /\ nickname_reset_count = 0
    /\ running = {RootThread}
    /\ home = [t \in Threads |-> None]
    /\ nickname = [t \in Threads |-> None]
    /\ pc = [p \in Spawners |-> "idle"]
    /\ current = [p \in Spawners |-> 0]
    /\ path = [p \in Spawners |-> None]
    /\ nick = [p \in Spawners |-> None]
    /\ thread = [p \in Spawners |-> None]
    /\ cpc = [c \in Closers |-> "idle"]
    /\ target = [c \in Closers |-> None]

GotoS(p, label) == pc' = [pc EXCEPT ![p] = label]

(***************************************************************************)
(* Root registration: at session start and again at every depth-1 spawn;   *)
(* the entry is inserted only when there is none.                          *)
(***************************************************************************)
RegisterRoot ==
    /\ agent_tree[RootPath] = None
    /\ agent_tree' = [agent_tree EXCEPT ![RootPath] = RootThread]
    /\ UNCHANGED <<total_count, used_agent_nicknames, nickname_reset_count,
                   managerVars, spawnerVars, closerVars>>

(***************************************************************************)
(* reserve_spawn_slot.  A spawn names no thread, a resume names one that   *)
(* get_status reported NotFound.  With a limit the counter is loaded and   *)
(* then moved by a compare-exchange loop; without one it is incremented.   *)
(***************************************************************************)
ReserveSpawnSlot(p) ==
    /\ pc[p] = "idle"
    /\ \E t \in {None} \cup (Born \ running) :
          /\ thread' = [thread EXCEPT ![p] = t]
          /\ IF SpawnLimited \/ t # None
               THEN /\ current' = [current EXCEPT ![p] = total_count]
                    /\ GotoS(p, "cas")
                    /\ UNCHANGED total_count
               ELSE /\ total_count' = total_count + 1
                    /\ GotoS(p, "slot")
                    /\ UNCHANGED current
    /\ UNCHANGED <<agent_tree, used_agent_nicknames, nickname_reset_count,
                   managerVars, path, nick, closerVars>>

AtMostLimit(n) == n <= MaxThreads
BelowLimit(n) == n < MaxThreads

NeverMoved(p) == TRUE
CountUnmoved(p) == current[p] = total_count

TryIncrementSpawned(p) ==
    /\ pc[p] = "cas"
    /\ \/ /\ ~BelowLimit(current[p])
          /\ GotoS(p, "idle")
          /\ thread' = [thread EXCEPT ![p] = None]
          /\ current' = [current EXCEPT ![p] = 0]
          /\ UNCHANGED total_count
       \/ /\ BelowLimit(current[p])
          /\ CountUnmoved(p)
          /\ total_count' = current[p] + 1
          /\ current' = [current EXCEPT ![p] = 0]
          /\ GotoS(p, "slot")
          /\ UNCHANGED thread
       \/ /\ BelowLimit(current[p])
          /\ ~CountUnmoved(p)
          /\ current' = [current EXCEPT ![p] = total_count]
          /\ UNCHANGED <<total_count, pc, thread>>
    /\ UNCHANGED <<agent_tree, used_agent_nicknames, nickname_reset_count,
                   managerVars, path, nick, closerVars>>

(***************************************************************************)
(* reserve_agent_path: a placeholder is inserted unless the key is taken.  *)
(* A resumed thread asks for the path it was stored with.                  *)
(***************************************************************************)
WantedPaths(p) == IF thread[p] = None THEN Paths \cup {None} ELSE {home[thread[p]]}

NoAgentAt(k) == agent_tree[k] \notin Threads
Vacant(k) == agent_tree[k] = None

ReserveAgentPath(p) ==
    /\ pc[p] = "slot"
    /\ \E k \in WantedPaths(p) :
          \/ /\ k = None
             /\ GotoS(p, "path")
             /\ UNCHANGED <<agent_tree, path>>
          \/ /\ k # None
             /\ Vacant(k)
             /\ agent_tree' = [agent_tree EXCEPT ![k] = Reserved]
             /\ path' = [path EXCEPT ![p] = k]
             /\ GotoS(p, "path")
          \/ /\ k # None
             /\ ~Vacant(k)
             /\ GotoS(p, "drop")
             /\ UNCHANGED <<agent_tree, path>>
    /\ UNCHANGED <<total_count, used_agent_nicknames, nickname_reset_count,
                   managerVars, current, nick, thread, closerVars>>

(***************************************************************************)
(* reserve_agent_nickname: a name of the current generation that is not    *)
(* used, or, when the pool is exhausted, a name of the next generation.    *)
(***************************************************************************)
WholePool == Names \X {nickname_reset_count}
Available == {n \in Names \X {nickname_reset_count} : n \notin used_agent_nicknames}

ReserveAgentNickname(p) ==
    /\ pc[p] = "path"
    /\ \/ /\ thread[p] # None
          /\ nick' = [nick EXCEPT ![p] = nickname[thread[p]]]
          /\ used_agent_nicknames' = used_agent_nicknames \cup {nickname[thread[p]]}
          /\ UNCHANGED nickname_reset_count
       \/ /\ thread[p] = None
          /\ \E n \in Available :
                /\ nick' = [nick EXCEPT ![p] = n]
                /\ used_agent_nicknames' = used_agent_nicknames \cup {n}
          /\ UNCHANGED nickname_reset_count
       \/ /\ thread[p] = None
          /\ Available = {}
          /\ nickname_reset_count < MaxResets
          /\ nickname_reset_count' = nickname_reset_count + 1
          /\ \E n \in Names \X {nickname_reset_count + 1} :
                /\ nick' = [nick EXCEPT ![p] = n]
                /\ used_agent_nicknames' = {n}
    /\ GotoS(p, "named")
    /\ UNCHANGED <<total_count, agent_tree, managerVars, current, path, thread, closerVars>>

(***************************************************************************)
(* The thread manager.  A resume that finds the thread already running     *)
(* returns that thread; otherwise the session is built and inserted, and   *)
(* an id that was inserted in between is an error.  A spawn has a fresh id.*)
(***************************************************************************)
SpawnThreadWithSource(p) ==
    /\ pc[p] = "named"
    /\ IF thread[p] \in running THEN GotoS(p, "created") ELSE GotoS(p, "build")
    /\ UNCHANGED <<registryVars, managerVars, current, path, nick, thread, closerVars>>

FinalizeThreadSpawn(p) ==
    /\ pc[p] = "build"
    /\ \E t \in IF thread[p] = None THEN Threads \ (Born \cup {RootThread}) ELSE {thread[p]} :
          /\ t \notin running
          /\ running' = running \cup {t}
          /\ thread' = [thread EXCEPT ![p] = t]
          /\ home' = [home EXCEPT ![t] = path[p]]
          /\ nickname' = [nickname EXCEPT ![t] = nick[p]]
    /\ GotoS(p, "created")
    /\ UNCHANGED <<registryVars, current, path, nick, closerVars>>

(* Codex::spawn fails, or the thread is already running: `?` drops the reservation. *)
SpawnFails(p) ==
    /\ pc[p] = "build"
    /\ GotoS(p, "undo")
    /\ UNCHANGED <<registryVars, managerVars, current, path, nick, thread, closerVars>>

(***************************************************************************)
(* commit: the entry is inserted over whatever the key held, and the slot  *)
(* becomes the entry's.                                                    *)
(***************************************************************************)
Commit(p) ==
    /\ pc[p] = "created"
    /\ LET key == IF path[p] # None THEN path[p] ELSE thread[p]
       IN  agent_tree' = [agent_tree EXCEPT ![key] = thread[p]]
    /\ used_agent_nicknames' = used_agent_nicknames \cup {nick[p]}
    /\ GotoS(p, "idle")
    /\ path' = [path EXCEPT ![p] = None]
    /\ nick' = [nick EXCEPT ![p] = None]
    /\ thread' = [thread EXCEPT ![p] = None]
    /\ UNCHANGED <<total_count, nickname_reset_count, managerVars, current, closerVars>>

(***************************************************************************)
(* Drop of an uncommitted reservation: first the placeholder, under the    *)
(* mutex and only if it has no agent yet, then the slot.                   *)
(***************************************************************************)
ReleaseReservedAgentPath(p) ==
    /\ pc[p] = "undo"
    /\ agent_tree' = IF path[p] # None /\ agent_tree[path[p]] = Reserved
                       THEN [agent_tree EXCEPT ![path[p]] = None]
                       ELSE agent_tree
    /\ path' = [path EXCEPT ![p] = None]
    /\ GotoS(p, "drop")
    /\ UNCHANGED <<total_count, used_agent_nicknames, nickname_reset_count,
                   managerVars, current, nick, thread, closerVars>>

DropReservation(p) ==
    /\ pc[p] = "drop"
    /\ total_count' = total_count - 1
    /\ GotoS(p, "idle")
    /\ nick' = [nick EXCEPT ![p] = None]
    /\ thread' = [thread EXCEPT ![p] = None]
    /\ UNCHANGED <<agent_tree, used_agent_nicknames, nickname_reset_count,
                   managerVars, current, path, closerVars>>

(***************************************************************************)
(* shutdown_live_agent, and the cleanup after InternalAgentDied: the       *)
(* manager forgets the thread, then release_spawned_thread removes its     *)
(* entry and, outside the mutex, gives the slot back.                      *)
(***************************************************************************)
RemoveThread(c) ==
    /\ cpc[c] = "idle"
    /\ \E t \in Born \cup {RootThread} :
          /\ running' = running \ {t}
          /\ target' = [target EXCEPT ![c] = t]
    /\ cpc' = [cpc EXCEPT ![c] = "release"]
    /\ UNCHANGED <<registryVars, home, nickname, spawnerVars>>

EntriesOf(t) == {k \in Keys : agent_tree[k] = t}

CountsSlot(k) == k # RootPath

ReleaseSpawnedThread(c) ==
    /\ cpc[c] = "release"
    /\ \/ /\ EntriesOf(target[c]) = {}
          /\ cpc' = [cpc EXCEPT ![c] = "idle"]
          /\ UNCHANGED agent_tree
       \/ \E k \in EntriesOf(target[c]) :
             /\ agent_tree' = [agent_tree EXCEPT ![k] = None]
             /\ cpc' = [cpc EXCEPT ![c] = IF CountsSlot(k) THEN "sub" ELSE "idle"]
    /\ target' = [target EXCEPT ![c] = None]
    /\ UNCHANGED <<total_count, used_agent_nicknames, nickname_reset_count,
                   managerVars, spawnerVars>>

FetchSub(c) ==
    /\ cpc[c] = "sub"
    /\ total_count' = total_count - 1
    /\ cpc' = [cpc EXCEPT ![c] = "idle"]
    /\ UNCHANGED <<agent_tree, used_agent_nicknames, nickname_reset_count,
                   managerVars, spawnerVars, target>>

SpawnerStep(p) ==
    \/ ReserveSpawnSlot(p)          \/ TryIncrementSpawned(p)
    \/ ReserveAgentPath(p)          \/ ReserveAgentNickname(p)
    \/ SpawnThreadWithSource(p)     \/ FinalizeThreadSpawn(p)
    \/ SpawnFails(p)                \/ Commit(p)
    \/ ReleaseReservedAgentPath(p)  \/ DropReservation(p)

CloserStep(c) == RemoveThread(c) \/ ReleaseSpawnedThread(c) \/ FetchSub(c)

Next ==
    \/ RegisterRoot
    \/ \E p \in Spawners : SpawnerStep(p)
    \/ \E c \in Closers : CloserStep(c)

Spec == Init /\ [][Next]_vars

(***************************************************************************)
(* Properties.                                                             *)
(***************************************************************************)

(* Every reservation in flight, every registered agent and every release   *)
(* that has removed its entry but not yet subtracted is paid for in        *)
(* total_count: the counter never underflows and never lets in more agents *)
(* than it counts, whatever the order of commits, drops and releases.      *)
CountCovers ==
    Cardinality(Holders) + Cardinality(Counted) + Cardinality(Freeing) <= total_count

(* With a limit, the agents registered or being spawned never exceed       *)
(* agents.max_threads, although load, compare-exchange and tree update are *)
(* separate steps of concurrent spawns.                                    *)
LimitRespected ==
    SpawnLimited =>
        /\ total_count <= MaxThreads
        /\ Cardinality(Holders) + Cardinality(Counted) <= MaxThreads

(* A reserved path belongs to exactly one reservation, and that            *)
(* reservation still finds its own placeholder when it commits or drops:   *)
(* nobody else's commit, drop or release can take it away.                 *)
PathReservationExclusive ==
    /\ \A p \in Spawners : path[p] # None => agent_tree[path[p]] = Reserved
    /\ \A p, q \in Spawners : p # q /\ path[p] # None => path[p] # path[q]
    /\ \A k \in Keys : agent_tree[k] = Reserved => \E p \in Spawners : path[p] = k

(* Within one process no two agents ever get the same nickname, however    *)
(* often the pool is exhausted and reset and whoever is resumed meanwhile. *)
NicknamesDistinct ==
    /\ \A s, t \in Threads : s # t /\ nickname[s] # None => nickname[s] # nickname[t]
    /\ \A p, q \in Spawners :
          p # q /\ nick[p] # None /\ nick[p] = nick[q] => thread[p] = thread[q]
=============================================================================
