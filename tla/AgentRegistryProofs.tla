------------------------ MODULE AgentRegistryProofs ------------------------
(***************************************************************************)
(* Invariance proofs for AgentRegistry, for every number of spawners,      *)
(* closers, threads, paths and names and every limit.                      *)
(***************************************************************************)
EXTENDS AgentRegistry, FiniteSetTheorems, TLAPS

(* What the locals of a call hold at each of its program points. *)
Locals ==
    /\ \A p \in Spawners :
          /\ pc[p] \in {"idle", "cas", "slot", "drop"} => path[p] = None
          /\ pc[p] \in {"named", "build", "created"} => nick[p] \in Nicknames
          /\ (pc[p] \in {"cas", "slot", "path"} /\ thread[p] # None)
                => nickname[thread[p]] \in Nicknames
          /\ pc[p] = "created" => thread[p] \in Threads
    /\ \A c \in Closers : cpc[c] = "release" => target[c] \in Threads

Bounded == SpawnLimited => total_count <= MaxThreads

(* The inductive invariant. *)
IInv == TypeOK /\ Locals /\ CountCovers /\ Bounded /\ PathReservationExclusive

USE DEF GotoS

-----------------------------------------------------------------------------
(* The owners of slots are finite sets, so they can be counted. *)
LEMMA FiniteOwners ==
    /\ IsFiniteSet(Holders) /\ IsFiniteSet(Counted) /\ IsFiniteSet(Freeing)
    /\ Cardinality(Holders) \in Nat
    /\ Cardinality(Counted) \in Nat
    /\ Cardinality(Freeing) \in Nat
<1>1. IsFiniteSet(Paths \cup Threads)
  BY RegistryAssumption, FS_Union
<1>2. /\ Holders \in SUBSET Spawners
      /\ Counted \in SUBSET (Paths \cup Threads)
      /\ Freeing \in SUBSET Closers
  BY DEF Holders, Counted, Freeing
<1>3. IsFiniteSet(Holders) /\ IsFiniteSet(Counted) /\ IsFiniteSet(Freeing)
  BY <1>1, <1>2, RegistryAssumption, FS_Subset
<1> QED
  BY <1>3, FS_CardinalityType

(* A call that is about to subtract still owns a slot. *)
LEMMA SlotLeft ==
    ASSUME TypeOK, CountCovers,
           (\E p \in Spawners : pc[p] = "drop") \/ (\E c \in Closers : cpc[c] = "sub")
    PROVE  total_count - 1 \in Nat
<1>1. Holders # {} \/ Freeing # {}
  BY DEF Holders, Holding, Freeing
<1>2. Cardinality(Holders) # 0 \/ Cardinality(Freeing) # 0
  BY <1>1, FiniteOwners, FS_EmptySet
<1> QED
  BY <1>2, FiniteOwners DEF CountCovers, TypeOK

LEMMA TypeStep ==
    ASSUME TypeOK, Locals, CountCovers, Next PROVE TypeOK'
<1> USE RegistryAssumption, ReservedAssumption
<1>1. CASE RegisterRoot
  BY <1>1 DEF TypeOK, RegisterRoot, managerVars, spawnerVars, closerVars, Keys
<1>2. ASSUME NEW p \in Spawners, SpawnerStep(p) PROVE TypeOK'
  <2>1. CASE ReserveSpawnSlot(p)
    BY <2>1 DEF TypeOK, ReserveSpawnSlot, managerVars, closerVars, Holding, Born
  <2>2. CASE TryIncrementSpawned(p)
    BY <2>2 DEF TypeOK, TryIncrementSpawned, managerVars, closerVars, Holding, BelowLimit, CountUnmoved
  <2>3. CASE ReserveAgentPath(p)
    BY <2>3 DEF TypeOK, Locals, ReserveAgentPath, WantedPaths, Vacant, managerVars, closerVars, Holding, Keys
  <2>4. CASE ReserveAgentNickname(p)
    BY <2>4 DEF TypeOK, Locals, ReserveAgentNickname, Available, managerVars, closerVars, Holding, Nicknames
  <2>5. CASE SpawnThreadWithSource(p)
    BY <2>5 DEF TypeOK, SpawnThreadWithSource, registryVars, managerVars, closerVars, Holding
  <2>6. CASE FinalizeThreadSpawn(p)
    BY <2>6 DEF TypeOK, FinalizeThreadSpawn, registryVars, closerVars, Holding
  <2>7. CASE SpawnFails(p)
    BY <2>7 DEF TypeOK, SpawnFails, registryVars, managerVars, closerVars, Holding
  <2>8. CASE Commit(p)
    BY <2>8 DEF TypeOK, Locals, Commit, managerVars, closerVars, Holding, Keys
  <2>9. CASE ReleaseReservedAgentPath(p)
    BY <2>9 DEF TypeOK, ReleaseReservedAgentPath, managerVars, closerVars, Holding, Keys
  <2>10. CASE DropReservation(p)
    BY <2>10, SlotLeft DEF TypeOK, DropReservation, managerVars, closerVars, Holding
  <2> QED
    BY <1>2, <2>1, <2>2, <2>3, <2>4, <2>5, <2>6, <2>7, <2>8, <2>9, <2>10 DEF SpawnerStep
<1>3. ASSUME NEW c \in Closers, CloserStep(c) PROVE TypeOK'
  <2>1. CASE RemoveThread(c)
    BY <2>1 DEF TypeOK, RemoveThread, registryVars, spawnerVars, Born
  <2>2. CASE ReleaseSpawnedThread(c)
    BY <2>2 DEF TypeOK, ReleaseSpawnedThread, EntriesOf, CountsSlot, managerVars, spawnerVars
  <2>3. CASE FetchSub(c)
    BY <2>3, SlotLeft DEF TypeOK, FetchSub, managerVars, spawnerVars
  <2> QED
    BY <1>3, <2>1, <2>2, <2>3 DEF CloserStep
<1> QED
  BY <1>1, <1>2, <1>3 DEF Next

LEMMA LocalsStep ==
    ASSUME TypeOK, Locals, Next PROVE Locals'
<1> USE RegistryAssumption, ReservedAssumption
<1>1. CASE RegisterRoot
  BY <1>1 DEF Locals, RegisterRoot, managerVars, spawnerVars, closerVars
<1>2. ASSUME NEW p \in Spawners, SpawnerStep(p) PROVE Locals'
  <2>1. CASE ReserveSpawnSlot(p)
    BY <2>1 DEF TypeOK, Locals, ReserveSpawnSlot, managerVars, closerVars, Born
  <2>2. CASE TryIncrementSpawned(p)
    BY <2>2 DEF TypeOK, Locals, TryIncrementSpawned, managerVars, closerVars
  <2>3. CASE ReserveAgentPath(p)
    BY <2>3 DEF TypeOK, Locals, ReserveAgentPath, managerVars, closerVars
  <2>4. CASE ReserveAgentNickname(p)
    BY <2>4 DEF TypeOK, Locals, ReserveAgentNickname, Available, managerVars, closerVars, Nicknames
  <2>5. CASE SpawnThreadWithSource(p)
    BY <2>5 DEF TypeOK, Locals, SpawnThreadWithSource, registryVars, managerVars, closerVars
  <2>6. CASE FinalizeThreadSpawn(p)
    BY <2>6 DEF TypeOK, Locals, FinalizeThreadSpawn, registryVars, closerVars
  <2>7. CASE SpawnFails(p)
    BY <2>7 DEF TypeOK, Locals, SpawnFails, registryVars, managerVars, closerVars
  <2>8. CASE Commit(p)
    BY <2>8 DEF TypeOK, Locals, Commit, managerVars, closerVars
  <2>9. CASE ReleaseReservedAgentPath(p)
    BY <2>9 DEF TypeOK, Locals, ReleaseReservedAgentPath, managerVars, closerVars
  <2>10. CASE DropReservation(p)
    BY <2>10 DEF TypeOK, Locals, DropReservation, managerVars, closerVars
  <2> QED
    BY <1>2, <2>1, <2>2, <2>3, <2>4, <2>5, <2>6, <2>7, <2>8, <2>9, <2>10 DEF SpawnerStep
<1>3. ASSUME NEW c \in Closers, CloserStep(c) PROVE Locals'
  <2>1. CASE RemoveThread(c)
    BY <2>1 DEF TypeOK, Locals, RemoveThread, registryVars, spawnerVars, Born
  <2>2. CASE ReleaseSpawnedThread(c)
    BY <2>2 DEF TypeOK, Locals, ReleaseSpawnedThread, CountsSlot, managerVars, spawnerVars
  <2>3. CASE FetchSub(c)
    BY <2>3 DEF TypeOK, Locals, FetchSub, managerVars, spawnerVars
  <2> QED
    BY <1>3, <2>1, <2>2, <2>3 DEF CloserStep
<1> QED
  BY <1>1, <1>2, <1>3 DEF Next

-----------------------------------------------------------------------------
(* How the cardinality of an owner set moves when it changes by one. *)
LEMMA OneMore ==
    ASSUME NEW S, NEW T, NEW x, IsFiniteSet(S), T \subseteq S \cup {x}
    PROVE  Cardinality(T) <= Cardinality(S) + 1
<1>0. Cardinality(S) \in Nat
  BY FS_CardinalityType
<1>1. /\ IsFiniteSet(S \cup {x})
      /\ Cardinality(S \cup {x}) <= Cardinality(S) + 1
  <2>1. /\ IsFiniteSet(S \cup {x})
        /\ Cardinality(S \cup {x}) = IF x \in S THEN Cardinality(S) ELSE Cardinality(S) + 1
    BY FS_AddElement
  <2> QED
    BY <1>0, <2>1
<1>2. /\ Cardinality(T) <= Cardinality(S \cup {x})
      /\ IsFiniteSet(T)
  BY <1>1, FS_Subset
<1> QED
  BY <1>0, <1>1, <1>2, FS_CardinalityType

LEMMA OneLess ==
    ASSUME NEW S, NEW T, NEW x \in S, IsFiniteSet(S), T \subseteq S \ {x}
    PROVE  Cardinality(T) + 1 <= Cardinality(S)
<1>1. /\ IsFiniteSet(S \ {x})
      /\ Cardinality(S \ {x}) = Cardinality(S) - 1
  BY FS_RemoveElement
<1>2. /\ Cardinality(T) <= Cardinality(S \ {x})
      /\ IsFiniteSet(T)
  BY <1>1, FS_Subset
<1> QED
  BY <1>1, <1>2, FS_CardinalityType

LEMMA CountStep ==
    ASSUME TypeOK, TypeOK', Locals, CountCovers, Next PROVE CountCovers'
<1> USE RegistryAssumption, ReservedAssumption
<1>0. /\ IsFiniteSet(Holders) /\ IsFiniteSet(Counted) /\ IsFiniteSet(Freeing)
      /\ Cardinality(Holders) \in Nat
      /\ Cardinality(Counted) \in Nat
      /\ Cardinality(Freeing) \in Nat
  BY FiniteOwners
<1>1. ASSUME Holders' \subseteq Holders, Counted' \subseteq Counted, Freeing' \subseteq Freeing,
             total_count <= total_count'
      PROVE  CountCovers'
  <2>1. /\ Cardinality(Holders') <= Cardinality(Holders) /\ Cardinality(Holders') \in Nat
        /\ Cardinality(Counted') <= Cardinality(Counted) /\ Cardinality(Counted') \in Nat
        /\ Cardinality(Freeing') <= Cardinality(Freeing) /\ Cardinality(Freeing') \in Nat
    BY <1>0, <1>1, FS_Subset, FS_CardinalityType
  <2> QED
    BY <2>1, <1>0, <1>1 DEF CountCovers, TypeOK
<1>2. CASE RegisterRoot
  <2>1. Holders' = Holders /\ Counted' = Counted /\ Freeing' = Freeing /\ total_count' = total_count
    BY <1>2 DEF RegisterRoot, Holders, Counted, Freeing, spawnerVars, closerVars, TypeOK, Keys
  <2> QED
    BY <2>1, <1>1 DEF TypeOK
<1>3. ASSUME NEW p \in Spawners, SpawnerStep(p) PROVE CountCovers'
  <2>1. ASSUME pc[p] \notin Holding, Holders' \subseteq Holders \cup {p},
               Counted' = Counted, Freeing' = Freeing, total_count' = total_count + 1
        PROVE  CountCovers'
    <3>1. Cardinality(Holders') <= Cardinality(Holders) + 1
      BY <2>1, <1>0, OneMore
    <3>2. Cardinality(Holders') \in Nat
      BY <2>1, <1>0, FS_AddElement, FS_Subset, FS_CardinalityType
    <3> QED
      BY <3>1, <3>2, <2>1, <1>0 DEF CountCovers, TypeOK
  <2>2. CASE ReserveSpawnSlot(p)
    <3>1. CASE total_count' = total_count
      BY <2>2, <3>1, <1>1 DEF ReserveSpawnSlot, Holders, Holding, Counted, Freeing, closerVars, TypeOK
    <3>2. CASE total_count' = total_count + 1
      BY <2>2, <3>2, <2>1 DEF ReserveSpawnSlot, Holders, Holding, Counted, Freeing, closerVars, TypeOK
    <3> QED
      BY <2>2, <3>1, <3>2 DEF ReserveSpawnSlot
  <2>3. CASE TryIncrementSpawned(p)
    <3>1. CASE total_count' = total_count
      BY <2>3, <3>1, <1>1 DEF TryIncrementSpawned, CountUnmoved, Holders, Holding, Counted, Freeing, closerVars, TypeOK
    <3>2. CASE total_count' = total_count + 1
      BY <2>3, <3>2, <2>1 DEF TryIncrementSpawned, Holders, Holding, Counted, Freeing, closerVars, TypeOK
    <3> QED
      BY <2>3, <3>1, <3>2 DEF TryIncrementSpawned, CountUnmoved
  <2>4. CASE ReserveAgentPath(p)
    <3>1. Holders' \subseteq Holders
      BY <2>4 DEF ReserveAgentPath, Holders, Holding, TypeOK
    <3>2. Counted' \subseteq Counted /\ Freeing' = Freeing /\ total_count' = total_count
      BY <2>4 DEF ReserveAgentPath, WantedPaths, Counted, Freeing, closerVars, TypeOK, Keys
    <3> QED
      BY <3>1, <3>2, <1>1 DEF TypeOK
  <2>5. CASE ReserveAgentNickname(p)
    BY <2>5, <1>1 DEF ReserveAgentNickname, Holders, Holding, Counted, Freeing, closerVars, TypeOK
  <2>6. CASE SpawnThreadWithSource(p)
    BY <2>6, <1>1 DEF SpawnThreadWithSource, Holders, Holding, Counted, Freeing, closerVars, registryVars, TypeOK
  <2>7. CASE FinalizeThreadSpawn(p)
    BY <2>7, <1>1 DEF FinalizeThreadSpawn, Holders, Holding, Counted, Freeing, closerVars, registryVars, TypeOK
  <2>8. CASE SpawnFails(p)
    BY <2>8, <1>1 DEF SpawnFails, Holders, Holding, Counted, Freeing, closerVars, registryVars, TypeOK
  <2>9. CASE Commit(p)
    <3> DEFINE key == IF path[p] # None THEN path[p] ELSE thread[p]
    <3>1. p \in Holders /\ Holders' \subseteq Holders \ {p}
      BY <2>9 DEF Commit, Holders, Holding, TypeOK
    <3>2. Counted' \subseteq Counted \cup {key}
      BY <2>9 DEF Commit, Counted, TypeOK, Locals, Keys
    <3>3. Freeing' = Freeing /\ total_count' = total_count
      BY <2>9 DEF Commit, Freeing, closerVars
    <3>4. Cardinality(Holders') + 1 <= Cardinality(Holders)
      BY <3>1, <1>0, OneLess
    <3>5. Cardinality(Counted') <= Cardinality(Counted) + 1
      BY <3>2, <1>0, OneMore
    <3>6. Cardinality(Holders') \in Nat /\ Cardinality(Counted') \in Nat
      BY <3>1, <3>2, <1>0, FS_AddElement, FS_Subset, FS_CardinalityType
    <3> QED
      BY <3>3, <3>4, <3>5, <3>6, <1>0 DEF CountCovers, TypeOK
  <2>10. CASE ReleaseReservedAgentPath(p)
    <3>1. Holders' \subseteq Holders
      BY <2>10 DEF ReleaseReservedAgentPath, Holders, Holding, TypeOK
    <3>2. Counted' \subseteq Counted /\ Freeing' = Freeing /\ total_count' = total_count
      BY <2>10 DEF ReleaseReservedAgentPath, Counted, Freeing, closerVars, TypeOK, Keys
    <3> QED
      BY <3>1, <3>2, <1>1 DEF TypeOK
  <2>11. CASE DropReservation(p)
    <3>1. p \in Holders /\ Holders' \subseteq Holders \ {p}
      BY <2>11 DEF DropReservation, Holders, Holding, TypeOK
    <3>2. Counted' = Counted /\ Freeing' = Freeing /\ total_count' = total_count - 1
      BY <2>11 DEF DropReservation, Counted, Freeing, closerVars
    <3>3. Cardinality(Holders') + 1 <= Cardinality(Holders)
      BY <3>1, <1>0, OneLess
    <3>4. Cardinality(Holders') \in Nat
      BY <3>1, <1>0, FS_Subset, FS_CardinalityType
    <3> QED
      BY <3>2, <3>3, <3>4, <1>0 DEF CountCovers, TypeOK
  <2> QED
    BY <1>3, <2>2, <2>3, <2>4, <2>5, <2>6, <2>7, <2>8, <2>9, <2>10, <2>11 DEF SpawnerStep
<1>4. ASSUME NEW c \in Closers, CloserStep(c) PROVE CountCovers'
  <2>1. CASE RemoveThread(c)
    BY <2>1, <1>1 DEF RemoveThread, Holders, Counted, Freeing, registryVars, spawnerVars, TypeOK
  <2>2. CASE ReleaseSpawnedThread(c)
    <3>1. CASE EntriesOf(target[c]) = {} /\ UNCHANGED agent_tree /\ cpc' = [cpc EXCEPT ![c] = "idle"]
      BY <2>2, <3>1, <1>1 DEF ReleaseSpawnedThread, Holders, Counted, Freeing, managerVars, spawnerVars, TypeOK
    <3>2. ASSUME NEW k \in EntriesOf(target[c]),
                 agent_tree' = [agent_tree EXCEPT ![k] = None],
                 cpc' = [cpc EXCEPT ![c] = IF CountsSlot(k) THEN "sub" ELSE "idle"]
          PROVE  CountCovers'
      <4>1. Holders' = Holders /\ total_count' = total_count
        BY <2>2 DEF ReleaseSpawnedThread, Holders, spawnerVars
      <4>2. CASE k = RootPath
        <5>1. Counted' \subseteq Counted /\ Freeing' \subseteq Freeing
          BY <4>2, <3>2 DEF Counted, Freeing, CountsSlot, TypeOK, Keys, EntriesOf
        <5> QED
          BY <5>1, <4>1, <1>1 DEF TypeOK
      <4>3. CASE k # RootPath
        <5>1. k \in Counted /\ Counted' \subseteq Counted \ {k}
          BY <4>3, <3>2, <2>2 DEF ReleaseSpawnedThread, Locals, Counted, TypeOK, Keys, EntriesOf
        <5>2. Freeing' \subseteq Freeing \cup {c}
          BY <3>2 DEF Freeing, TypeOK
        <5>3. Cardinality(Counted') + 1 <= Cardinality(Counted)
          BY <5>1, <1>0, OneLess
        <5>4. Cardinality(Freeing') <= Cardinality(Freeing) + 1
          BY <5>2, <1>0, OneMore
        <5>5. Cardinality(Counted') \in Nat /\ Cardinality(Freeing') \in Nat
          BY <5>1, <5>2, <1>0, FS_AddElement, FS_Subset, FS_CardinalityType
        <5> QED
          BY <4>1, <5>3, <5>4, <5>5, <1>0 DEF CountCovers, TypeOK
      <4> QED
        BY <4>2, <4>3
    <3> QED
      BY <2>2, <3>1, <3>2 DEF ReleaseSpawnedThread
  <2>3. CASE FetchSub(c)
    <3>1. c \in Freeing /\ Freeing' \subseteq Freeing \ {c}
      BY <2>3 DEF FetchSub, Freeing, TypeOK
    <3>2. Counted' = Counted /\ Holders' = Holders /\ total_count' = total_count - 1
      BY <2>3 DEF FetchSub, Counted, Holders, spawnerVars
    <3>3. Cardinality(Freeing') + 1 <= Cardinality(Freeing)
      BY <3>1, <1>0, OneLess
    <3>4. Cardinality(Freeing') \in Nat
      BY <3>1, <1>0, FS_Subset, FS_CardinalityType
    <3> QED
      BY <3>2, <3>3, <3>4, <1>0 DEF CountCovers, TypeOK
  <2> QED
    BY <1>4, <2>1, <2>2, <2>3 DEF CloserStep
<1> QED
  BY <1>2, <1>3, <1>4 DEF Next

LEMMA BoundedStep ==
    ASSUME TypeOK, Bounded, Next PROVE Bounded'
<1> USE RegistryAssumption
<1>1. CASE RegisterRoot
  BY <1>1 DEF Bounded, RegisterRoot
<1>2. ASSUME NEW p \in Spawners, SpawnerStep(p) PROVE Bounded'
  BY <1>2 DEF SpawnerStep, TypeOK, Bounded, ReserveSpawnSlot, TryIncrementSpawned, BelowLimit,
     CountUnmoved, ReserveAgentPath, ReserveAgentNickname, SpawnThreadWithSource,
     FinalizeThreadSpawn, SpawnFails, Commit, ReleaseReservedAgentPath, DropReservation, registryVars
<1>3. ASSUME NEW c \in Closers, CloserStep(c) PROVE Bounded'
  BY <1>3 DEF CloserStep, TypeOK, Bounded, RemoveThread, ReleaseSpawnedThread, FetchSub, registryVars
<1> QED
  BY <1>1, <1>2, <1>3 DEF Next

-----------------------------------------------------------------------------
LEMMA PathStep ==
    ASSUME TypeOK, Locals, PathReservationExclusive, Next PROVE PathReservationExclusive'
<1> USE RegistryAssumption, ReservedAssumption
<1>0. ASSUME UNCHANGED <<agent_tree, path>> PROVE PathReservationExclusive'
  BY <1>0 DEF PathReservationExclusive
<1>1. CASE RegisterRoot
  BY <1>1 DEF RegisterRoot, PathReservationExclusive, spawnerVars, TypeOK, Keys
<1>2. ASSUME NEW p \in Spawners, SpawnerStep(p) PROVE PathReservationExclusive'
  <2>1. CASE ReserveSpawnSlot(p) \/ TryIncrementSpawned(p) \/ ReserveAgentNickname(p)
             \/ SpawnThreadWithSource(p) \/ FinalizeThreadSpawn(p) \/ SpawnFails(p)
             \/ DropReservation(p)
    BY <2>1, <1>0 DEF ReserveSpawnSlot, TryIncrementSpawned, ReserveAgentNickname,
       SpawnThreadWithSource, FinalizeThreadSpawn, SpawnFails, DropReservation, registryVars
  <2>2. CASE ReserveAgentPath(p)
    <3>1. CASE UNCHANGED <<agent_tree, path>>
      BY <3>1, <1>0
    <3>2. ASSUME NEW k \in WantedPaths(p), k # None, Vacant(k),
                 agent_tree' = [agent_tree EXCEPT ![k] = Reserved],
                 path' = [path EXCEPT ![p] = k]
          PROVE  PathReservationExclusive'
      <4>1. k \in Paths /\ path[p] = None
        BY <2>2, <3>2 DEF ReserveAgentPath, WantedPaths, Locals, TypeOK
      <4> QED
        BY <4>1, <3>2 DEF PathReservationExclusive, Vacant, TypeOK, Keys
    <3> QED
      BY <2>2, <3>1, <3>2 DEF ReserveAgentPath
  <2>3. CASE Commit(p)
    <3> DEFINE key == IF path[p] # None THEN path[p] ELSE thread[p]
    <3>1. /\ thread[p] \in Threads
          /\ agent_tree' = [agent_tree EXCEPT ![key] = thread[p]]
          /\ path' = [path EXCEPT ![p] = None]
      BY <2>3 DEF Commit, Locals
    <3>2. key \in Keys
      BY <3>1 DEF TypeOK, Keys
    <3>3. \A q \in Spawners : q # p /\ path[q] # None => path[q] # key
      BY <3>1 DEF PathReservationExclusive, TypeOK, Keys
    <3> HIDE DEF key
    <3>4. \A q \in Spawners : path'[q] # None => agent_tree'[path'[q]] = Reserved
      BY <3>1, <3>2, <3>3 DEF PathReservationExclusive, TypeOK, Keys
    <3>5. \A q, r \in Spawners : q # r /\ path'[q] # None => path'[q] # path'[r]
      BY <3>1 DEF PathReservationExclusive, TypeOK
    <3>6. \A k \in Keys : agent_tree'[k] = Reserved => \E q \in Spawners : path'[q] = k
      <4> SUFFICES ASSUME NEW k \in Keys, agent_tree'[k] = Reserved
                   PROVE  \E q \in Spawners : path'[q] = k
        OBVIOUS
      <4>1. k # key /\ agent_tree[k] = Reserved
        BY <3>1, <3>2 DEF TypeOK
      <4>2. PICK q \in Spawners : path[q] = k
        BY <4>1 DEF PathReservationExclusive
      <4>3. q # p
        BY <4>1, <4>2 DEF key, Keys
      <4> QED
        BY <4>2, <4>3, <3>1 DEF TypeOK
    <3> QED
      BY <3>4, <3>5, <3>6 DEF PathReservationExclusive
  <2>4. CASE ReleaseReservedAgentPath(p)
    BY <2>4 DEF ReleaseReservedAgentPath, PathReservationExclusive, TypeOK, Keys
  <2> QED
    BY <1>2, <2>1, <2>2, <2>3, <2>4 DEF SpawnerStep
<1>3. ASSUME NEW c \in Closers, CloserStep(c) PROVE PathReservationExclusive'
  <2>1. CASE RemoveThread(c) \/ FetchSub(c)
    BY <2>1, <1>0 DEF RemoveThread, FetchSub, registryVars, spawnerVars
  <2>2. CASE ReleaseSpawnedThread(c)
    BY <2>2 DEF ReleaseSpawnedThread, EntriesOf, Locals, PathReservationExclusive, spawnerVars, TypeOK, Keys
  <2> QED
    BY <1>3, <2>1, <2>2 DEF CloserStep
<1> QED
  BY <1>1, <1>2, <1>3 DEF Next

-----------------------------------------------------------------------------
(* The inductive invariant holds initially and is kept by every step. *)
THEOREM RegistryInvariant == Spec => []IInv
<1> USE RegistryAssumption, ReservedAssumption
<1>1. Init => IInv
  <2> SUFFICES ASSUME Init PROVE IInv
    OBVIOUS
  <2>1. TypeOK /\ Locals /\ Bounded /\ PathReservationExclusive
    BY DEF Init, TypeOK, Locals, Bounded, PathReservationExclusive, Keys, Holding
  <2>2. Holders = {} /\ Counted = {} /\ Freeing = {}
    BY DEF Init, Holders, Counted, Freeing, Holding, Keys
  <2>3. CountCovers
    BY <2>2, FS_EmptySet DEF CountCovers, Init
  <2> QED
    BY <2>1, <2>3 DEF IInv
<1>2. IInv /\ [Next]_vars => IInv'
  <2> SUFFICES ASSUME IInv, [Next]_vars PROVE IInv'
    OBVIOUS
  <2>1. CASE Next
    <3>1. TypeOK' /\ Locals' /\ Bounded' /\ PathReservationExclusive'
      BY <2>1, TypeStep, LocalsStep, BoundedStep, PathStep DEF IInv
    <3> QED
      BY <2>1, <3>1, CountStep DEF IInv
  <2>2. CASE UNCHANGED vars
    BY <2>2 DEF IInv, vars, registryVars, managerVars, spawnerVars, closerVars, TypeOK, Locals,
       Bounded, PathReservationExclusive, CountCovers, Holders, Counted, Freeing
  <2> QED
    BY <2>1, <2>2
<1> QED
  BY <1>1, <1>2, PTL DEF Spec

(* Every variable keeps its type; in particular total_count, an AtomicUsize, *)
(* is never decremented below zero.                                          *)
THEOREM RegistryTypeCorrect == Spec => []TypeOK
BY RegistryInvariant, PTL DEF IInv

(* total_count pays for every reservation, registered agent and pending release. *)
THEOREM CountCoversHolds == Spec => []CountCovers
BY RegistryInvariant, PTL DEF IInv

(* The thread limit holds in every interleaving of spawns, resumes and closes. *)
THEOREM LimitRespectedHolds == Spec => []LimitRespected
<1>1. IInv => LimitRespected
  <2> SUFFICES ASSUME IInv, SpawnLimited PROVE total_count <= MaxThreads
                        /\ Cardinality(Holders) + Cardinality(Counted) <= MaxThreads
    BY DEF LimitRespected
  <2> QED
    BY FiniteOwners, RegistryAssumption DEF IInv, Bounded, CountCovers, TypeOK
<1> QED
  BY <1>1, RegistryInvariant, PTL

(* A reserved path has one owner, and keeps it until that owner commits or drops. *)
THEOREM PathReservationExclusiveHolds == Spec => []PathReservationExclusive
BY RegistryInvariant, PTL DEF IInv

-----------------------------------------------------------------------------
(* A nickname that no later reservation can hand out again: of an earlier  *)
(* generation of the pool, or marked as used in the current one.           *)
Spent(n) ==
    /\ n[2] <= nickname_reset_count
    /\ n[2] = nickname_reset_count => n \in used_agent_nicknames

(* Every nickname an agent or a reservation has is spent; a reservation    *)
(* for a thread has that thread's nickname; one for a thread still to be   *)
(* created has a nickname that nobody else has.                            *)
NicknamesSpent ==
    /\ \A t \in Threads : nickname[t] # None => Spent(nickname[t])
    /\ \A p \in Spawners : nick[p] # None => Spent(nick[p])
NickOfThread ==
    \A p \in Spawners :
       /\ pc[p] \in {"idle", "cas", "slot", "path"} => nick[p] = None
       /\ thread[p] # None /\ nick[p] # None => nick[p] = nickname[thread[p]]
NickIsFresh ==
    /\ \A p \in Spawners, t \in Threads :
          thread[p] = None /\ nick[p] # None => nickname[t] # nick[p]
    /\ \A p, q \in Spawners :
          p # q /\ thread[p] = None /\ thread[q] = None /\ nick[p] # None => nick[p] # nick[q]
    /\ \A s, t \in Threads : s # t /\ nickname[s] # None => nickname[s] # nickname[t]
NickInv == NicknamesSpent /\ NickOfThread /\ NickIsFresh

(* The steps that hand out a nickname, give one to a thread, or forget one; *)
(* the others leave the nicknames alone.                                    *)
NicksKept ==
    UNCHANGED <<used_agent_nicknames, nickname_reset_count, nickname, nick>>

LEMMA NickSpent ==
    ASSUME TypeOK, Locals, NickInv, Next PROVE NicknamesSpent'
<1> USE RegistryAssumption, ReservedAssumption
<1>0. ASSUME NicksKept PROVE NicknamesSpent'
  BY <1>0 DEF NicksKept, NickInv, NicknamesSpent, Spent
<1>1. CASE RegisterRoot
  BY <1>1, <1>0 DEF RegisterRoot, NicksKept, managerVars, spawnerVars
<1>2. ASSUME NEW p \in Spawners, SpawnerStep(p) PROVE NicknamesSpent'
  <2>1. CASE ReserveSpawnSlot(p) \/ TryIncrementSpawned(p) \/ ReserveAgentPath(p)
             \/ SpawnThreadWithSource(p) \/ SpawnFails(p) \/ ReleaseReservedAgentPath(p)
    BY <2>1, <1>0 DEF NicksKept, ReserveSpawnSlot, TryIncrementSpawned, ReserveAgentPath,
       SpawnThreadWithSource, SpawnFails, ReleaseReservedAgentPath, registryVars, managerVars
  <2>2. CASE ReserveAgentNickname(p)
    <3>0. /\ nickname' = nickname /\ nickname_reset_count \in Int
          /\ nick \in [Spawners -> Nicknames \cup {None}]
          /\ nickname \in [Threads -> Nicknames \cup {None}]
      BY <2>2 DEF ReserveAgentNickname, managerVars, TypeOK
    <3>1. ASSUME thread[p] # None, nick' = [nick EXCEPT ![p] = nickname[thread[p]]],
                 used_agent_nicknames' = used_agent_nicknames \cup {nickname[thread[p]]},
                 nickname_reset_count' = nickname_reset_count
          PROVE  NicknamesSpent'
      <4>1. thread[p] \in Threads
        BY <3>1 DEF TypeOK
      <4> QED
        BY <3>0, <3>1, <4>1 DEF NickInv, NicknamesSpent, Spent
    <3>2. ASSUME NEW n \in Available, nick' = [nick EXCEPT ![p] = n],
                 used_agent_nicknames' = used_agent_nicknames \cup {n},
                 nickname_reset_count' = nickname_reset_count
          PROVE  NicknamesSpent'
      BY <3>0, <3>2 DEF NickInv, NicknamesSpent, Spent, Available
    <3>3. ASSUME NEW n \in Names \X {nickname_reset_count + 1},
                 nick' = [nick EXCEPT ![p] = n], used_agent_nicknames' = {n},
                 nickname_reset_count' = nickname_reset_count + 1
          PROVE  NicknamesSpent'
      BY <3>0, <3>3 DEF NickInv, NicknamesSpent, Spent, Nicknames
    <3> QED
      BY <2>2, <3>1, <3>2, <3>3 DEF ReserveAgentNickname
  <2>3. CASE FinalizeThreadSpawn(p)
    BY <2>3 DEF FinalizeThreadSpawn, NickInv, NicknamesSpent, Spent, registryVars, TypeOK
  <2>4. CASE Commit(p)
    BY <2>4 DEF Commit, NickInv, NicknamesSpent, Spent, managerVars, TypeOK
  <2>5. CASE DropReservation(p)
    BY <2>5 DEF DropReservation, NickInv, NicknamesSpent, Spent, managerVars, TypeOK
  <2> QED
    BY <1>2, <2>1, <2>2, <2>3, <2>4, <2>5 DEF SpawnerStep
<1>3. ASSUME NEW c \in Closers, CloserStep(c) PROVE NicknamesSpent'
  BY <1>3, <1>0 DEF CloserStep, RemoveThread, ReleaseSpawnedThread, FetchSub, NicksKept,
     registryVars, managerVars, spawnerVars
<1> QED
  BY <1>1, <1>2, <1>3 DEF Next

(* A nickname that is not spent belongs to nobody. *)
LEMMA UnspentIsUnknown ==
    ASSUME TypeOK, NickInv, NEW n, ~Spent(n), n # None
    PROVE  /\ \A t \in Threads : nickname[t] # n
           /\ \A q \in Spawners : nick[q] # n
BY DEF NickInv, NicknamesSpent

LEMMA NickThreadStep ==
    ASSUME TypeOK, Locals, NickInv, Next PROVE NickOfThread'
<1> USE RegistryAssumption, ReservedAssumption DEF NickInv
<1>1. CASE RegisterRoot
  BY <1>1 DEF RegisterRoot, NickOfThread, managerVars, spawnerVars
<1>2. ASSUME NEW p \in Spawners, SpawnerStep(p) PROVE NickOfThread'
  <2>1. CASE ReserveSpawnSlot(p)
    BY <2>1 DEF ReserveSpawnSlot, NickOfThread, managerVars, TypeOK
  <2>2. CASE TryIncrementSpawned(p)
    BY <2>2 DEF TryIncrementSpawned, NickOfThread, managerVars, TypeOK
  <2>3. CASE ReserveAgentPath(p)
    BY <2>3 DEF ReserveAgentPath, NickOfThread, managerVars, TypeOK
  <2>4. CASE ReserveAgentNickname(p)
    BY <2>4 DEF ReserveAgentNickname, NickOfThread, managerVars, TypeOK
  <2>5. CASE SpawnThreadWithSource(p) \/ SpawnFails(p) \/ ReleaseReservedAgentPath(p)
    BY <2>5 DEF SpawnThreadWithSource, SpawnFails, ReleaseReservedAgentPath, NickOfThread,
       registryVars, managerVars, TypeOK
  <2>6. CASE FinalizeThreadSpawn(p)
    <3>1. PICK t \in Threads :
             /\ IF thread[p] = None THEN t \notin Born ELSE t = thread[p]
             /\ thread' = [thread EXCEPT ![p] = t]
             /\ nickname' = [nickname EXCEPT ![t] = nick[p]]
      BY <2>6 DEF FinalizeThreadSpawn, TypeOK
    <3>2. pc' = [pc EXCEPT ![p] = "created"] /\ nick' = nick /\ nick[p] # None
      BY <2>6, NicknameAssumption DEF FinalizeThreadSpawn, Locals
    <3>3. thread[p] = None => nickname[t] = None
      BY <3>1 DEF Born
    <3> QED
      BY <3>1, <3>2, <3>3 DEF NickOfThread, TypeOK
  <2>7. CASE Commit(p) \/ DropReservation(p)
    BY <2>7 DEF Commit, DropReservation, NickOfThread, managerVars, TypeOK
  <2> QED
    BY <1>2, <2>1, <2>2, <2>3, <2>4, <2>5, <2>6, <2>7 DEF SpawnerStep
<1>3. ASSUME NEW c \in Closers, CloserStep(c) PROVE NickOfThread'
  BY <1>3 DEF CloserStep, RemoveThread, ReleaseSpawnedThread, FetchSub, NickOfThread,
     managerVars, spawnerVars
<1> QED
  BY <1>1, <1>2, <1>3 DEF Next

LEMMA NickFreshStep ==
    ASSUME TypeOK, Locals, NickInv, Next PROVE NickIsFresh'
<1> USE RegistryAssumption, ReservedAssumption
<1>0. ASSUME UNCHANGED <<nickname, nick, thread>> PROVE NickIsFresh'
  BY <1>0 DEF NickInv, NickIsFresh
<1>1. CASE RegisterRoot
  BY <1>1, <1>0 DEF RegisterRoot, managerVars, spawnerVars
<1>2. ASSUME NEW p \in Spawners, SpawnerStep(p) PROVE NickIsFresh'
  <2>0. ASSUME nickname' = nickname, nick'[p] = None,
               \A q \in Spawners \ {p} : nick'[q] = nick[q] /\ thread'[q] = thread[q]
        PROVE  NickIsFresh'
    BY <2>0 DEF NickInv, NickIsFresh
  <2>1. CASE ReserveSpawnSlot(p) \/ TryIncrementSpawned(p)
    BY <2>1, <2>0 DEF ReserveSpawnSlot, TryIncrementSpawned, NickInv, NickOfThread, managerVars, TypeOK
  <2>2. CASE ReserveAgentPath(p) \/ SpawnThreadWithSource(p) \/ SpawnFails(p)
             \/ ReleaseReservedAgentPath(p)
    BY <2>2, <1>0 DEF ReserveAgentPath, SpawnThreadWithSource, SpawnFails,
       ReleaseReservedAgentPath, managerVars
  <2>3. CASE ReserveAgentNickname(p)
    <3>0. /\ nickname' = nickname /\ thread' = thread
          /\ nick \in [Spawners -> Nicknames \cup {None}]
      BY <2>3 DEF ReserveAgentNickname, managerVars, TypeOK
    <3>1. ASSUME thread[p] # None, NEW n, nick' = [nick EXCEPT ![p] = n]
          PROVE  NickIsFresh'
      BY <3>0, <3>1 DEF NickInv, NickIsFresh
    <3>2. ASSUME NEW n, ~Spent(n), nick' = [nick EXCEPT ![p] = n]
          PROVE  NickIsFresh'
      <4>1. CASE n = None
        BY <2>0, <3>0, <3>2, <4>1
      <4>2. CASE n # None
        <5>1. /\ \A t \in Threads : nickname[t] # n
              /\ \A q \in Spawners : nick[q] # n
          BY <3>2, <4>2, UnspentIsUnknown
        <5> QED
          BY <3>0, <3>2, <5>1 DEF NickInv, NickIsFresh
      <4> QED
        BY <4>1, <4>2
    <3>3. ASSUME NEW n \in Available PROVE ~Spent(n)
      BY <3>3 DEF Available, Spent
    <3>4. ASSUME NEW n \in Names \X {nickname_reset_count + 1} PROVE ~Spent(n)
      BY <3>4 DEF Spent, TypeOK
    <3> QED
      BY <2>3, <3>1, <3>2, <3>3, <3>4 DEF ReserveAgentNickname
  <2>4. CASE FinalizeThreadSpawn(p)
    <3>1. PICK t \in Threads :
             /\ IF thread[p] = None THEN t \notin Born ELSE t = thread[p]
             /\ thread' = [thread EXCEPT ![p] = t]
             /\ nickname' = [nickname EXCEPT ![t] = nick[p]]
      BY <2>4 DEF FinalizeThreadSpawn, TypeOK
    <3>2. nick' = nick /\ nick[p] # None
      BY <2>4, NicknameAssumption DEF FinalizeThreadSpawn, Locals
    <3>3. thread[p] = None => nickname[t] = None
      BY <3>1 DEF Born
    <3>4. CASE thread[p] = None
      BY <3>1, <3>2, <3>3, <3>4 DEF NickInv, NickIsFresh, TypeOK
    <3>5. CASE thread[p] # None
      <4>1. nick[p] = nickname[t]
        BY <3>1, <3>2, <3>5 DEF NickInv, NickOfThread
      <4> QED
        BY <3>1, <3>2, <3>5, <4>1 DEF NickInv, NickIsFresh, TypeOK
    <3> QED
      BY <3>4, <3>5
  <2>5. CASE Commit(p) \/ DropReservation(p)
    BY <2>5, <2>0 DEF Commit, DropReservation, managerVars, TypeOK
  <2> QED
    BY <1>2, <2>1, <2>2, <2>3, <2>4, <2>5 DEF SpawnerStep
<1>3. ASSUME NEW c \in Closers, CloserStep(c) PROVE NickIsFresh'
  BY <1>3, <1>0 DEF CloserStep, RemoveThread, ReleaseSpawnedThread, FetchSub,
     managerVars, spawnerVars
<1> QED
  BY <1>1, <1>2, <1>3 DEF Next

(* Who has which nickname: no two agents of the process, and no agent and  *)
(* no reservation for another one, ever have the same nickname.            *)
THEOREM NicknamesDistinctHolds == Spec => []NicknamesDistinct
<1>1. Init => NickInv
  <2> SUFFICES ASSUME Init PROVE NickInv
    OBVIOUS
  <2> QED
    BY DEF Init, NickInv, NicknamesSpent, NickOfThread, NickIsFresh
<1>2. IInv /\ NickInv /\ [Next]_vars => NickInv'
  <2> SUFFICES ASSUME IInv, NickInv, [Next]_vars PROVE NickInv'
    OBVIOUS
  <2>1. CASE Next
    BY <2>1, NickSpent, NickThreadStep, NickFreshStep DEF IInv, NickInv
  <2>2. CASE UNCHANGED vars
    BY <2>2 DEF NickInv, NicknamesSpent, Spent, NickOfThread, NickIsFresh,
       vars, registryVars, managerVars, spawnerVars
  <2> QED
    BY <2>1, <2>2
<1>3. IInv /\ NickInv => NicknamesDistinct
  <2> SUFFICES ASSUME IInv, NickInv PROVE NicknamesDistinct
    OBVIOUS
  <2> QED
    BY DEF IInv, TypeOK, NickInv, NickOfThread, NickIsFresh, NicknamesDistinct
<1> QED
  BY <1>1, <1>2, <1>3, RegistryInvariant, PTL DEF Spec
=============================================================================
