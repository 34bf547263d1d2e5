------------------------ MODULE AgentResidencyProofs ------------------------
(***************************************************************************)
(* Invariance proofs for AgentResidency, for every set of actors and       *)
(* agents, every capacity and every bound.                                 *)
(***************************************************************************)
EXTENDS AgentResidency, SequenceTheorems, FiniteSetTheorems, WellFoundedInduction, TLAPS

Holders == {"resume", "create", "insert", "duplicate", "commit", "resumeFailed"}
Evicting == {"look", "check", "shutdown", "terminated"}
Places == Holders \cup Evicting \cup
          {"idle", "lookup", "touch", "reserve", "count", "pop", "capacity", "send", "died", "forget"}

(* No element occurs twice. *)
Distinct(s) == \A j, k \in DOMAIN s : s[j] = s[k] => j = k

Types ==
    /\ residents \in Seq(Agents) /\ Distinct(residents) /\ pending_slots \in Nat
    /\ threads \in [Agents -> 0 .. MaxLoads] /\ store \in [Agents -> 0 .. MaxLoads]
    /\ loads \in [Agents -> 0 .. MaxLoads]
    /\ known \subseteq Agents /\ running \subseteq Instances
    /\ status \in [Instances -> {"init", "active", "done"}] /\ active \in Nat
    /\ pc \in [Actors -> Places] /\ slot \in [Actors -> BOOLEAN]
    /\ target \in [Actors -> Agents \cup {None}] /\ cand \in [Actors -> Agents \cup {None}]
    /\ inst \in [Actors -> 0 .. MaxLoads]

(* Where a call is tells what it holds: a slot from its reservation until   *)
(* it commits or drops it, a candidate only while it evicts one.            *)
CallsAgree ==
    \A x \in Actors :
        /\ pc[x] # "idle" => target[x] \in Agents
        /\ slot[x] <=> pc[x] \in Holders
        /\ cand[x] # None <=> pc[x] \in Evicting

(* The store's live writer is the instance that runs. *)
WriterRuns == \A a \in Agents, g \in Gens : <<a, g>> \in running => store[a] = g

(* The inductive invariant. *)
IInv == Types /\ CallsAgree /\ WriterRuns /\ CountersExact /\ LoadedIsTracked

-----------------------------------------------------------------------------
(* A non-empty set of naturals has a least element. *)
LEMMA LeastNat ==
    ASSUME NEW T, T \subseteq Nat, T # {}
    PROVE  \E x \in T : \A y \in T : x <= y
<1> DEFINE R == OpToRel(<, Nat)
<1>1. IsWellFoundedOn(R, Nat)
  BY NatLessThanWellFounded
<1>2. \A x, y \in Nat : x < y => <<x, y>> \in R
  BY DEF OpToRel
<1> HIDE DEF R
<1>3. PICK x \in T : \A y \in T : ~ (<<y, x>> \in R)
  BY <1>1, WFMin
<1>4. ASSUME NEW y \in T PROVE x <= y
  <2>1. x \in Nat /\ y \in Nat /\ ~(y < x)
    BY <1>2, <1>3
  <2> QED
    BY <2>1
<1> QED
  BY <1>4

(* The prefixes that Without builds exist: of the lengths without one, the  *)
(* least would extend the one before it.                                    *)
Keeps(f, s, a, n) ==
    f = [k \in 0 .. n |-> IF k = 0 THEN <<>>
                          ELSE IF s[k] = a THEN f[k - 1] ELSE Append(f[k - 1], s[k])]

LEMMA KeptExists ==
    ASSUME NEW s, NEW a, NEW m \in Nat PROVE \E f : Keeps(f, s, a, m)
<1> DEFINE Bad == {n \in Nat : ~\E f : Keeps(f, s, a, n)}
<1>1. SUFFICES ASSUME Bad # {} PROVE FALSE
  OBVIOUS
<1>2. PICK n \in Bad : \A k \in Bad : n <= k
  BY <1>1, LeastNat
<1>3. CASE n = 0
  <2>1. Keeps([k \in 0 .. 0 |-> <<>>], s, a, 0)
    BY DEF Keeps
  <2> QED
    BY <1>2, <1>3, <2>1
<1>4. CASE n # 0
  <2>1. n - 1 \in Nat /\ n - 1 \notin Bad
    BY <1>2, <1>4
  <2>2. PICK f : Keeps(f, s, a, n - 1)
    BY <2>1
  <2> DEFINE last == IF s[n] = a THEN f[n - 1] ELSE Append(f[n - 1], s[n])
             g == [k \in 0 .. n |-> IF k = n THEN last ELSE f[k]]
  <2>3. \A k \in 0 .. n : g[k] = IF k = n THEN last ELSE f[k]
    OBVIOUS
  <2>4. /\ \A k \in 0 .. n : k # 0 => k - 1 \in 0 .. n /\ k - 1 # n
        /\ \A k \in 0 .. n : k # n => k \in 0 .. (n - 1)
    BY <2>1
  <2>5. \A k \in 0 .. (n - 1) :
           f[k] = IF k = 0 THEN <<>> ELSE IF s[k] = a THEN f[k - 1] ELSE Append(f[k - 1], s[k])
    BY <2>2 DEF Keeps
  <2> HIDE DEF g
  <2>6. \A k \in 0 .. n :
           g[k] = IF k = 0 THEN <<>> ELSE IF s[k] = a THEN g[k - 1] ELSE Append(g[k - 1], s[k])
    BY <1>4, <2>3, <2>4, <2>5
  <2>7. g = [k \in 0 .. n |-> g[k]]
    BY DEF g
  <2>8. Keeps(g, s, a, n)
    BY <2>6, <2>7 DEF Keeps
  <2> QED
    BY <1>2, <2>8
<1> QED
  BY <1>3, <1>4

(* What the steps on the queue leave in it. *)
LEMMA AppendOf ==
    ASSUME NEW S, NEW s \in Seq(S), NEW e \in S
    PROVE  /\ Append(s, e) \in Seq(S)
           /\ ToSet(Append(s, e)) = ToSet(s) \cup {e}
           /\ Distinct(s) /\ e \notin ToSet(s) => Distinct(Append(s, e))
<1>1. Len(s) \in Nat /\ DOMAIN s = 1..Len(s)
  BY LenProperties
<1>2. /\ Append(s, e) \in Seq(S)
      /\ Len(Append(s, e)) = Len(s) + 1
      /\ \A i \in 1..Len(s) : Append(s, e)[i] = s[i]
      /\ Append(s, e)[Len(s) + 1] = e
  BY AppendProperties
<1>3. DOMAIN Append(s, e) = DOMAIN s \cup {Len(s) + 1}
  BY <1>1, <1>2, LenProperties
<1>4. /\ \A i \in DOMAIN s : Append(s, e)[i] = s[i]
      /\ Append(s, e)[Len(s) + 1] = e
  BY <1>1, <1>2
<1>5. ToSet(Append(s, e)) = ToSet(s) \cup {e}
  BY <1>3, <1>4 DEF ToSet
<1>6. Distinct(s) /\ e \notin ToSet(s) => Distinct(Append(s, e))
  BY <1>3, <1>4 DEF Distinct, ToSet
<1> QED
  BY <1>2, <1>5, <1>6

LEMMA WithoutLeaves ==
    ASSUME NEW S, NEW s \in Seq(S), NEW a
    PROVE  /\ Without(s, a) \in Seq(S)
           /\ ToSet(Without(s, a)) = ToSet(s) \ {a}
           /\ Distinct(s) => Distinct(Without(s, a))
<1>0. Len(s) \in Nat /\ DOMAIN s = 1..Len(s) /\ \A k \in DOMAIN s : s[k] \in S
  BY LenProperties, ElementOfSeq
<1> DEFINE n == Len(s)
           f == CHOOSE g : Keeps(g, s, a, n)
<1>1. Keeps(f, s, a, n)
  BY <1>0, KeptExists
<1>2. Without(s, a) = f[n]
  BY DEF Without, Keeps
<1> HIDE DEF f
<1>3. \A k \in 0 .. n :
         f[k] = IF k = 0 THEN <<>> ELSE IF s[k] = a THEN f[k - 1] ELSE Append(f[k - 1], s[k])
  BY <1>1 DEF Keeps
<1> DEFINE First(k) == {s[j] : j \in 1..k}
           Good(k) == /\ f[k] \in Seq(S)
                      /\ ToSet(f[k]) = First(k) \ {a}
                      /\ Distinct(s) => Distinct(f[k])
           Bad == {k \in 0 .. n : ~Good(k)}
<1>4. SUFFICES Bad = {}
  <2>1. n \in 0 .. n /\ First(n) = ToSet(s)
    BY <1>0 DEF ToSet
  <2> QED
    BY <1>2, <1>4, <2>1
<1>5. SUFFICES ASSUME Bad # {} PROVE FALSE
  OBVIOUS
<1> HIDE DEF Good
<1>a. Bad \subseteq Nat /\ Bad \subseteq 0 .. n
  BY <1>0
<1>b. PICK k \in Bad : \A j \in Bad : k <= j
  <2> HIDE DEF Bad
  <2> QED
    BY <1>5, <1>a, LeastNat
<1>6. k \in 0 .. n /\ ~Good(k) /\ \A j \in 0 .. n : j < k => Good(j)
  BY <1>0, <1>b
<1> HIDE DEF Bad
<1>7. CASE k = 0
  <2>1. f[0] = <<>> /\ DOMAIN f[0] = {}
    BY <1>0, <1>3
  <2>2. First(0) = {}
    OBVIOUS
  <2>3. ToSet(f[0]) = {} /\ Distinct(f[0]) /\ f[0] \in Seq(S)
    BY <2>1 DEF ToSet, Distinct
  <2>4. Good(0)
    BY <2>2, <2>3 DEF Good
  <2> QED
    BY <1>6, <1>7, <2>4
<1>8. CASE k # 0
  <2>1. k \in 1 .. n /\ k - 1 \in 0 .. n /\ k - 1 < k
    BY <1>0, <1>6, <1>8
  <2>2. Good(k - 1)
    BY <1>6, <2>1
  <2> USE DEF Good
  <2>3. First(k) = First(k - 1) \cup {s[k]}
    <3>1. \A j : j \in 1..k <=> j \in 1..(k - 1) \/ j = k
      BY <1>0, <2>1
    <3> QED
      BY <3>1
  <2>4. Distinct(s) => s[k] \notin First(k - 1)
    <3>1. \A j \in 1..(k - 1) : j \in DOMAIN s /\ j # k
      BY <1>0, <2>1
    <3>2. k \in DOMAIN s
      BY <1>0, <2>1
    <3> QED
      BY <3>1, <3>2 DEF Distinct
  <2>5. CASE s[k] = a
    <3>1. f[k] = f[k - 1]
      BY <1>3, <1>8, <2>1, <2>5
    <3>2. First(k) \ {a} = First(k - 1) \ {a}
      BY <2>3, <2>5
    <3> HIDE DEF First
    <3> QED
      BY <1>6, <2>2, <3>1, <3>2
  <2>6. CASE s[k] # a
    <3>0. k \in DOMAIN s
      BY <1>0, <2>1
    <3>1. f[k] = Append(f[k - 1], s[k]) /\ s[k] \in S
      BY <1>0, <1>3, <1>6, <1>8, <2>6, <3>0
    <3>2. First(k) \ {a} = (First(k - 1) \ {a}) \cup {s[k]}
      BY <2>3, <2>6
    <3> HIDE DEF First
    <3>3. /\ f[k] \in Seq(S)
          /\ ToSet(f[k]) = ToSet(f[k - 1]) \cup {s[k]}
          /\ Distinct(f[k - 1]) /\ s[k] \notin ToSet(f[k - 1]) => Distinct(f[k])
      BY <2>2, <3>1, AppendOf
    <3>4. Distinct(s) => Distinct(f[k])
      BY <2>2, <2>4, <3>3
    <3> QED
      BY <1>6, <2>2, <3>2, <3>3, <3>4
  <2> QED
    BY <2>5, <2>6
<1> QED
  BY <1>7, <1>8

(* Touching an agent keeps everybody in the queue, once. *)
LEMMA TouchedKeeps ==
    ASSUME residents \in Seq(Agents), Distinct(residents), NEW a \in Agents
    PROVE  /\ Touched(a) \in Seq(Agents) /\ Distinct(Touched(a))
           /\ ToSet(Touched(a)) = ToSet(residents) \cup {a}
<1>1. /\ Without(residents, a) \in Seq(Agents)
      /\ ToSet(Without(residents, a)) = ToSet(residents) \ {a}
      /\ Distinct(Without(residents, a))
  BY WithoutLeaves
<1> QED
  BY <1>1, AppendOf DEF Touched

(* Popping the k-th rotates the ones before it to the back. *)
Rotated(s, k) == SubSeq(s, k + 1, Len(s)) \o SubSeq(s, 1, k - 1)

LEMMA RotatedKeeps ==
    ASSUME NEW S, NEW s \in Seq(S), NEW k \in DOMAIN s
    PROVE  /\ Rotated(s, k) \in Seq(S)
           /\ \A j \in DOMAIN s : j # k => s[j] \in ToSet(Rotated(s, k))
           /\ Distinct(s) => Distinct(Rotated(s, k))
<1>0. Len(s) \in Nat /\ DOMAIN s = 1..Len(s) /\ k \in 1..Len(s)
  BY LenProperties
<1> DEFINE n == Len(s)
           t == SubSeq(s, k + 1, n)
           u == SubSeq(s, 1, k - 1)
           r == Rotated(s, k)
<1>1. /\ t \in Seq(S) /\ Len(t) = n - k /\ \A i \in 1..(n - k) : t[i] = s[k + i]
  BY <1>0
<1>2. /\ u \in Seq(S) /\ Len(u) = k - 1 /\ \A i \in 1..(k - 1) : u[i] = s[i]
  BY <1>0
<1>3. r = t \o u
  BY DEF Rotated
<1> HIDE DEF t, u, r
<1>4. /\ r \in Seq(S) /\ Len(r) = n - 1
      /\ \A i \in 1..(n - 1) : r[i] = IF i <= n - k THEN t[i] ELSE u[i - (n - k)]
  <2>1. /\ t \o u \in Seq(S) /\ Len(t \o u) = Len(t) + Len(u)
        /\ \A i \in 1 .. Len(t) + Len(u) : (t \o u)[i] = IF i <= Len(t) THEN t[i] ELSE u[i - Len(t)]
    BY <1>1, <1>2, ConcatProperties
  <2>2. (n - k) + (k - 1) = n - 1
    BY <1>0
  <2> QED
    BY <1>1, <1>2, <1>3, <2>1, <2>2
<1>5. DOMAIN r = 1..(n - 1)
  BY <1>4, LenProperties
<1> DEFINE old(i) == IF i <= n - k THEN k + i ELSE i - (n - k)
<1>6. \A i \in 1..(n - 1) : old(i) \in 1..n /\ old(i) # k /\ r[i] = s[old(i)]
  <2>1. ASSUME NEW i \in 1..(n - 1), i <= n - k PROVE old(i) \in 1..n /\ old(i) # k /\ r[i] = s[old(i)]
    <3>1. i \in 1..(n - k) /\ k + i \in 1..n /\ k + i # k
      BY <1>0, <2>1
    <3> QED
      BY <1>1, <1>4, <2>1, <3>1
  <2>2. ASSUME NEW i \in 1..(n - 1), ~(i <= n - k) PROVE old(i) \in 1..n /\ old(i) # k /\ r[i] = s[old(i)]
    <3>1. i - (n - k) \in 1..(k - 1) /\ i - (n - k) \in 1..n /\ i - (n - k) # k
      BY <1>0, <2>2
    <3> QED
      BY <1>2, <1>4, <2>2, <3>1
  <2> QED
    BY <2>1, <2>2
<1>7. ASSUME NEW j \in DOMAIN s, j # k PROVE s[j] \in ToSet(r)
  <2>1. CASE j > k
    <3>1. j - k \in 1..(n - 1) /\ old(j - k) = j
      BY <1>0, <1>7, <2>1
    <3> QED
      BY <1>5, <1>6, <3>1 DEF ToSet
  <2>2. CASE j < k
    <3>1. j + (n - k) \in 1..(n - 1) /\ old(j + (n - k)) = j
      BY <1>0, <1>7, <2>2
    <3> QED
      BY <1>5, <1>6, <3>1 DEF ToSet
  <2> QED
    BY <1>0, <1>7, <2>1, <2>2
<1>8. ASSUME Distinct(s), NEW i \in DOMAIN r, NEW j \in DOMAIN r, r[i] = r[j] PROVE i = j
  <2>1. i \in 1..(n - 1) /\ j \in 1..(n - 1)
    BY <1>5, <1>8
  <2>2. old(i) = old(j)
    BY <1>0, <1>6, <1>8, <2>1 DEF Distinct
  <2> QED
    BY <1>0, <2>1, <2>2
<1> QED
  BY <1>4, <1>7, <1>8 DEF Distinct, r

LEMMA InitialQueue ==
    /\ SetToSeq(Initial) \in Seq(Agents) /\ Distinct(SetToSeq(Initial))
    /\ ToSet(SetToSeq(Initial)) = Initial
<1> USE ResidencyAssumption
<1> DEFINE n == Cardinality(Initial)
           q == SetToSeq(Initial)
<1>1. IsFiniteSet(Initial) /\ n \in Nat
  BY FS_Subset, FS_CardinalityType
<1>2. \E f \in [1..n -> Initial] : IsInjective(f)
  BY <1>1, FS_CardinalityType DEF ExistsBijection, Bijection, Injection
<1>3. q \in [1..n -> Initial] /\ IsInjective(q)
  BY <1>2 DEF SetToSeq
<1> HIDE DEF q
<1>4. q \in Injection(1..n, Initial)
  BY <1>3 DEF Injection
<1>5. Cardinality(1..n) = n
  BY <1>1, FS_Interval
<1>6. q \in Surjection(1..n, Initial)
  BY <1>1, <1>4, <1>5, FS_Injection
<1>7. q \in Seq(Agents)
  BY <1>1, <1>3
<1>8. ToSet(q) = Initial
  BY <1>3, <1>6 DEF Surjection, ToSet
<1>9. Distinct(q)
  BY <1>3 DEF IsInjective, Distinct
<1> QED
  BY <1>7, <1>8, <1>9 DEF q

-----------------------------------------------------------------------------
(* What the steps do to the queue. *)
LEMMA QueueStep ==
    ASSUME Types, CallsAgree, Next
    PROVE  /\ residents' \in Seq(Agents) /\ Distinct(residents')
           /\ \A a \in ToSet(residents) :
                 \/ a \in ToSet(residents')
                 \/ \E x \in Actors : cand'[x] = a
                 \/ a \notin known'
<1> USE ResidencyAssumption
<1>0. /\ residents \in Seq(Agents) /\ Distinct(residents)
      /\ target \in [Actors -> Agents \cup {None}] /\ cand \in [Actors -> Agents \cup {None}]
      /\ \A x \in Actors : pc[x] # "idle" => target[x] \in Agents
      /\ \A x \in Actors : pc[x] \in Evicting => cand[x] \in Agents
  BY DEF Types, CallsAgree
<1>1. CASE residents' = residents
  BY <1>0, <1>1
<1>2. ASSUME NEW a \in Agents, residents' = Touched(a)
      PROVE  residents' \in Seq(Agents) /\ Distinct(residents') /\ ToSet(residents) \subseteq ToSet(residents')
  BY <1>0, <1>2, TouchedKeeps
<1>3. ASSUME NEW x \in Actors, TouchLoaded(x) \/ CheckCandidate(x) \/ ResumeThread(x) \/ Commit(x)
      PROVE  residents' = residents \/ \E a \in Agents : residents' = Touched(a)
  <2>1. target[x] \in Agents /\ (CheckCandidate(x) => cand[x] \in Agents)
    BY <1>0, <1>3 DEF TouchLoaded, CheckCandidate, ResumeThread, Commit, Evicting
  <2> QED
    BY <1>3, <2>1 DEF TouchLoaded, CheckCandidate, ResumeThread, Commit, CommitSlot, stateVars
<1>4. ASSUME NEW x \in Actors, PopLruCandidate(x), residents' # residents
      PROVE  /\ residents' \in Seq(Agents) /\ Distinct(residents')
             /\ \A a \in ToSet(residents) : a \in ToSet(residents') \/ cand'[x] = a
  <2> DEFINE free == {k \in DOMAIN residents : residents[k] # target[x]}
             k == CHOOSE j \in free : \A i \in free : j <= i
  <2>1. /\ free # {}
        /\ cand' = [cand EXCEPT ![x] = residents[k]]
        /\ residents' = Rotated(residents, k)
    BY <1>4 DEF PopLruCandidate, Rotated
  <2>2. k \in DOMAIN residents
    <3>1. free \subseteq Nat
      BY <1>0, LenProperties
    <3>2. \E j \in free : \A i \in free : j <= i
      BY <2>1, <3>1, LeastNat
    <3>3. k \in free
      BY <3>2
    <3> QED
      BY <3>3
  <2> HIDE DEF free, k
  <2>3. /\ residents' \in Seq(Agents) /\ Distinct(residents')
        /\ \A j \in DOMAIN residents : j # k => residents[j] \in ToSet(residents')
    BY <1>0, <2>1, <2>2, RotatedKeeps
  <2>4. cand'[x] = residents[k]
    BY <1>0, <2>1
  <2> QED
    BY <2>3, <2>4 DEF ToSet
<1>5. ASSUME NEW x \in Actors, ForgetAndRelease(x)
      PROVE  /\ residents' \in Seq(Agents) /\ Distinct(residents')
             /\ \A a \in ToSet(residents) : a \in ToSet(residents') \/ a \notin known'
  BY <1>0, <1>5, WithoutLeaves DEF ForgetAndRelease
<1>6. ASSUME NEW x \in Actors, ActorStep(x), ~TouchLoaded(x), ~CheckCandidate(x), ~ResumeThread(x),
             ~Commit(x), ~PopLruCandidate(x), ~ForgetAndRelease(x)
      PROVE  residents' = residents
  BY <1>6 DEF ActorStep, SendMessage, SpawnAgent, Lookup, TryReservePendingSlot, ResidentCount,
     GetCandidate, SubmitShutdown, RemoveUnloaded, CreateSession, FinalizeThreadSpawn, DuplicateGone,
     ResumeFailed, EnsureExecutionCapacity, SendOp, RemoveDead, stateVars
<1>7. ASSUME NEW i \in Instances, Handle(i) \/ TurnEnds(i) PROVE residents' = residents
  BY <1>7 DEF Handle, TurnEnds, stateVars
<1> QED
  BY <1>1, <1>2, <1>3, <1>4, <1>5, <1>6, <1>7 DEF Next

-----------------------------------------------------------------------------
(* The counters. *)
LEMMA SlotsStep ==
    ASSUME Types, CallsAgree, CountersExact, Next
    PROVE  pending_slots' = Cardinality({x \in Actors : slot'[x]})
<1> USE ResidencyAssumption
<1> DEFINE Slots == {x \in Actors : slot[x]}
<1>0. /\ slot \in [Actors -> BOOLEAN] /\ pc \in [Actors -> Places]
      /\ IsFiniteSet(Slots) /\ pending_slots = Cardinality(Slots) /\ Cardinality(Slots) \in Nat
      /\ \A x \in Actors : slot[x] <=> pc[x] \in Holders
  BY FS_Subset, FS_CardinalityType DEF Types, CallsAgree, CountersExact
<1>1. CASE UNCHANGED <<slot, pending_slots>>
  BY <1>0, <1>1
<1>2. ASSUME NEW x \in Actors, slot' = [slot EXCEPT ![x] = FALSE],
             pending_slots' = IF slot[x] THEN pending_slots - 1 ELSE pending_slots
      PROVE  pending_slots' = Cardinality({y \in Actors : slot'[y]})
  <2>1. {y \in Actors : slot'[y]} = Slots \ {x}
    BY <1>0, <1>2
  <2>2. Cardinality(Slots \ {x}) = IF x \in Slots THEN Cardinality(Slots) - 1 ELSE Cardinality(Slots)
    BY <1>0, FS_RemoveElement
  <2> QED
    BY <1>0, <1>2, <2>1, <2>2
<1>3. ASSUME NEW x \in Actors, Returns(x)
      PROVE  pending_slots' = Cardinality({y \in Actors : slot'[y]})
  BY <1>2, <1>3 DEF Returns
<1>4. ASSUME NEW x \in Actors, TryReservePendingSlot(x)
      PROVE  pending_slots' = Cardinality({y \in Actors : slot'[y]})
  <2>1. CASE slot' = [slot EXCEPT ![x] = TRUE] /\ pending_slots' = pending_slots + 1
    <3>1. x \notin Slots
      BY <1>0, <1>4 DEF TryReservePendingSlot, Holders
    <3>2. {y \in Actors : slot'[y]} = Slots \cup {x}
      BY <1>0, <2>1
    <3>3. Cardinality(Slots \cup {x}) = Cardinality(Slots) + 1
      BY <1>0, <3>1, FS_AddElement
    <3> QED
      BY <1>0, <2>1, <3>2, <3>3
  <2> QED
    BY <1>1, <1>4, <2>1 DEF TryReservePendingSlot
<1>5. ASSUME NEW x \in Actors, CommitSlot(x), pc[x] \in Holders
      PROVE  pending_slots' = Cardinality({y \in Actors : slot'[y]})
  BY <1>0, <1>2, <1>5 DEF CommitSlot
<1>6. ASSUME NEW x \in Actors, ResumeFailed(x)
      PROVE  pending_slots' = Cardinality({y \in Actors : slot'[y]})
  <2>1. slot[x]
    BY <1>0, <1>6 DEF ResumeFailed, Holders
  <2> QED
    BY <1>2, <1>3, <1>6, <2>1 DEF ResumeFailed
<1>7. ASSUME NEW x \in Actors, ResumeThread(x) \/ Commit(x)
      PROVE  pending_slots' = Cardinality({y \in Actors : slot'[y]})
  <2>1. pc[x] \in Holders
    BY <1>7 DEF ResumeThread, Commit, Holders
  <2> QED
    BY <1>1, <1>5, <1>7, <2>1 DEF ResumeThread, Commit, stateVars
<1>8. ASSUME NEW x \in Actors, Lookup(x) \/ PopLruCandidate(x) \/ EnsureExecutionCapacity(x)
                \/ SendOp(x) \/ ForgetAndRelease(x)
      PROVE  Returns(x) \/ UNCHANGED <<slot, pending_slots>>
  BY <1>8 DEF Lookup, PopLruCandidate, EnsureExecutionCapacity, SendOp, ForgetAndRelease, callVars
<1>9. ASSUME NEW x \in Actors,
             SendMessage(x) \/ SpawnAgent(x) \/ TouchLoaded(x) \/ ResidentCount(x) \/ GetCandidate(x)
               \/ CheckCandidate(x) \/ SubmitShutdown(x) \/ RemoveUnloaded(x) \/ CreateSession(x)
               \/ FinalizeThreadSpawn(x) \/ DuplicateGone(x) \/ RemoveDead(x)
      PROVE  UNCHANGED <<slot, pending_slots>>
  BY <1>9 DEF SendMessage, SpawnAgent, TouchLoaded, ResidentCount, GetCandidate, CheckCandidate,
     SubmitShutdown, RemoveUnloaded, CreateSession, FinalizeThreadSpawn, DuplicateGone, RemoveDead,
     stateVars, callVars
<1>10. ASSUME NEW i \in Instances, Handle(i) \/ TurnEnds(i) PROVE UNCHANGED <<slot, pending_slots>>
  BY <1>10 DEF Handle, TurnEnds, stateVars, callVars
<1> QED
  BY <1>1, <1>3, <1>4, <1>6, <1>7, <1>8, <1>9, <1>10 DEF Next, ActorStep

LEMMA ActiveStep ==
    ASSUME Types, CountersExact, Next
    PROVE  active' = Cardinality({i \in Instances : status'[i] = "active"})
<1> USE ResidencyAssumption
<1> DEFINE Active == {i \in Instances : status[i] = "active"}
<1>0. /\ status \in [Instances -> {"init", "active", "done"}]
      /\ IsFiniteSet(Active) /\ active = Cardinality(Active) /\ Cardinality(Active) \in Nat
  <2>1. IsFiniteSet(Instances)
    <3>1. IsFiniteSet(1 .. MaxLoads)
      BY FS_Interval
    <3>2. IsFiniteSet(Agents \X (1 .. MaxLoads))
      BY <3>1, FS_Product
    <3> QED
      BY <3>2 DEF Instances, Gens
  <2>2. IsFiniteSet(Active)
    BY <2>1, FS_Subset
  <2> QED
    BY <2>2, FS_CardinalityType DEF Types, CountersExact
<1>1. CASE UNCHANGED <<status, active>>
  BY <1>0, <1>1
<1>2. ASSUME NEW i \in Instances, status' = [status EXCEPT ![i] = "done"],
             active' = IF status[i] = "active" THEN active - 1 ELSE active
      PROVE  active' = Cardinality({j \in Instances : status'[j] = "active"})
  <2>1. {j \in Instances : status'[j] = "active"} = Active \ {i}
    BY <1>0, <1>2
  <2>2. Cardinality(Active \ {i}) = IF i \in Active THEN Cardinality(Active) - 1 ELSE Cardinality(Active)
    BY <1>0, FS_RemoveElement
  <2> QED
    BY <1>0, <1>2, <2>1, <2>2
<1>3. ASSUME NEW i \in Instances, status' = [status EXCEPT ![i] = "active"],
             active' = IF status[i] = "active" THEN active ELSE active + 1
      PROVE  active' = Cardinality({j \in Instances : status'[j] = "active"})
  <2>1. {j \in Instances : status'[j] = "active"} = Active \cup {i}
    BY <1>0, <1>3
  <2>2. Cardinality(Active \cup {i}) = IF i \in Active THEN Cardinality(Active) ELSE Cardinality(Active) + 1
    BY <1>0, FS_AddElement
  <2> QED
    BY <1>0, <1>3, <2>1, <2>2
<1>4. ASSUME NEW i \in Instances, Handle(i)
      PROVE  active' = Cardinality({j \in Instances : status'[j] = "active"})
  BY <1>1, <1>2, <1>3, <1>4 DEF Handle
<1>5. ASSUME NEW i \in Instances, TurnEnds(i)
      PROVE  active' = Cardinality({j \in Instances : status'[j] = "active"})
  BY <1>2, <1>5 DEF TurnEnds
<1>6. ASSUME NEW x \in Actors, ActorStep(x) PROVE UNCHANGED <<status, active>>
  BY <1>6 DEF ActorStep, SendMessage, SpawnAgent, Lookup, TouchLoaded, TryReservePendingSlot,
     ResidentCount, PopLruCandidate, GetCandidate, CheckCandidate, SubmitShutdown, RemoveUnloaded,
     ResumeThread, CreateSession, FinalizeThreadSpawn, DuplicateGone, Commit, ResumeFailed,
     EnsureExecutionCapacity, SendOp, RemoveDead, ForgetAndRelease, loopVars
<1> QED
  BY <1>1, <1>4, <1>5, <1>6 DEF Next

-----------------------------------------------------------------------------
(* The calls. *)
CallTypes ==
    /\ pc \in [Actors -> Places] /\ slot \in [Actors -> BOOLEAN]
    /\ target \in [Actors -> Agents \cup {None}] /\ cand \in [Actors -> Agents \cup {None}]
    /\ inst \in [Actors -> 0 .. MaxLoads]

LEMMA ReturnsAgree ==
    ASSUME CallTypes, CallsAgree, NEW x \in Actors, Returns(x) PROVE CallTypes' /\ CallsAgree'
<1> USE ResidencyAssumption
<1>1. CallTypes'
  BY DEF CallTypes, Returns, Goes, Places, Unloaded
<1>2. CallsAgree'
  BY DEF CallTypes, CallsAgree, Returns, Goes, Holders, Evicting
<1> QED
  BY <1>1, <1>2

LEMMA CallsStep ==
    ASSUME Types, CallsAgree, Next
    PROVE  CallTypes' /\ CallsAgree'
<1> USE ResidencyAssumption
<1>0. /\ CallTypes /\ residents \in Seq(Agents)
      /\ threads \in [Agents -> 0 .. MaxLoads] /\ loads \in [Agents -> 0 .. MaxLoads]
      /\ known \subseteq Agents
  BY DEF Types, CallTypes
<1>1. CASE UNCHANGED <<pc, callVars>>
  BY <1>0, <1>1 DEF CallTypes, CallsAgree, callVars
<1>2. ASSUME NEW x \in Actors, Returns(x) PROVE CallTypes' /\ CallsAgree'
  BY <1>0, <1>2, ReturnsAgree
<1> DEFINE Same == UNCHANGED <<target, slot, cand, inst>>
<1>3. ASSUME NEW x \in Actors, NEW place \in Places, Goes(x, place), Same, pc[x] # "idle",
             pc[x] \in Holders <=> place \in Holders, pc[x] \in Evicting <=> place \in Evicting
      PROVE  CallTypes' /\ CallsAgree'
  <2>1. CallTypes'
    BY <1>0, <1>3 DEF CallTypes, Goes
  <2>2. CallsAgree'
    BY <1>0, <1>3 DEF CallTypes, CallsAgree, Goes
  <2> QED
    BY <2>1, <2>2
<1>4. ASSUME NEW x \in Actors, SendMessage(x) PROVE CallTypes' /\ CallsAgree'
  <2>1. PICK a \in Agents : target' = [target EXCEPT ![x] = a]
    BY <1>0, <1>4 DEF SendMessage
  <2>2. CallTypes'
    BY <1>0, <1>4, <2>1 DEF CallTypes, SendMessage, Goes, Places
  <2>3. CallsAgree'
    BY <1>0, <1>4, <2>1 DEF CallTypes, CallsAgree, SendMessage, Goes, Holders, Evicting
  <2> QED
    BY <2>2, <2>3
<1>5. ASSUME NEW x \in Actors, SpawnAgent(x) PROVE CallTypes' /\ CallsAgree'
  <2>1. PICK a \in Agents : target' = [target EXCEPT ![x] = a]
    BY <1>0, <1>5 DEF SpawnAgent
  <2>2. CallTypes'
    BY <1>0, <1>5, <2>1 DEF CallTypes, SpawnAgent, Goes, Places
  <2>3. CallsAgree'
    BY <1>0, <1>5, <2>1 DEF CallTypes, CallsAgree, SpawnAgent, Goes, Holders, Evicting
  <2> QED
    BY <2>2, <2>3
<1>6. ASSUME NEW x \in Actors, Lookup(x) PROVE CallTypes' /\ CallsAgree'
  BY <1>2, <1>3, <1>6 DEF Lookup, callVars, Places, Holders, Evicting
<1>7. ASSUME NEW x \in Actors, TouchLoaded(x) \/ ResidentCount(x) \/ SubmitShutdown(x) \/ RemoveDead(x)
      PROVE CallTypes' /\ CallsAgree'
  BY <1>3, <1>7 DEF TouchLoaded, ResidentCount, SubmitShutdown, RemoveDead, callVars, Places, Holders, Evicting
<1>8. ASSUME NEW x \in Actors, TryReservePendingSlot(x) PROVE CallTypes' /\ CallsAgree'
  <2>1. CASE slot' = [slot EXCEPT ![x] = TRUE] /\ Goes(x, "resume")
    <3>1. CallTypes'
      BY <1>0, <1>8, <2>1 DEF CallTypes, TryReservePendingSlot, Goes, Places, Holders
    <3>2. CallsAgree'
      BY <1>0, <1>8, <2>1 DEF CallTypes, CallsAgree, TryReservePendingSlot, Goes, Holders, Evicting
    <3> QED
      BY <3>1, <3>2
  <2>2. CASE slot' = slot /\ Goes(x, "count")
    BY <1>3, <1>8, <2>2 DEF TryReservePendingSlot, Places, Holders, Evicting
  <2> QED
    BY <1>8, <2>1, <2>2 DEF TryReservePendingSlot
<1>9. ASSUME NEW x \in Actors, PopLruCandidate(x) PROVE CallTypes' /\ CallsAgree'
  <2> DEFINE free == {k \in DOMAIN residents : residents[k] # target[x]}
             k == CHOOSE j \in free : \A i \in free : j <= i
  <2>1. CASE Returns(x)
    BY <1>2, <2>1
  <2>2. CASE ~Returns(x)
    <3>1. /\ free # {} /\ pc[x] = "pop"
          /\ cand' = [cand EXCEPT ![x] = residents[k]]
          /\ Goes(x, "look") /\ UNCHANGED <<target, inst, slot>>
      BY <1>9, <2>2 DEF PopLruCandidate
    <3>2. k \in DOMAIN residents
      <4>1. free \subseteq Nat
        BY <1>0, LenProperties
      <4>2. \E j \in free : \A i \in free : j <= i
        BY <3>1, <4>1, LeastNat
      <4>3. k \in free
        BY <4>2
      <4> QED
        BY <4>3
    <3> HIDE DEF free, k
    <3>3. residents[k] \in Agents
      BY <1>0, <3>2, ElementOfSeq, LenProperties
    <3>4. CallTypes'
      BY <1>0, <3>1, <3>3 DEF CallTypes, Goes, Places, Evicting
    <3>5. CallsAgree'
      BY <1>0, <3>1, <3>3 DEF CallTypes, CallsAgree, Goes, Holders, Evicting
    <3> QED
      BY <3>4, <3>5
  <2> QED
    BY <2>1, <2>2
<1>10. ASSUME NEW x \in Actors, GetCandidate(x) \/ CheckCandidate(x) \/ RemoveUnloaded(x)
       PROVE CallTypes' /\ CallsAgree'
  <2>0. target[x] \in Agents /\ cand[x] \in Agents
    BY <1>0, <1>10 DEF CallTypes, CallsAgree, GetCandidate, CheckCandidate, RemoveUnloaded, Evicting
  <2>1. CASE cand' = [cand EXCEPT ![x] = None]
    <3>1. /\ Goes(x, "pop") \/ Goes(x, "reserve")
          /\ UNCHANGED <<target, slot>>
          /\ inst' = inst \/ inst' = [inst EXCEPT ![x] = Unloaded]
      BY <1>0, <1>10, <2>0, <2>1 DEF CallTypes, GetCandidate, CheckCandidate, RemoveUnloaded
    <3>a. Unloaded \in 0 .. MaxLoads
      BY DEF Unloaded
    <3>b. inst' \in [Actors -> 0 .. MaxLoads] /\ cand' \in [Actors -> Agents \cup {None}]
      BY ONLY <1>0, <2>1, <3>1, <3>a DEF CallTypes
    <3>2. CallTypes'
      BY <1>0, <3>1, <3>b DEF CallTypes, Goes, Places
    <3>3. pc[x] \in Evicting /\ pc[x] \notin Holders
      BY <1>10 DEF GetCandidate, CheckCandidate, RemoveUnloaded, Evicting, Holders
    <3>4. CallsAgree'
      BY <1>0, <2>0, <2>1, <3>1, <3>3 DEF CallTypes, CallsAgree, Goes, Holders, Evicting
    <3> QED
      BY <3>2, <3>4
  <2>2. CASE GetCandidate(x) /\ UNCHANGED cand
    <3>1. /\ pc[x] = "look" /\ Goes(x, "check") /\ UNCHANGED <<target, slot, cand>>
          /\ inst' = [inst EXCEPT ![x] = threads[cand[x]]]
      BY <1>0, <2>0, <2>2 DEF GetCandidate, CallTypes
    <3>2. inst' \in [Actors -> 0 .. MaxLoads]
      <4>1. threads[cand[x]] \in 0 .. MaxLoads
        BY <1>0, <2>0
      <4> HIDE DEF ResidencyAssumption
      <4> QED
        BY <1>0, <3>1, <4>1 DEF CallTypes
    <3>a. CallTypes'
      BY <1>0, <3>1, <3>2 DEF CallTypes, Goes, Places, Evicting
    <3>3. CallsAgree'
      BY <1>0, <3>1 DEF CallTypes, CallsAgree, Goes, Holders, Evicting
    <3> QED
      BY <3>a, <3>3
  <2>3. CASE CheckCandidate(x) /\ UNCHANGED <<cand, inst>>
    <3>1. Goes(x, "shutdown") /\ pc[x] = "check" /\ UNCHANGED <<target, slot>>
      BY <1>0, <2>0, <2>3 DEF CallTypes, CheckCandidate
    <3> QED
      BY <1>3, <2>3, <3>1 DEF Places, Holders, Evicting
  <2> QED
    BY <1>10, <2>1, <2>2, <2>3 DEF GetCandidate, CheckCandidate, RemoveUnloaded
<1>11. ASSUME NEW x \in Actors, CommitSlot(x), UNCHANGED <<target, cand>>,
              Goes(x, "send") \/ Goes(x, "capacity"), inst' = inst \/ inst' = [inst EXCEPT ![x] = Unloaded],
              pc[x] = "resume" \/ pc[x] = "commit"
       PROVE CallTypes' /\ CallsAgree'
  <2>0. inst' \in [Actors -> 0 .. MaxLoads] /\ slot' \in [Actors -> BOOLEAN]
    <3>1. Unloaded \in 0 .. MaxLoads
      BY DEF Unloaded
    <3>2. inst' \in [Actors -> 0 .. MaxLoads]
      BY ONLY <1>0, <1>11, <3>1 DEF CallTypes
    <3> QED
      BY <1>0, <1>11, <3>2 DEF CallTypes, CommitSlot
  <2>1. CallTypes'
    BY <1>0, <1>11, <2>0 DEF CallTypes, Goes, Places
  <2>2. CallsAgree'
    BY <1>0, <1>11 DEF CallTypes, CallsAgree, CommitSlot, Goes, Holders, Evicting
  <2> QED
    BY <2>1, <2>2
<1>12. ASSUME NEW x \in Actors, ResumeThread(x) PROVE CallTypes' /\ CallsAgree'
  <2>1. CASE CommitSlot(x) /\ Goes(x, "capacity")
    BY <1>11, <1>12, <2>1 DEF ResumeThread
  <2>2. CASE Goes(x, "create") /\ UNCHANGED slot
    BY <1>3, <1>12, <2>2 DEF ResumeThread, Places, Holders, Evicting
  <2> QED
    BY <1>12, <2>1, <2>2 DEF ResumeThread
<1>13. ASSUME NEW x \in Actors, Commit(x) PROVE CallTypes' /\ CallsAgree'
  BY <1>11, <1>13 DEF Commit
<1>14. ASSUME NEW x \in Actors, CreateSession(x) PROVE CallTypes' /\ CallsAgree'
  <2>1. target[x] \in Agents
    BY <1>14 DEF CallsAgree, CreateSession
  <2>2. CASE Goes(x, "resumeFailed") /\ UNCHANGED inst
    BY <1>3, <1>14, <2>2 DEF CreateSession, Places, Holders, Evicting
  <2>3. CASE ~(Goes(x, "resumeFailed") /\ UNCHANGED inst)
    <3>1. /\ pc[x] = "create" /\ Goes(x, "insert") /\ UNCHANGED <<target, slot, cand>>
          /\ loads' = [loads EXCEPT ![target[x]] = @ + 1] /\ loads[target[x]] < MaxLoads
          /\ inst' = [inst EXCEPT ![x] = loads'[target[x]]]
      BY <1>14, <2>3 DEF CreateSession
    <3>2. loads'[target[x]] \in 0 .. MaxLoads
      <4>1. loads'[target[x]] = loads[target[x]] + 1 /\ loads[target[x]] \in 0 .. MaxLoads
        BY <1>0, <2>1, <3>1
      <4> QED
        BY <3>1, <4>1
    <3>3. CallTypes'
      BY <1>0, <3>1, <3>2 DEF CallTypes, Goes, Places, Holders
    <3>4. CallsAgree'
      BY <1>0, <3>1 DEF CallTypes, CallsAgree, Goes, Holders, Evicting
    <3> QED
      BY <3>3, <3>4
  <2> QED
    BY <2>2, <2>3
<1>15. ASSUME NEW x \in Actors, FinalizeThreadSpawn(x) PROVE CallTypes' /\ CallsAgree'
  BY <1>3, <1>15 DEF FinalizeThreadSpawn, callVars, Places, Holders, Evicting
<1>16. ASSUME NEW x \in Actors, DuplicateGone(x) PROVE CallTypes' /\ CallsAgree'
  <2>1. CallTypes'
    BY <1>0, <1>16 DEF CallTypes, DuplicateGone, Goes, Places, Holders, Unloaded
  <2>2. CallsAgree'
    BY <1>0, <1>16 DEF CallTypes, CallsAgree, DuplicateGone, Goes, Holders, Evicting
  <2> QED
    BY <2>1, <2>2
<1>17. ASSUME NEW x \in Actors, ResumeFailed(x) PROVE CallTypes' /\ CallsAgree'
  <2>1. CASE Returns(x)
    BY <1>2, <2>1
  <2>2. CASE ~Returns(x)
    <3>1. /\ pc[x] = "resumeFailed" /\ Goes(x, "touch") /\ slot' = [slot EXCEPT ![x] = FALSE]
          /\ UNCHANGED <<target, inst, cand>>
      BY <1>17, <2>2 DEF ResumeFailed
    <3>2. CallTypes'
      BY <1>0, <3>1 DEF CallTypes, Goes, Places
    <3>3. CallsAgree'
      BY <1>0, <3>1 DEF CallTypes, CallsAgree, Goes, Holders, Evicting
    <3> QED
      BY <3>2, <3>3
  <2> QED
    BY <2>1, <2>2
<1>18. ASSUME NEW x \in Actors, EnsureExecutionCapacity(x) \/ SendOp(x) PROVE CallTypes' /\ CallsAgree'
  BY <1>2, <1>3, <1>18 DEF EnsureExecutionCapacity, SendOp, callVars, Places, Holders, Evicting
<1>19. ASSUME NEW x \in Actors, ForgetAndRelease(x) PROVE CallTypes' /\ CallsAgree'
  BY <1>2, <1>19 DEF ForgetAndRelease
<1>20. ASSUME NEW i \in Instances, Handle(i) \/ TurnEnds(i) PROVE UNCHANGED <<pc, callVars>>
  BY <1>20 DEF Handle, TurnEnds
<1> QED
  BY <1>1, <1>4, <1>5, <1>6, <1>7, <1>8, <1>9, <1>10, <1>12, <1>13, <1>14, <1>15, <1>16, <1>17,
     <1>18, <1>19, <1>20 DEF Next, ActorStep

-----------------------------------------------------------------------------
(* The threads, the store and the sessions. *)
AgentTypes ==
    /\ threads \in [Agents -> 0 .. MaxLoads] /\ store \in [Agents -> 0 .. MaxLoads]
    /\ loads \in [Agents -> 0 .. MaxLoads]
    /\ known \subseteq Agents /\ running \subseteq Instances
    /\ status \in [Instances -> {"init", "active", "done"}]

(* CreateSession, when it starts a session. *)
Created(x) ==
    /\ pc[x] = "create" /\ NoLiveWriter(target[x]) /\ loads[target[x]] < MaxLoads
    /\ loads' = [loads EXCEPT ![target[x]] = @ + 1]
    /\ store' = [store EXCEPT ![target[x]] = loads'[target[x]]]
    /\ running' = running \cup {<<target[x], loads'[target[x]]>>}

LEMMA CreatedInstance ==
    ASSUME Types, CallsAgree, NEW x \in Actors, Created(x)
    PROVE  /\ target[x] \in Agents /\ loads'[target[x]] \in Gens /\ loads' \in [Agents -> 0 .. MaxLoads]
           /\ store' \in [Agents -> 0 .. MaxLoads] /\ running' \subseteq Instances
           /\ store'[target[x]] = loads'[target[x]]
<1> USE ResidencyAssumption
<1>1. target[x] \in Agents /\ loads \in [Agents -> 0 .. MaxLoads] /\ store \in [Agents -> 0 .. MaxLoads]
  BY DEF Types, CallsAgree, Created
<1>2. loads'[target[x]] = loads[target[x]] + 1 /\ loads[target[x]] \in 0 .. MaxLoads
  BY <1>1 DEF Created
<1>3. loads'[target[x]] \in Gens /\ loads'[target[x]] \in 0 .. MaxLoads
  BY <1>2 DEF Created, Gens
<1>4. loads' = [loads EXCEPT ![target[x]] = loads'[target[x]]]
  BY <1>1, <1>2 DEF Created
<1>5. loads' \in [Agents -> 0 .. MaxLoads] /\ store' \in [Agents -> 0 .. MaxLoads]
  BY <1>1, <1>3, <1>4 DEF Created
<1>6. running' \subseteq Instances
  BY <1>1, <1>3 DEF Types, Created, Instances
<1> QED
  BY <1>1, <1>3, <1>5, <1>6 DEF Created

LEMMA AgentTypesStep ==
    ASSUME Types, CallsAgree, Next PROVE AgentTypes'
<1> USE ResidencyAssumption
<1>0. /\ AgentTypes /\ inst \in [Actors -> 0 .. MaxLoads] /\ Unloaded \in 0 .. MaxLoads
      /\ \A x \in Actors : pc[x] # "idle" => target[x] \in Agents
  BY DEF Types, AgentTypes, CallsAgree, Unloaded
<1>1. ASSUME NEW x \in Actors,
             SendMessage(x) \/ SpawnAgent(x) \/ Lookup(x) \/ TouchLoaded(x) \/ TryReservePendingSlot(x)
               \/ ResidentCount(x) \/ PopLruCandidate(x) \/ GetCandidate(x) \/ CheckCandidate(x)
               \/ SubmitShutdown(x) \/ DuplicateGone(x) \/ ResumeFailed(x)
               \/ EnsureExecutionCapacity(x) \/ SendOp(x)
      PROVE  UNCHANGED <<threads, store, loads, known, running, status>>
  BY <1>1 DEF SendMessage, SpawnAgent, Lookup, TouchLoaded, TryReservePendingSlot, ResidentCount,
     PopLruCandidate, GetCandidate, CheckCandidate, SubmitShutdown, DuplicateGone, ResumeFailed,
     EnsureExecutionCapacity, SendOp, agentVars, loopVars
<1>2. CASE UNCHANGED <<threads, store, loads, known, running, status>>
  BY <1>0, <1>2 DEF AgentTypes
<1>3. ASSUME NEW x \in Actors, RemoveUnloaded(x) \/ RemoveDead(x) \/ ResumeThread(x) PROVE AgentTypes'
  <2>1. /\ threads' = threads \/ \E a : threads' = [threads EXCEPT ![a] = Unloaded]
        /\ UNCHANGED <<store, loads, known, running, status>>
    BY <1>3 DEF RemoveUnloaded, RemoveDead, ResumeThread, loopVars
  <2>2. threads' \in [Agents -> 0 .. MaxLoads]
    BY ONLY <1>0, <2>1 DEF AgentTypes
  <2> QED
    BY <1>0, <2>1, <2>2 DEF AgentTypes
<1>4. ASSUME NEW x \in Actors, CreateSession(x) PROVE AgentTypes'
  <2>1. UNCHANGED <<threads, known, status>> /\ (Created(x) \/ UNCHANGED <<loads, store, running>>)
    BY <1>4 DEF CreateSession, Created
  <2> QED
    BY <1>0, <2>1, CreatedInstance DEF AgentTypes
<1>5. ASSUME NEW x \in Actors, FinalizeThreadSpawn(x) PROVE AgentTypes'
  <2>1. /\ threads' = threads \/ threads' = [threads EXCEPT ![target[x]] = inst[x]]
        /\ UNCHANGED <<store, loads, known, running, status>>
    BY <1>5 DEF FinalizeThreadSpawn
  <2>2. threads' \in [Agents -> 0 .. MaxLoads]
    BY ONLY <1>0, <2>1, inst[x] \in 0 .. MaxLoads DEF AgentTypes
  <2> QED
    BY <1>0, <2>1, <2>2 DEF AgentTypes
<1>6. ASSUME NEW x \in Actors, Commit(x) \/ ForgetAndRelease(x) PROVE AgentTypes'
  <2>1. /\ UNCHANGED <<threads, store, loads, running, status>>
        /\ known' = known \/ known' = known \cup {target[x]} \/ known' = known \ {target[x]}
        /\ target[x] \in Agents
    BY <1>0, <1>6 DEF Commit, ForgetAndRelease, loopVars
  <2> QED
    BY <1>0, <2>1 DEF AgentTypes
<1>7. ASSUME NEW i \in Instances, Handle(i) \/ TurnEnds(i) PROVE AgentTypes'
  <2>1. /\ UNCHANGED <<threads, loads, known>>
        /\ running' = running \/ running' = running \ {i}
        /\ status' = status \/ status' = [status EXCEPT ![i] = "active"] \/ status' = [status EXCEPT ![i] = "done"]
        /\ store' = store \/ store' = [store EXCEPT ![i[1]] = Unloaded]
    BY <1>7 DEF Handle, TurnEnds, agentVars
  <2>2. store' \in [Agents -> 0 .. MaxLoads]
    BY ONLY <1>0, <2>1 DEF AgentTypes
  <2>3. status' \in [Instances -> {"init", "active", "done"}]
    BY ONLY <1>0, <2>1 DEF AgentTypes
  <2> QED
    BY <1>0, <2>1, <2>2, <2>3 DEF AgentTypes
<1> QED
  BY <1>1, <1>2, <1>3, <1>4, <1>5, <1>6, <1>7 DEF Next, ActorStep

LEMMA WriterStep ==
    ASSUME Types, CallsAgree, WriterRuns, Next PROVE WriterRuns'
<1> USE ResidencyAssumption
<1>0. store \in [Agents -> 0 .. MaxLoads] /\ 0 \notin Gens
  BY DEF Types, Gens
<1>1. CASE UNCHANGED <<store, running>>
  BY <1>1 DEF WriterRuns
<1>2. ASSUME NEW x \in Actors, CreateSession(x) PROVE WriterRuns'
  <2>1. Created(x) \/ UNCHANGED <<store, running>>
    BY <1>2 DEF CreateSession, Created
  <2>2. CASE Created(x)
    <3>1. target[x] \in Agents /\ store'[target[x]] = loads'[target[x]]
      BY <2>2, CreatedInstance
    <3>2. \A g \in Gens : <<target[x], g>> \notin running
      BY <1>0, <2>2, <3>1 DEF WriterRuns, Created, NoLiveWriter, Unloaded
    <3>3. \A a \in Agents : a # target[x] => store'[a] = store[a]
      BY <1>0, <2>2 DEF Created
    <3>4. ASSUME NEW a \in Agents, NEW g \in Gens, <<a, g>> \in running' PROVE store'[a] = g
      BY <2>2, <3>1, <3>2, <3>3, <3>4 DEF Created, WriterRuns
    <3> QED
      BY <3>4 DEF WriterRuns
  <2> QED
    BY <1>1, <2>1, <2>2
<1>3. ASSUME NEW i \in Instances, Handle(i), ~UNCHANGED <<store, running>> PROVE WriterRuns'
  <2>1. running' = running \ {i} /\ store' = [store EXCEPT ![i[1]] = Unloaded] /\ i \in running
    BY <1>3 DEF Handle
  <2>2. PICK b \in Agents, h \in Gens : i = <<b, h>>
    BY DEF Instances
  <2>3. store[b] = h /\ \A g \in Gens : <<b, g>> \in running => g = h
    BY <2>1, <2>2 DEF WriterRuns
  <2>4. \A a \in Agents : a # b => store'[a] = store[a]
    BY <1>0, <2>1, <2>2
  <2> QED
    BY <2>1, <2>2, <2>3, <2>4 DEF WriterRuns
<1>4. ASSUME NEW i \in Instances, TurnEnds(i) PROVE UNCHANGED <<store, running>>
  BY <1>4 DEF TurnEnds, agentVars
<1>5. ASSUME NEW x \in Actors, ActorStep(x), ~CreateSession(x) PROVE UNCHANGED <<store, running>>
  BY <1>5 DEF ActorStep, SendMessage, SpawnAgent, Lookup, TouchLoaded, TryReservePendingSlot,
     ResidentCount, PopLruCandidate, GetCandidate, CheckCandidate, SubmitShutdown, RemoveUnloaded,
     ResumeThread, FinalizeThreadSpawn, DuplicateGone, Commit, ResumeFailed,
     EnsureExecutionCapacity, SendOp, RemoveDead, ForgetAndRelease, loopVars, agentVars
<1> QED
  BY <1>1, <1>2, <1>3, <1>4, <1>5 DEF Next

-----------------------------------------------------------------------------
(* Whoever was tracked still is, or has been unloaded or forgotten. *)
LEMMA TrackedStep ==
    ASSUME Types, CallsAgree, LoadedIsTracked, Next PROVE LoadedIsTracked'
<1> USE ResidencyAssumption
<1>0. /\ residents \in Seq(Agents) /\ Distinct(residents) /\ known \subseteq Agents
      /\ threads \in [Agents -> 0 .. MaxLoads] /\ pc \in [Actors -> Places]
      /\ target \in [Actors -> Agents \cup {None}] /\ cand \in [Actors -> Agents \cup {None}]
      /\ \A x \in Actors : pc[x] # "idle" => target[x] \in Agents
      /\ \A x \in Actors : cand[x] # None <=> pc[x] \in Evicting
  BY DEF Types, CallsAgree
<1> DEFINE Tracked(a) == \/ a \in ToSet(residents)
                         \/ \E x \in Actors : cand[x] = a \/ (target[x] = a /\ pc[x] \in {"commit", "touch"})
<1>1. SUFFICES ASSUME NEW a \in known', threads'[a] # Unloaded PROVE Tracked(a)'
  BY DEF LoadedIsTracked
<1>2. a \in Agents
  BY AgentTypesStep DEF AgentTypes
<1>3. CASE a \in ToSet(residents)
  BY <1>1, <1>3, QueueStep
<1>4. ASSUME NEW x \in Actors, Commit(x) \/ TouchLoaded(x), target[x] = a,
             TouchLoaded(x) => threads[a] # Unloaded
      PROVE  a \in ToSet(residents')
  <2>1. residents' = Touched(a)
    BY <1>4 DEF Commit, CommitSlot, TouchLoaded
  <2> QED
    BY <1>0, <1>2, <2>1, TouchedKeeps
<1>5. CASE a \notin known
  <2>1. \E x \in Actors : Commit(x) /\ target[x] = a
    BY <1>1, <1>5 DEF Next, ActorStep, SendMessage, SpawnAgent, Lookup, TouchLoaded,
       TryReservePendingSlot, ResidentCount, PopLruCandidate, GetCandidate, CheckCandidate,
       SubmitShutdown, RemoveUnloaded, ResumeThread, CreateSession, FinalizeThreadSpawn,
       DuplicateGone, Commit, ResumeFailed, EnsureExecutionCapacity, SendOp, RemoveDead,
       ForgetAndRelease, Handle, TurnEnds, agentVars
  <2>2. \A x \in Actors : Commit(x) => ~TouchLoaded(x)
    BY DEF Commit, TouchLoaded
  <2> QED
    BY <1>4, <2>1, <2>2
<1>6. CASE a \in known /\ threads[a] = Unloaded
  <2>1. PICK x \in Actors : FinalizeThreadSpawn(x) /\ target[x] = a /\ Goes(x, "commit")
    <3>1. ASSUME NEW x \in Actors, RemoveUnloaded(x) \/ ResumeThread(x) \/ RemoveDead(x) PROVE FALSE
      <4>1. threads' = threads \/ \E b : threads' = [threads EXCEPT ![b] = Unloaded]
        BY <3>1 DEF RemoveUnloaded, ResumeThread, RemoveDead
      <4> QED
        BY <1>0, <1>1, <1>2, <1>6, <4>1
    <3>2. ASSUME NEW x \in Actors, FinalizeThreadSpawn(x) PROVE target[x] = a /\ Goes(x, "commit")
      <4>1. threads' = [threads EXCEPT ![target[x]] = inst[x]] /\ Goes(x, "commit")
        BY <1>0, <1>1, <1>2, <1>6, <3>2 DEF FinalizeThreadSpawn
      <4> QED
        BY <1>0, <1>1, <1>2, <1>6, <4>1
    <3> QED
      BY <1>1, <1>6, <3>1, <3>2 DEF Next, ActorStep, SendMessage, SpawnAgent, Lookup, TouchLoaded,
         TryReservePendingSlot, ResidentCount, PopLruCandidate, GetCandidate, CheckCandidate,
         SubmitShutdown, CreateSession, DuplicateGone, Commit, ResumeFailed, EnsureExecutionCapacity,
         SendOp, ForgetAndRelease, Handle, TurnEnds, agentVars
  <2>2. target'[x] = a /\ pc'[x] = "commit"
    BY <1>0, <2>1 DEF FinalizeThreadSpawn, Goes, callVars
  <2> QED
    BY <2>2
<1>7. CASE a \in known /\ threads[a] # Unloaded /\ a \notin ToSet(residents)
  <2>1. PICK y \in Actors : cand[y] = a \/ (target[y] = a /\ pc[y] \in {"commit", "touch"})
    BY <1>7 DEF LoadedIsTracked
  <2>2. CASE UNCHANGED <<pc, target, cand>>
    BY <2>1, <2>2
  <2>3. ASSUME NEW i \in Instances, Handle(i) \/ TurnEnds(i) PROVE UNCHANGED <<pc, target, cand>>
    BY <2>3 DEF Handle, TurnEnds, callVars
  <2>4. ASSUME NEW x \in Actors, ActorStep(x), x # y
        PROVE  pc'[y] = pc[y] /\ target'[y] = target[y] /\ cand'[y] = cand[y]
    BY <1>0, <2>4 DEF ActorStep, SendMessage, SpawnAgent, Lookup, TouchLoaded,
       TryReservePendingSlot, ResidentCount, PopLruCandidate, GetCandidate, CheckCandidate,
       SubmitShutdown, RemoveUnloaded, ResumeThread, CreateSession, FinalizeThreadSpawn,
       DuplicateGone, Commit, ResumeFailed, EnsureExecutionCapacity, SendOp, RemoveDead,
       ForgetAndRelease, callVars, Returns, Goes
  <2>5. CASE cand[y] = a
    <3>1. pc[y] \in Evicting
      BY <1>0, <1>2, <2>5
    <3>2. ASSUME ActorStep(y)
          PROVE  GetCandidate(y) \/ CheckCandidate(y) \/ SubmitShutdown(y) \/ RemoveUnloaded(y)
      BY <3>1, <3>2 DEF Evicting, ActorStep, SendMessage, SpawnAgent, Lookup, TouchLoaded,
         TryReservePendingSlot, ResidentCount, PopLruCandidate, ResumeThread, CreateSession,
         FinalizeThreadSpawn, DuplicateGone, Commit, ResumeFailed, EnsureExecutionCapacity, SendOp,
         RemoveDead, ForgetAndRelease
    <3>3. ASSUME GetCandidate(y) \/ SubmitShutdown(y) PROVE cand'[y] = a
      BY <1>7, <2>5, <3>3 DEF GetCandidate, SubmitShutdown, callVars
    <3>4. ASSUME CheckCandidate(y) PROVE cand'[y] = a \/ a \in ToSet(residents')
      <4>1. cand' = cand \/ residents' = Touched(a)
        BY <2>5, <3>4 DEF CheckCandidate
      <4> QED
        BY <1>0, <1>2, <2>5, <4>1, TouchedKeeps
    <3>5. ~RemoveUnloaded(y)
      BY <1>0, <1>1, <1>2, <2>5 DEF RemoveUnloaded
    <3> QED
      BY <2>2, <2>3, <2>4, <2>5, <3>2, <3>3, <3>4, <3>5 DEF Next
  <2>6. CASE target[y] = a /\ pc[y] \in {"commit", "touch"}
    <3>1. ASSUME ActorStep(y) PROVE Commit(y) \/ TouchLoaded(y)
      BY <2>6, <3>1 DEF ActorStep, SendMessage, SpawnAgent, Lookup, TryReservePendingSlot,
         ResidentCount, PopLruCandidate, GetCandidate, CheckCandidate, SubmitShutdown,
         RemoveUnloaded, ResumeThread, CreateSession, FinalizeThreadSpawn, DuplicateGone,
         ResumeFailed, EnsureExecutionCapacity, SendOp, RemoveDead, ForgetAndRelease
    <3> QED
      BY <1>4, <1>7, <2>2, <2>3, <2>4, <2>6, <3>1 DEF Next
  <2> QED
    BY <2>1, <2>5, <2>6
<1> QED
  BY <1>3, <1>5, <1>6, <1>7

-----------------------------------------------------------------------------
LEMMA InitIInv == Init => IInv
<1> USE ResidencyAssumption
<1>0. SUFFICES ASSUME Init PROVE IInv
  OBVIOUS
<1>1. residents \in Seq(Agents) /\ Distinct(residents) /\ ToSet(residents) = Initial
  BY <1>0, InitialQueue DEF Init
<1>2. AgentTypes
  <2>1. /\ 0 \in 0 .. MaxLoads /\ 1 \in 0 .. MaxLoads /\ 1 \in Gens
    BY DEF Gens
  <2> QED
    BY <1>0, <2>1 DEF Init, AgentTypes, Unloaded, Instances
<1>3. CallTypes
  <2>1. 0 \in 0 .. MaxLoads
    OBVIOUS
  <2> QED
    BY <1>0, <2>1 DEF Init, CallTypes, Places, Unloaded
<1>4. Types
  BY <1>0, <1>1, <1>2, <1>3 DEF Init, Types, AgentTypes, CallTypes
<1>5. CallsAgree
  BY <1>0 DEF Init, CallsAgree, Holders, Evicting
<1>6. WriterRuns
  BY <1>0 DEF Init, WriterRuns
<1>7. CountersExact
  <2>1. {x \in Actors : slot[x]} = {}
    BY <1>0 DEF Init
  <2>2. {i \in Instances : status[i] = "active"} = {}
    BY <1>0 DEF Init
  <2> QED
    BY <1>0, <2>1, <2>2, FS_EmptySet DEF Init, CountersExact
<1>8. LoadedIsTracked
  BY <1>0, <1>1 DEF Init, LoadedIsTracked
<1> QED
  BY <1>4, <1>5, <1>6, <1>7, <1>8 DEF IInv

LEMMA StepIInv == IInv /\ [Next]_vars => IInv'
<1>1. ASSUME IInv, Next PROVE IInv'
  <2> USE <1>1 DEF IInv
  <2>1. residents' \in Seq(Agents) /\ Distinct(residents')
    BY QueueStep
  <2>2. CallTypes' /\ CallsAgree'
    BY CallsStep
  <2>3. AgentTypes'
    BY AgentTypesStep
  <2>4. /\ pending_slots' = Cardinality({x \in Actors : slot'[x]})
        /\ active' = Cardinality({i \in Instances : status'[i] = "active"})
    BY SlotsStep, ActiveStep
  <2>5. CountersExact'
    BY <2>4 DEF CountersExact
  <2>6. pending_slots' \in Nat /\ active' \in Nat
    <3>1. IsFiniteSet(1 .. MaxLoads)
      BY FS_Interval, ResidencyAssumption
    <3>2. IsFiniteSet(Instances)
      BY <3>1, FS_Product, ResidencyAssumption DEF Instances, Gens
    <3>3. IsFiniteSet({x \in Actors : slot'[x]}) /\ IsFiniteSet({i \in Instances : status'[i] = "active"})
      BY <3>2, FS_Subset, ResidencyAssumption
    <3> QED
      BY <2>4, <3>3, FS_CardinalityType
  <2>7. Types'
    BY <2>1, <2>2, <2>3, <2>6 DEF Types, CallTypes, AgentTypes
  <2> QED
    BY <2>2, <2>5, <2>7, WriterStep, TrackedStep
<1>2. ASSUME IInv, UNCHANGED vars PROVE IInv'
  BY <1>2 DEF IInv, vars, stateVars, agentVars, loopVars, callVars, Types, Distinct, CallsAgree,
     WriterRuns, CountersExact, LoadedIsTracked
<1> QED
  BY <1>1, <1>2

(* Where a call is determines what it holds, the live writer of a stored   *)
(* thread is the session that runs, the counters are exact and every       *)
(* loaded agent is tracked, through every interleaving of the calls with   *)
(* the sessions.                                                           *)
THEOREM IInvHolds == Spec => []IInv
  BY InitIInv, StepIInv, PTL DEF Spec

(* Every variable keeps its type, and no pop, touch, commit or forget of   *)
(* concurrent calls leaves an agent in the LRU queue twice.                *)
THEOREM ResidencyTypeCorrect == Spec => []TypeOK
<1>1. IInv => TypeOK
  BY DEF IInv, Types, TypeOK, Distinct
<1> QED
  BY <1>1, IInvHolds, PTL

(* pending_slots is the number of calls that hold a slot and active the    *)
(* number of running turns, so no slot is dropped twice or lost.           *)
THEOREM CountersExactHolds == Spec => []CountersExact
<1>1. IInv => CountersExact
  BY DEF IInv
<1> QED
  BY <1>1, IInvHolds, PTL

(* At most one instance of an agent runs: the refusal of a second live     *)
(* writer is enough, whatever the calls race on.                           *)
THEOREM OneLiveInstanceHolds == Spec => []OneLiveInstance
<1>1. ASSUME IInv PROVE OneLiveInstance
  <2>1. ASSUME NEW a \in Agents PROVE Cardinality({g \in Gens : <<a, g>> \in running}) <= 1
    <3> DEFINE G == {g \in Gens : <<a, g>> \in running}
    <3>1. G \subseteq {store[a]}
      BY <1>1 DEF IInv, WriterRuns
    <3>2. G = {} \/ G = {store[a]}
      BY <3>1
    <3>3. Cardinality(G) = 0 \/ Cardinality(G) = 1
      BY <3>2, FS_EmptySet, FS_Singleton
    <3> QED
      BY <3>3
  <2> QED
    BY <2>1 DEF OneLiveInstance
<1> QED
  BY <1>1, IInvHolds, PTL

(* Every registered agent that is loaded stays within reach of an          *)
(* eviction.                                                               *)
THEOREM LoadedIsTrackedHolds == Spec => []LoadedIsTracked
<1>1. IInv => LoadedIsTracked
  BY DEF IInv
<1> QED
  BY <1>1, IInvHolds, PTL
=============================================================================
