----------------------- MODULE RolloutRecorderProofs -----------------------
(***************************************************************************)
(* RolloutRecorder implements RolloutLog, and its invariants, for every    *)
(* set of callers and every bound; and RolloutFiles, in the last part,     *)
(* keeps every line, for every set of workers and writers.                 *)
(***************************************************************************)
EXTENDS RolloutRecorder, RolloutFiles, SequenceTheorems, WellFoundedInduction, TLAPS

Cmds == [op : {"add"}, items : Seq(Items)] \cup [op : Barriers, from : Callers]

Types ==
    /\ live \in {"none", "init", "live"} /\ alive \in BOOLEAN
    /\ queue \in Seq(Cmds) /\ wpc \in {"recv", "open", "write"}
    /\ wpc # "recv" => command \in Cmds
    /\ meta \in BOOLEAN /\ pending_items \in Seq(Items) /\ file \in Seq(Line)
    /\ pc \in [Callers -> {"idle", "add", "send", "await", "failed"}]
    /\ batch \in [Callers -> Seq(Items)] /\ barrier \in [Callers -> Barriers \cup {None}]
    /\ reply \in [Callers -> {None, "ok", "err"}]
    /\ produced \in 0 .. MaxItems /\ cover \in [Callers -> SUBSET Items]

(* The barrier of caller c, and whether the writer works on it. *)
From(cmd, c) == cmd.op # "add" /\ cmd.from = c
InHand(c) == wpc # "recv" /\ From(command, c)

(* A barrier, queued or in the writer's hands, is the one its caller waits *)
(* for, and there is one of it.                                            *)
BarriersAgree ==
    /\ \A c \in Callers, k \in DOMAIN queue : From(queue[k], c) =>
          /\ pc[c] = "await" /\ reply[c] = None /\ barrier[c] = queue[k].op
          /\ ~InHand(c)
          /\ \A j \in DOMAIN queue : From(queue[j], c) => j = k
    /\ \A c \in Callers : InHand(c) =>
          pc[c] = "await" /\ reply[c] = None /\ barrier[c] = command.op

(* Only a live recorder is used: a call that has yet to send or waits for  *)
(* an answer holds a sender whose receiver exists.                         *)
CallsAgree ==
    \A c \in Callers :
        /\ reply[c] # None => pc[c] = "await"
        /\ pc[c] \in {"add", "send"} => live = "live" /\ alive /\ barrier[c] # None
        /\ pc[c] = "await" /\ reply[c] = None => live = "live" /\ alive

(* After a successful shutdown nobody uses the recorder until its caller   *)
(* has removed it.                                                         *)
ShutDown(c) == reply[c] = "ok" /\ barrier[c] = "shutdown"
ShutdownAgrees ==
    \A c \in Callers : ShutDown(c) =>
        live = "live" /\ ~alive /\ \A d \in Callers : ShutDown(d) => d = c

(* What a barrier covers is at or before its place on the way to the file. *)
Ahead(k) == UNION {ToSet(AddedItems(queue[j])) : j \in 1 .. (k - 1)}
CoverAgrees ==
    /\ \A c \in Callers, k \in DOMAIN queue : From(queue[k], c) =>
          cover[c] \subseteq ToSet(Written) \cup ToSet(pending_items) \cup Ahead(k)
    /\ \A c \in Callers : InHand(c) => cover[c] \subseteq ToSet(Written) \cup ToSet(pending_items)
    /\ \A c \in Callers : reply[c] = "ok" => cover[c] \subseteq ToSet(Written)

(* No item is accepted twice, nor waits to be. *)
AcceptedOnce ==
    /\ IsInjective(Accepted) /\ ToSet(Accepted) \subseteq 1 .. produced
    /\ \A c \in Callers : pc[c] = "add" =>
          /\ IsInjective(batch[c]) /\ ToSet(batch[c]) \subseteq (1 .. produced) \ ToSet(Accepted)
          /\ \A d \in Callers \ {c} : pc[d] = "add" => ToSet(batch[c]) \cap ToSet(batch[d]) = {}

(* A writer that owes no metadata line has one in its file. *)
MetaKnown ==
    alive /\ ~meta => \E j \in DOMAIN file : file[j].item = Meta /\ file[j].form \in {"whole", "bare"}

(* The inductive invariant. *)
IInv ==
    /\ Types /\ BarriersAgree /\ CallsAgree /\ WaiterIsServed /\ ShutdownAgrees
    /\ CoverAgrees /\ AcceptedOnce /\ MetaKnown /\ MetaLeads

-----------------------------------------------------------------------------
(* A non-empty set of naturals has a least element. *)
LEMMA LeastNat ==
    ASSUME NEW T, T \subseteq Nat, T # {}
    PROVE  \E x \in T : \A y \in T : x <= y
<1> DEFINE R == OpToRel(<, Nat)
<1>1. IsWellFoundedOn(R, Nat)
  BY NatLessThanWellFounded
<1>2. \A x, y \in Nat : x < y => <<x, y>> \in R
  BY DEF OpToRel
<1> HIDE DEF R
<1>3. PICK x \in T : \A y \in T : ~ (<<y, x>> \in R)
  BY <1>1, WFMin
<1>4. ASSUME NEW y \in T PROVE x <= y
  <2>1. x \in Nat /\ y \in Nat /\ ~(y < x)
    BY <1>2, <1>3
  <2> QED
    BY <2>1
<1> QED
  BY <1>4

(* The sequence ss flattened up to each place, as FlattenSeq computes it. *)
IsFlat(f, ss, n) == f = [i \in 1 .. n |-> IF i = 1 THEN ss[i] ELSE f[i - 1] \o ss[i]]

(* How two sequences agree up to a place, and what the first parts hold. *)
Agree(ss, tt, n) == \A i \in 1 .. n : ss[i] = tt[i]
AgreeShifted(tt, ss, n) == \A i \in 1 .. n : tt[i] = ss[i + 1]
Consists(ss, n, T) == \A i \in 1 .. n : ss[i] \in T
PartsOf(f, ss, n) == \A m \in 1 .. n : ToSet(f[m]) = UNION {ToSet(ss[j]) : j \in 1 .. m}
Prepends(f, e, g, n) == \A i \in 1 .. n : f[i + 1] = e \o g[i]

(* Of the lengths without one, the least would extend the one before it. *)
LEMMA FlatExists ==
    ASSUME NEW ss, NEW m \in Nat PROVE \E f : IsFlat(f, ss, m)
<1> DEFINE Bad == {n \in Nat : ~\E f : IsFlat(f, ss, n)}
<1>1. SUFFICES ASSUME Bad # {} PROVE FALSE
  OBVIOUS
<1>2. PICK n \in Bad : \A k \in Bad : n <= k
  BY <1>1, LeastNat
<1>3. CASE n = 0
  <2>1. 1 .. 0 = {}
    OBVIOUS
  <2>2. IsFlat([i \in 1 .. 0 |-> ss[i]], ss, 0)
    BY <2>1 DEF IsFlat
  <2> QED
    BY <1>2, <1>3, <2>2
<1>4. CASE n # 0
  <2>1. n - 1 \in Nat /\ n - 1 \notin Bad
    BY <1>2, <1>4
  <2>2. PICK f : IsFlat(f, ss, n - 1)
    BY <2>1
  <2> DEFINE last == IF n = 1 THEN ss[n] ELSE f[n - 1] \o ss[n]
             g == [k \in 1 .. n |-> IF k = n THEN last ELSE f[k]]
  <2>3. \A k \in 1 .. n : g[k] = IF k = n THEN last ELSE f[k]
    OBVIOUS
  <2>4. /\ \A k \in 1 .. n : k # 1 => k - 1 \in 1 .. n /\ k - 1 # n
        /\ \A k \in 1 .. n : k # n => k \in 1 .. (n - 1)
    BY <2>1
  <2>5. \A k \in 1 .. (n - 1) : f[k] = IF k = 1 THEN ss[k] ELSE f[k - 1] \o ss[k]
    BY <2>2 DEF IsFlat
  <2> HIDE DEF g
  <2>6. \A k \in 1 .. n : g[k] = IF k = 1 THEN ss[k] ELSE g[k - 1] \o ss[k]
    BY <1>4, <2>3, <2>4, <2>5
  <2>7. g = [k \in 1 .. n |-> g[k]]
    BY DEF g
  <2>8. IsFlat(g, ss, n)
    BY <2>6, <2>7 DEF IsFlat
  <2> QED
    BY <1>2, <2>8
<1> QED
  BY <1>3, <1>4

LEMMA FlattenIs ==
    ASSUME NEW S, NEW ss \in Seq(S), ss # <<>>
    PROVE  /\ Len(ss) \in Nat \ {0}
           /\ \E f : IsFlat(f, ss, Len(ss)) /\ FlattenSeq(ss) = f[Len(ss)]
<1>1. Len(ss) \in Nat \ {0}
  BY EmptySeq
<1> DEFINE f == CHOOSE g : IsFlat(g, ss, Len(ss))
<1>2. IsFlat(f, ss, Len(ss))
  BY <1>1, FlatExists
<1>3. FlattenSeq(ss) = f[Len(ss)]
  BY <1>1 DEF FlattenSeq, IsFlat
<1> QED
  BY <1>1, <1>2, <1>3

LEMMA ToSetConcat ==
    ASSUME NEW S, NEW s \in Seq(S), NEW t \in Seq(S)
    PROVE  ToSet(s \o t) = ToSet(s) \cup ToSet(t)
<1>1. /\ Len(s) \in Nat /\ DOMAIN s = 1 .. Len(s) /\ Len(t) \in Nat /\ DOMAIN t = 1 .. Len(t)
  BY LenProperties
<1>2. /\ s \o t \in Seq(S) /\ Len(s \o t) = Len(s) + Len(t)
      /\ \A i \in 1 .. Len(s) + Len(t) : (s \o t)[i] = IF i <= Len(s) THEN s[i] ELSE t[i - Len(s)]
  BY ConcatProperties
<1>3. DOMAIN (s \o t) = 1 .. Len(s) + Len(t)
  BY <1>2, LenProperties
<1>4. ASSUME NEW i \in DOMAIN (s \o t) PROVE (s \o t)[i] \in ToSet(s) \cup ToSet(t)
  <2>1. CASE i <= Len(s)
    BY <1>1, <1>2, <1>3, <2>1 DEF ToSet
  <2>2. CASE ~(i <= Len(s))
    <3>1. i - Len(s) \in DOMAIN t
      BY <1>1, <1>3, <2>2
    <3> QED
      BY <1>2, <1>3, <2>2, <3>1 DEF ToSet
  <2> QED
    BY <2>1, <2>2
<1>5. ASSUME NEW i \in DOMAIN s PROVE s[i] \in ToSet(s \o t)
  <2>1. i \in DOMAIN (s \o t) /\ (s \o t)[i] = s[i]
    BY <1>1, <1>2, <1>3
  <2> QED
    BY <2>1 DEF ToSet
<1>6. ASSUME NEW i \in DOMAIN t PROVE t[i] \in ToSet(s \o t)
  <2>1. i + Len(s) \in DOMAIN (s \o t) /\ (s \o t)[i + Len(s)] = t[i]
    BY <1>1, <1>2, <1>3
  <2> QED
    BY <2>1 DEF ToSet
<1> QED
  BY <1>4, <1>5, <1>6 DEF ToSet

(* What is flattened are sequences of the elements of the parts. *)
LEMMA FlatParts ==
    ASSUME NEW S, NEW n \in Nat, NEW ss, Consists(ss, n, Seq(S)), NEW f, IsFlat(f, ss, n)
    PROVE  Consists(f, n, Seq(S)) /\ PartsOf(f, ss, n)
<1> DEFINE Parts(k) == UNION {ToSet(ss[j]) : j \in 1 .. k}
           Good(k) == f[k] \in Seq(S) /\ ToSet(f[k]) = Parts(k)
           Bad == {k \in 1 .. n : ~Good(k)}
<1>0. /\ \A k \in 1 .. n : f[k] = IF k = 1 THEN ss[k] ELSE f[k - 1] \o ss[k]
      /\ \A k \in 1 .. n : ss[k] \in Seq(S)
  BY DEF IsFlat, Consists
<1>1. SUFFICES ASSUME Bad # {} PROVE FALSE
  BY DEF Consists, PartsOf
<1> HIDE DEF Good
<1>a. Bad \subseteq Nat
  OBVIOUS
<1>2. PICK k \in Bad : \A j \in Bad : k <= j
  <2> HIDE DEF Bad
  <2> QED
    BY <1>1, <1>a, LeastNat
<1>3. k \in 1 .. n /\ ~Good(k) /\ \A j \in 1 .. n : j < k => Good(j)
  BY <1>2
<1> HIDE DEF Bad
<1>4. CASE k = 1
  <2>1. Parts(1) = ToSet(ss[1])
    <3>1. \A j : j \in 1 .. 1 <=> j = 1
      OBVIOUS
    <3> QED
      BY <3>1
  <2> QED
    BY <1>0, <1>3, <1>4, <2>1 DEF Good
<1>5. CASE k # 1
  <2>1. k - 1 \in 1 .. n /\ k - 1 < k
    BY <1>3, <1>5
  <2>2. Good(k - 1)
    BY <1>3, <2>1
  <2>3. Parts(k) = Parts(k - 1) \cup ToSet(ss[k])
    <3>1. \A j : j \in 1 .. k <=> j \in 1 .. (k - 1) \/ j = k
      BY <1>3, <2>1
    <3> QED
      BY <3>1
  <2>4. f[k] = f[k - 1] \o ss[k] /\ ss[k] \in Seq(S)
    BY <1>0, <1>3, <1>5
  <2> HIDE DEF Parts
  <2>5. f[k - 1] \o ss[k] \in Seq(S) /\ ToSet(f[k - 1] \o ss[k]) = Parts(k)
    BY <2>2, <2>3, <2>4, ToSetConcat, ConcatProperties DEF Good
  <2> QED
    BY <1>3, <2>4, <2>5 DEF Good
<1> QED
  BY <1>4, <1>5

(* What is flattened depends on the parts up to its place only. *)
LEMMA FlatSame ==
    ASSUME NEW n \in Nat, NEW m \in Nat, n <= m, NEW ss, NEW tt, Agree(ss, tt, n),
           NEW f, IsFlat(f, ss, n), NEW g, IsFlat(g, tt, m)
    PROVE  Agree(f, g, n)
<1> DEFINE Bad == {k \in 1 .. n : f[k] # g[k]}
<1>0. /\ \A k \in 1 .. n : f[k] = IF k = 1 THEN ss[k] ELSE f[k - 1] \o ss[k]
      /\ \A k \in 1 .. m : g[k] = IF k = 1 THEN tt[k] ELSE g[k - 1] \o tt[k]
      /\ \A k \in 1 .. n : ss[k] = tt[k]
  BY DEF IsFlat, Agree
<1>1. SUFFICES ASSUME Bad # {} PROVE FALSE
  BY DEF Agree
<1>a. Bad \subseteq Nat
  OBVIOUS
<1>2. PICK k \in Bad : \A j \in Bad : k <= j
  <2> HIDE DEF Bad
  <2> QED
    BY <1>1, <1>a, LeastNat
<1>3. k \in 1 .. n /\ k \in 1 .. m /\ f[k] # g[k] /\ \A j \in 1 .. n : j < k => f[j] = g[j]
  BY <1>2
<1>4. k # 1 => k - 1 \in 1 .. n /\ k - 1 < k
  BY <1>3
<1> QED
  BY <1>0, <1>3, <1>4

(* Flattening may start with the first part. *)
LEMMA FlatCons ==
    ASSUME NEW S, NEW n \in Nat, NEW ss, Consists(ss, n + 1, Seq(S)),
           NEW tt, AgreeShifted(tt, ss, n),
           NEW f, IsFlat(f, ss, n + 1), NEW g, IsFlat(g, tt, n)
    PROVE  Prepends(f, ss[1], g, n)
<1> DEFINE Good(k) == f[k + 1] = ss[1] \o g[k]
           Bad == {k \in 1 .. n : ~Good(k)}
<1>0. /\ \A k \in 1 .. (n + 1) : f[k] = IF k = 1 THEN ss[k] ELSE f[k - 1] \o ss[k]
      /\ \A k \in 1 .. n : g[k] = IF k = 1 THEN tt[k] ELSE g[k - 1] \o tt[k]
      /\ \A k \in 1 .. (n + 1) : ss[k] \in Seq(S)
      /\ \A k \in 1 .. n : tt[k] = ss[k + 1]
  BY DEF IsFlat, Consists, AgreeShifted
<1>1. SUFFICES ASSUME Bad # {} PROVE FALSE
  BY DEF Prepends
<1> HIDE DEF Good
<1>a. Bad \subseteq Nat
  OBVIOUS
<1>2. PICK k \in Bad : \A j \in Bad : k <= j
  <2> HIDE DEF Bad
  <2> QED
    BY <1>1, <1>a, LeastNat
<1>3. k \in 1 .. n /\ ~Good(k) /\ \A j \in 1 .. n : j < k => Good(j)
  BY <1>2
<1> HIDE DEF Bad
<1>4. /\ k + 1 \in 1 .. (n + 1) /\ k + 1 # 1 /\ (k + 1) - 1 = k /\ 1 \in 1 .. (n + 1)
      /\ k # 1 => k - 1 \in 1 .. n /\ k - 1 < k /\ (k - 1) + 1 = k
  BY <1>3
<1>5. f[k + 1] = f[k] \o ss[k + 1] /\ tt[k] = ss[k + 1] /\ ss[k + 1] \in Seq(S)
  BY <1>0, <1>3, <1>4
<1>6. CASE k = 1
  <2>1. f[1] = ss[1] /\ g[1] = tt[1]
    BY <1>0, <1>3, <1>4, <1>6
  <2> QED
    BY <1>3, <1>5, <1>6, <2>1 DEF Good
<1>7. CASE k # 1
  <2>1. f[k] = ss[1] \o g[k - 1]
    BY <1>3, <1>4, <1>7 DEF Good
  <2>2. g[k] = g[k - 1] \o tt[k]
    BY <1>0, <1>3, <1>7
  <2>3. \A j \in 1 .. n : tt[j] \in Seq(S)
    BY <1>0
  <2> DEFINE a == ss[1]  b == g[k - 1]  c == tt[k]
  <2>4. a \in Seq(S) /\ b \in Seq(S) /\ c \in Seq(S)
    <3>1. Consists(tt, n, Seq(S))
      BY <2>3 DEF Consists
    <3>2. Consists(g, n, Seq(S))
      BY <3>1, FlatParts
    <3> QED
      BY <1>0, <1>3, <1>4, <1>7, <2>3, <3>2 DEF Consists
  <2>5. (ss[1] \o g[k - 1]) \o tt[k] = ss[1] \o (g[k - 1] \o tt[k])
    <3> HIDE DEF a, b, c
    <3>1. (a \o b) \o c = a \o (b \o c)
      BY <2>4, ConcatAssociative
    <3> QED
      BY <3>1 DEF a, b, c
  <2> QED
    BY <1>3, <1>5, <2>1, <2>2, <2>5 DEF Good
<1> QED
  BY <1>6, <1>7

LEMMA FlattenParts ==
    ASSUME NEW S, NEW ss \in Seq(Seq(S))
    PROVE  /\ FlattenSeq(ss) \in Seq(S)
           /\ ToSet(FlattenSeq(ss)) = UNION {ToSet(ss[j]) : j \in 1 .. Len(ss)}
<1>1. CASE ss = <<>>
  <2>1. FlattenSeq(<<>>) = <<>> /\ Len(<<>>) = 0 /\ 1 .. 0 = {} /\ DOMAIN <<>> = {}
    BY DEF FlattenSeq
  <2>2. FlattenSeq(ss) \in Seq(S)
    BY <1>1, <2>1, EmptySeq
  <2>3. ToSet(FlattenSeq(ss)) = {}
    BY <1>1, <2>1 DEF ToSet
  <2>4. UNION {ToSet(ss[j]) : j \in 1 .. Len(ss)} = {}
    BY <1>1, <2>1
  <2> QED
    BY <2>2, <2>3, <2>4
<1>2. CASE ss # <<>>
  <2>1. Len(ss) \in Nat \ {0}
    BY <1>2, EmptySeq
  <2>2. PICK f : IsFlat(f, ss, Len(ss)) /\ FlattenSeq(ss) = f[Len(ss)]
    BY <1>2, FlattenIs
  <2> DEFINE n == Len(ss)
  <2>3. n \in Nat /\ n \in 1 .. n /\ Consists(ss, n, Seq(S))
    BY <2>1, ElementOfSeq DEF Consists
  <2>4. IsFlat(f, ss, n) /\ FlattenSeq(ss) = f[n]
    BY <2>2
  <2> HIDE DEF n
  <2>a. Consists(f, n, Seq(S)) /\ PartsOf(f, ss, n)
    BY <2>3, <2>4, FlatParts
  <2>5. f[n] \in Seq(S) /\ ToSet(f[n]) = UNION {ToSet(ss[j]) : j \in 1 .. n}
    BY <2>3, <2>a DEF Consists, PartsOf
  <2> QED
    BY <2>4, <2>5 DEF n
<1> QED
  BY <1>1, <1>2

LEMMA FlattenAppend ==
    ASSUME NEW S, NEW ss \in Seq(Seq(S)), NEW e \in Seq(S)
    PROVE  FlattenSeq(Append(ss, e)) = FlattenSeq(ss) \o e
<1> DEFINE n == Len(ss)  tt == Append(ss, e)
<1>1. /\ n \in Nat /\ tt \in Seq(Seq(S)) /\ tt # <<>> /\ Len(tt) = n + 1
      /\ \A i \in 1 .. n : tt[i] = ss[i]
      /\ tt[n + 1] = e
  BY AppendProperties, LenProperties
<1> HIDE DEF tt
<1>2. PICK g : IsFlat(g, tt, n + 1) /\ FlattenSeq(tt) = g[n + 1]
  BY <1>1, FlattenIs
<1>3. \A k \in 1 .. (n + 1) : g[k] = IF k = 1 THEN tt[k] ELSE g[k - 1] \o tt[k]
  BY <1>2 DEF IsFlat
<1>4. CASE ss = <<>>
  <2>1. FlattenSeq(ss) = <<>> /\ n = 0
    BY <1>4 DEF FlattenSeq
  <2>2. g[1] = e
    BY <1>1, <1>3, <2>1
  <2>3. <<>> \o e = e
    BY ConcatEmptySeq
  <2> QED
    BY <1>2, <2>1, <2>2, <2>3 DEF tt
<1>5. CASE ss # <<>>
  <2>1. n \in Nat \ {0}
    BY <1>5, EmptySeq
  <2>2. PICK f : IsFlat(f, ss, n) /\ FlattenSeq(ss) = f[n]
    BY <1>5, FlattenIs
  <2>3. f[n] = g[n]
    <3>1. n \in Nat /\ n + 1 \in Nat /\ n <= n + 1 /\ n \in 1 .. n /\ Agree(ss, tt, n)
      BY <1>1, <2>1 DEF Agree
    <3>2. IsFlat(f, ss, n) /\ IsFlat(g, tt, n + 1)
      BY <1>2, <2>2
    <3> HIDE DEF n
    <3>3. Agree(f, g, n)
      BY <3>1, <3>2, FlatSame
    <3> QED
      BY <3>1, <3>3 DEF Agree
  <2>4. g[n + 1] = g[n] \o e
    <3>1. n + 1 \in 1 .. (n + 1) /\ n + 1 # 1 /\ (n + 1) - 1 = n
      BY <2>1
    <3> QED
      BY <1>1, <1>3, <3>1
  <2> QED
    BY <1>2, <2>2, <2>3, <2>4 DEF tt
<1> QED
  BY <1>4, <1>5

LEMMA FlattenCons ==
    ASSUME NEW S, NEW ss \in Seq(Seq(S)), ss # <<>>
    PROVE  FlattenSeq(ss) = Head(ss) \o FlattenSeq(Tail(ss))
<1> DEFINE n == Len(ss) - 1  tt == Tail(ss)
<1>1. /\ n \in Nat /\ Len(ss) = n + 1 /\ Head(ss) = ss[1] /\ Head(ss) \in Seq(S)
      /\ \A i \in 1 .. (n + 1) : ss[i] \in Seq(S)
  BY EmptySeq, ElementOfSeq, HeadTailProperties
<1>2. /\ tt \in Seq(Seq(S)) /\ Len(tt) = n /\ \A i \in 1 .. n : tt[i] = ss[i + 1]
  BY <1>1, HeadTailProperties
<1> HIDE DEF tt, n
<1>3. PICK f : IsFlat(f, ss, n + 1) /\ FlattenSeq(ss) = f[n + 1]
  BY <1>1, FlattenIs
<1>4. CASE tt = <<>>
  <2>1. n = 0 /\ FlattenSeq(tt) = <<>>
    BY <1>2, <1>4 DEF FlattenSeq
  <2>2. f[1] = ss[1]
    BY <1>1, <1>3, <2>1 DEF IsFlat
  <2>3. Head(ss) \o <<>> = Head(ss)
    BY <1>1, ConcatEmptySeq
  <2> QED
    BY <1>1, <1>3, <2>1, <2>2, <2>3 DEF tt
<1>5. CASE tt # <<>>
  <2>a. n \in Nat \ {0} /\ \E g : IsFlat(g, tt, n) /\ FlattenSeq(tt) = g[n]
    BY <1>2, <1>5, FlattenIs
  <2>1. PICK g : IsFlat(g, tt, n) /\ FlattenSeq(tt) = g[n]
    BY <2>a
  <2>b. n \in Nat /\ n \in 1 .. n
    BY <2>a
  <2>2. f[n + 1] = ss[1] \o g[n]
    <3>1. Consists(ss, n + 1, Seq(S)) /\ AgreeShifted(tt, ss, n)
      BY <1>1, <1>2 DEF Consists, AgreeShifted
    <3>2. Prepends(f, ss[1], g, n)
      BY <1>3, <2>1, <2>b, <3>1, FlatCons
    <3> QED
      BY <2>b, <3>2 DEF Prepends
  <2> QED
    BY <1>1, <1>3, <2>1, <2>2 DEF tt
<1> QED
  BY <1>4, <1>5

-----------------------------------------------------------------------------
(* The log as steps on the file, the buffer and the channel change it. *)
Lines(f) == [k \in DOMAIN f |-> LineItems(f[k])]
Adds(q) == [k \in DOMAIN q |-> AddedItems(q[k])]

LEMMA AppendIs ==
    ASSUME NEW T, NEW n \in Nat, NEW a \in [1 .. n -> T], NEW e \in T,
           NEW b, b = [k \in 1 .. (n + 1) |-> b[k]], Agree(b, a, n), b[n + 1] = e
    PROVE  b = Append(a, e)
<1>1. a \in Seq(T) /\ Len(a) = n
  OBVIOUS
<1> DEFINE t == Append(a, e)
<1>2. t \in Seq(T) /\ Len(t) = n + 1 /\ (\A k \in 1 .. n : t[k] = a[k]) /\ t[n + 1] = e
  BY <1>1, AppendProperties
<1> HIDE DEF t
<1>3. \A k \in 1 .. (n + 1) : b[k] = t[k] /\ b[k] \in T
  <2>1. \A k \in 1 .. (n + 1) : k \in 1 .. n \/ k = n + 1
    OBVIOUS
  <2> QED
    BY <1>2, <2>1 DEF Agree
<1>4. b \in [1 .. (n + 1) -> T]
  BY <1>3
<1>5. b \in Seq(T) /\ Len(b) = n + 1
  BY <1>4
<1>6. b = t
  BY <1>2, <1>3, <1>5, SeqEqual
<1> QED
  BY <1>6 DEF t

LEMMA LinesAppend ==
    ASSUME NEW f \in Seq(Line), NEW l \in Line
    PROVE  /\ Lines(f) \in Seq(Seq(Items)) /\ LineItems(l) \in Seq(Items)
           /\ Lines(Append(f, l)) = Append(Lines(f), LineItems(l))
<1> DEFINE n == Len(f)
<1>1. \A x \in Line : LineItems(x) \in Seq(Items)
  BY DEF LineItems
<1>2. n \in Nat /\ DOMAIN f = 1 .. n /\ \A k \in 1 .. n : f[k] \in Line
  BY LenProperties, ElementOfSeq
<1>3. Lines(f) \in [1 .. n -> Seq(Items)]
  BY <1>1, <1>2 DEF Lines
<1>4. Lines(f) \in Seq(Seq(Items))
  BY <1>2, <1>3
<1>5. /\ Append(f, l) \in Seq(Line) /\ Len(Append(f, l)) = n + 1
      /\ \A k \in 1 .. n : Append(f, l)[k] = f[k]
      /\ Append(f, l)[n + 1] = l
      /\ DOMAIN Append(f, l) = 1 .. (n + 1)
  BY AppendProperties, LenProperties
<1>6. Lines(Append(f, l)) = [k \in 1 .. (n + 1) |-> LineItems(Append(f, l)[k])]
  BY <1>5 DEF Lines
<1>7. Lines(f) = [k \in 1 .. n |-> LineItems(f[k])]
  BY <1>2 DEF Lines
<1>8. /\ \A k \in 1 .. n : Lines(Append(f, l))[k] = Lines(f)[k]
      /\ Lines(Append(f, l))[n + 1] = LineItems(l)
  <2>1. n + 1 \in 1 .. (n + 1) /\ \A k \in 1 .. n : k \in 1 .. (n + 1)
    BY <1>2
  <2> QED
    BY <1>5, <1>6, <1>7, <2>1
<1>9. Lines(Append(f, l)) = [k \in 1 .. (n + 1) |-> Lines(Append(f, l))[k]]
  BY <1>6
<1> DEFINE a == Lines(f)  b == Lines(Append(f, l))  e == LineItems(l)
<1>a. n \in Nat /\ a \in [1 .. n -> Seq(Items)] /\ e \in Seq(Items)
  BY <1>1, <1>2, <1>3
<1>b. b = [k \in 1 .. (n + 1) |-> b[k]] /\ Agree(b, a, n) /\ b[n + 1] = e
  BY <1>8, <1>9 DEF Agree
<1> HIDE DEF a, b, e, n
<1>c. b = Append(a, e)
  BY <1>a, <1>b, AppendIs
<1> QED
  BY <1>4, <1>a, <1>c DEF a, b, e

LEMMA AddsAppend ==
    ASSUME NEW q \in Seq(Cmds), NEW c \in Cmds
    PROVE  /\ Adds(q) \in Seq(Seq(Items)) /\ AddedItems(c) \in Seq(Items)
           /\ Adds(Append(q, c)) = Append(Adds(q), AddedItems(c))
<1> DEFINE n == Len(q)
<1>1. \A x \in Cmds : AddedItems(x) \in Seq(Items)
  BY DEF AddedItems, Cmds, Barriers
<1>2. n \in Nat /\ DOMAIN q = 1 .. n /\ \A k \in 1 .. n : q[k] \in Cmds
  BY LenProperties, ElementOfSeq
<1>3. Adds(q) \in [1 .. n -> Seq(Items)]
  BY <1>1, <1>2 DEF Adds
<1>4. Adds(q) \in Seq(Seq(Items))
  BY <1>2, <1>3
<1>5. /\ Append(q, c) \in Seq(Cmds) /\ Len(Append(q, c)) = n + 1
      /\ \A k \in 1 .. n : Append(q, c)[k] = q[k]
      /\ Append(q, c)[n + 1] = c
      /\ DOMAIN Append(q, c) = 1 .. (n + 1)
  BY AppendProperties, LenProperties
<1>6. Adds(Append(q, c)) = [k \in 1 .. (n + 1) |-> AddedItems(Append(q, c)[k])]
  BY <1>5 DEF Adds
<1>7. Adds(q) = [k \in 1 .. n |-> AddedItems(q[k])]
  BY <1>2 DEF Adds
<1>8. /\ \A k \in 1 .. n : Adds(Append(q, c))[k] = Adds(q)[k]
      /\ Adds(Append(q, c))[n + 1] = AddedItems(c)
  <2>1. n + 1 \in 1 .. (n + 1) /\ \A k \in 1 .. n : k \in 1 .. (n + 1)
    BY <1>2
  <2> QED
    BY <1>5, <1>6, <1>7, <2>1
<1>9. Adds(Append(q, c)) = [k \in 1 .. (n + 1) |-> Adds(Append(q, c))[k]]
  BY <1>6
<1> DEFINE a == Adds(q)  b == Adds(Append(q, c))  e == AddedItems(c)
<1>a. n \in Nat /\ a \in [1 .. n -> Seq(Items)] /\ e \in Seq(Items)
  BY <1>1, <1>2, <1>3
<1>b. b = [k \in 1 .. (n + 1) |-> b[k]] /\ Agree(b, a, n) /\ b[n + 1] = e
  BY <1>8, <1>9 DEF Agree
<1> HIDE DEF a, b, e, n
<1>c. b = Append(a, e)
  BY <1>a, <1>b, AppendIs
<1> QED
  BY <1>4, <1>a, <1>c DEF a, b, e

LEMMA AddsTail ==
    ASSUME NEW q \in Seq(Cmds), q # <<>>
    PROVE  /\ Adds(q) \in Seq(Seq(Items)) /\ Adds(q) # <<>>
           /\ Head(Adds(q)) = AddedItems(Head(q)) /\ Tail(Adds(q)) = Adds(Tail(q))
<1> DEFINE n == Len(q)  a == Adds(q)
<1>0. \A x \in Cmds : AddedItems(x) \in Seq(Items)
  BY DEF AddedItems, Cmds, Barriers
<1>1. n \in Nat \ {0} /\ DOMAIN q = 1 .. n /\ (\A k \in 1 .. n : q[k] \in Cmds) /\ Head(q) = q[1]
  BY LenProperties, ElementOfSeq, EmptySeq
<1>2. a \in [1 .. n -> Seq(Items)] /\ \A k \in 1 .. n : a[k] = AddedItems(q[k])
  BY <1>0, <1>1 DEF Adds
<1>3. a \in Seq(Seq(Items)) /\ Len(a) = n
  BY <1>1, <1>2
<1> HIDE DEF a
<1>4. a # <<>> /\ Head(a) = a[1]
  BY <1>1, <1>3
<1>5. /\ Tail(q) \in Seq(Cmds) /\ Len(Tail(q)) = n - 1 /\ DOMAIN Tail(q) = 1 .. (n - 1)
      /\ \A k \in 1 .. (n - 1) : Tail(q)[k] = q[k + 1]
  BY HeadTailProperties, LenProperties
<1>6. /\ Tail(a) \in Seq(Seq(Items)) /\ Len(Tail(a)) = n - 1
      /\ \A k \in 1 .. (n - 1) : Tail(a)[k] = a[k + 1]
  BY <1>3, <1>4, HeadTailProperties
<1> DEFINE b == Adds(Tail(q))
<1>7. /\ b \in [1 .. (n - 1) -> Seq(Items)]
      /\ \A k \in 1 .. (n - 1) : b[k] = AddedItems(q[k + 1])
  <2>1. \A k \in 1 .. (n - 1) : Tail(q)[k] \in Cmds
    BY <1>5, ElementOfSeq
  <2> QED
    BY <1>0, <1>5, <2>1 DEF Adds
<1> HIDE DEF b
<1>8. b \in Seq(Seq(Items)) /\ Len(b) = n - 1
  <2>1. n - 1 \in Nat
    BY <1>1
  <2> HIDE DEF n
  <2> QED
    BY <1>7, <2>1
<1>9. \A k \in 1 .. (n - 1) : Tail(a)[k] = b[k]
  <2>1. \A k \in 1 .. (n - 1) : k + 1 \in 1 .. n
    BY <1>1
  <2> QED
    BY <1>2, <1>6, <1>7, <2>1
<1>a. Tail(a) = b
  BY <1>6, <1>8, <1>9, SeqEqual
<1> QED
  BY <1>1, <1>2, <1>3, <1>4, <1>a DEF a, b

LEMMA WrittenOf ==
    ASSUME NEW f \in Seq(Line)
    PROVE  FlattenSeq(Lines(f)) \in Seq(Items)
           /\ \A l \in Line : FlattenSeq(Lines(Append(f, l))) = FlattenSeq(Lines(f)) \o LineItems(l)
<1>1. Lines(f) \in Seq(Seq(Items))
  <2>1. [item |-> Meta, form |-> "whole"] \in Line
    BY DEF Line
  <2> QED
    BY <2>1, LinesAppend
<1>2. FlattenSeq(Lines(f)) \in Seq(Items)
  BY <1>1, FlattenParts
<1>3. ASSUME NEW l \in Line
      PROVE  FlattenSeq(Lines(Append(f, l))) = FlattenSeq(Lines(f)) \o LineItems(l)
  <2>1. LineItems(l) \in Seq(Items) /\ Lines(Append(f, l)) = Append(Lines(f), LineItems(l))
    BY LinesAppend
  <2> QED
    BY <1>1, <2>1, FlattenAppend
<1> QED
  BY <1>2, <1>3

LEMMA QueuedOf ==
    ASSUME NEW q \in Seq(Cmds)
    PROVE  /\ FlattenSeq(Adds(q)) \in Seq(Items)
           /\ ToSet(FlattenSeq(Adds(q))) = UNION {ToSet(AddedItems(q[j])) : j \in 1 .. Len(q)}
           /\ \A c \in Cmds : FlattenSeq(Adds(Append(q, c))) = FlattenSeq(Adds(q)) \o AddedItems(c)
           /\ q # <<>> => FlattenSeq(Adds(q)) = AddedItems(Head(q)) \o FlattenSeq(Adds(Tail(q)))
<1>0. \A x \in Cmds : AddedItems(x) \in Seq(Items)
  BY DEF AddedItems, Cmds, Barriers
<1>1. /\ Len(q) \in Nat /\ DOMAIN q = 1 .. Len(q) /\ \A k \in 1 .. Len(q) : q[k] \in Cmds
  BY LenProperties, ElementOfSeq
<1>2. Adds(q) \in [1 .. Len(q) -> Seq(Items)] /\ \A k \in 1 .. Len(q) : Adds(q)[k] = AddedItems(q[k])
  BY <1>0, <1>1 DEF Adds
<1>3. Adds(q) \in Seq(Seq(Items)) /\ Len(Adds(q)) = Len(q)
  BY <1>1, <1>2
<1>4. /\ FlattenSeq(Adds(q)) \in Seq(Items)
      /\ ToSet(FlattenSeq(Adds(q))) = UNION {ToSet(Adds(q)[j]) : j \in 1 .. Len(Adds(q))}
  BY <1>3, FlattenParts
<1>5. UNION {ToSet(Adds(q)[j]) : j \in 1 .. Len(Adds(q))} = UNION {ToSet(AddedItems(q[j])) : j \in 1 .. Len(q)}
  BY <1>2, <1>3
<1>6. ASSUME NEW c \in Cmds
      PROVE  FlattenSeq(Adds(Append(q, c))) = FlattenSeq(Adds(q)) \o AddedItems(c)
  <2>1. AddedItems(c) \in Seq(Items) /\ Adds(Append(q, c)) = Append(Adds(q), AddedItems(c))
    BY AddsAppend
  <2> QED
    BY <1>3, <2>1, FlattenAppend
<1>7. ASSUME q # <<>>
      PROVE  FlattenSeq(Adds(q)) = AddedItems(Head(q)) \o FlattenSeq(Adds(Tail(q)))
  <2>1. Adds(q) # <<>> /\ Head(Adds(q)) = AddedItems(Head(q)) /\ Tail(Adds(q)) = Adds(Tail(q))
    BY <1>7, AddsTail
  <2> QED
    BY <1>3, <2>1, FlattenCons
<1> QED
  BY <1>4, <1>5, <1>6, <1>7

-----------------------------------------------------------------------------
(* What a step may do to the log. *)
Keeps == Accepted' = Accepted /\ Written' = Written
Accepts(c) == RecordCanonicalItems(c) /\ Accepted' = Accepted \o batch[c] /\ Written' = Written
Hardens ==
    /\ ~meta /\ WriteLine /\ Accepted' = Accepted
    /\ \E i \in Items : Written' = Append(Written, i) /\ i = Head(pending_items)
Loses == Accepted' = Written /\ Written' = Written /\ ~alive'

LEMMA LogTypes ==
    ASSUME Types
    PROVE  /\ Written \in Seq(Items) /\ Queued \in Seq(Items) /\ Accepted \in Seq(Items)
           /\ ToSet(Accepted) = ToSet(Written) \cup ToSet(pending_items) \cup ToSet(Queued)
           /\ ToSet(Queued) = UNION {ToSet(AddedItems(queue[j])) : j \in 1 .. Len(queue)}
           /\ Len(Accepted) = Len(Written) + Len(pending_items) + Len(Queued)
<1>0. file \in Seq(Line) /\ queue \in Seq(Cmds) /\ pending_items \in Seq(Items)
  BY DEF Types
<1>1. Written = FlattenSeq(Lines(file)) /\ Queued = FlattenSeq(Adds(queue))
  BY DEF Written, Lines, Queued, Adds
<1>2. Written \in Seq(Items) /\ Queued \in Seq(Items)
  BY <1>0, <1>1, WrittenOf, QueuedOf
<1>3. ToSet(Queued) = UNION {ToSet(AddedItems(queue[j])) : j \in 1 .. Len(queue)}
  BY <1>0, <1>1, QueuedOf
<1> DEFINE w == Written  q == Queued  h == w \o pending_items
<1> HIDE DEF w, q
<1>4. w \in Seq(Items) /\ q \in Seq(Items)
  BY <1>2 DEF w, q
<1>5. h \in Seq(Items) /\ Len(h) = Len(w) + Len(pending_items) /\ ToSet(h) = ToSet(w) \cup ToSet(pending_items)
  BY <1>0, <1>4, ConcatProperties, ToSetConcat
<1> HIDE DEF h
<1>6. h \o q \in Seq(Items) /\ Len(h \o q) = Len(h) + Len(q) /\ ToSet(h \o q) = ToSet(h) \cup ToSet(q)
  <2>1. h \in Seq(Items)
    BY <1>5
  <2>2. ToSet(h \o q) = ToSet(h) \cup ToSet(q)
    BY <1>4, <2>1, ToSetConcat
  <2>3. h \o q \in Seq(Items) /\ Len(h \o q) = Len(h) + Len(q)
    BY <1>4, <2>1, ConcatProperties
  <2> QED
    BY <2>2, <2>3
<1>7. Accepted = h \o q
  BY DEF Accepted, h, w, q
<1> QED
  BY <1>2, <1>3, <1>5, <1>6, <1>7 DEF w, q

LEMMA NextLineType ==
    ASSUME Types, meta \/ pending_items # <<>> PROVE NextLine \in Items \cup {Meta}
<1>1. pending_items # <<>> => Head(pending_items) \in Items
  BY HeadTailProperties DEF Types
<1> QED
  BY <1>1 DEF NextLine

(* A fragment brings no item. *)
LEMMA RemainsBringsNothing ==
    ASSUME Types, meta \/ pending_items # <<>>, Remains PROVE Written' = Written /\ file' \in Seq(Line)
<1>1. CASE file' = file
  BY <1>1 DEF Written, Types
<1>2. ASSUME NEW form \in {"torn", "bare"}, file' = Append(file, [item |-> NextLine, form |-> form])
      PROVE  Written' = Written /\ file' \in Seq(Line)
  <2> DEFINE l == [item |-> NextLine, form |-> form]
  <2>1. l \in Line /\ LineItems(l) = <<>>
    BY NextLineType DEF Line, LineItems
  <2> HIDE DEF l
  <2>2. FlattenSeq(Lines(Append(file, l))) = FlattenSeq(Lines(file)) \o <<>>
    BY <2>1, WrittenOf DEF Types
  <2>3. Written \o <<>> = Written
    BY LogTypes, ConcatEmptySeq
  <2>4. Written' = FlattenSeq(Lines(file')) /\ Written = FlattenSeq(Lines(file))
    BY DEF Written, Lines
  <2>5. file' = Append(file, l)
    BY <1>2 DEF l
  <2>6. file' \in Seq(Line)
    BY <2>1, <2>5, AppendProperties DEF Types
  <2> QED
    BY <2>2, <2>3, <2>4, <2>5, <2>6
<1> QED
  BY <1>1, <1>2 DEF Remains

LEMMA RecvKeeps ==
    ASSUME Types, Recv PROVE Keeps \/ Loses
<1>0. /\ queue \in Seq(Cmds) /\ queue # <<>> /\ pending_items \in Seq(Items) /\ file' = file
  BY DEF Types, Recv, fileVars
<1>1. Written' = Written
  BY <1>0 DEF Written
<1> DEFINE w == Written  p == pending_items  a == AddedItems(Head(queue))  r == FlattenSeq(Adds(Tail(queue)))
<1>2. w \in Seq(Items) /\ p \in Seq(Items) /\ a \in Seq(Items) /\ r \in Seq(Items)
  <2>1. Head(queue) \in Cmds /\ Tail(queue) \in Seq(Cmds)
    BY <1>0, HeadTailProperties
  <2>2. a \in Seq(Items)
    BY <2>1 DEF AddedItems, Cmds, Barriers
  <2>3. r \in Seq(Items)
    BY <2>1, QueuedOf
  <2> QED
    BY <1>0, <2>2, <2>3, LogTypes
<1>3. Queued = a \o r /\ pending_items' = p \o a /\ Accepted = (w \o p) \o Queued
      /\ Accepted' = (w \o pending_items') \o Queued'
  <2>1. Queued = FlattenSeq(Adds(queue))
    BY DEF Queued, Adds
  <2>2. FlattenSeq(Adds(queue)) = a \o r
    BY <1>0, QueuedOf
  <2> QED
    BY <1>1, <2>1, <2>2 DEF Accepted, Recv
<1>4. ASSUME queue' = Tail(queue) PROVE Keeps
  <2>1. Queued' = r
    BY <1>4 DEF Queued, Adds
  <2> HIDE DEF w, p, a, r
  <2>2. p \o a \in Seq(Items) /\ w \o p \in Seq(Items)
    BY <1>2, ConcatProperties
  <2>3. (w \o (p \o a)) = (w \o p) \o a
    BY <1>2, ConcatAssociative
  <2>4. ((w \o p) \o a) \o r = (w \o p) \o (a \o r)
    BY <1>2, <2>2, ConcatAssociative
  <2> QED
    BY <1>1, <1>3, <2>1, <2>3, <2>4 DEF Keeps
<1>5. ASSUME queue' # Tail(queue) PROVE Loses
  <2>1. Head(queue).op = "shutdown" /\ p = <<>> /\ queue' = <<>> /\ ~alive'
    BY <1>5 DEF Recv, LoopOrBreak
  <2>2. a = <<>>
    BY <2>1 DEF AddedItems
  <2>3. Queued' = <<>>
    <3>1. Adds(<<>>) = <<>>
      BY DEF Adds
    <3>2. FlattenSeq(<<>>) = <<>>
      BY DEF FlattenSeq
    <3>3. Queued' = FlattenSeq(Adds(queue'))
      BY DEF Queued, Adds
    <3> QED
      BY <2>1, <3>1, <3>2, <3>3
  <2>4. w \o <<>> = w /\ <<>> \o <<>> = <<>>
    BY <1>2, ConcatEmptySeq
  <2>5. Accepted' = (w \o <<>>) \o <<>>
    <3>1. pending_items' = <<>>
      BY <1>3, <2>1, <2>2, <2>4
    <3> QED
      BY <1>3, <2>3, <3>1
  <2> QED
    BY <1>1, <2>1, <2>4, <2>5 DEF Loses
<1> QED
  BY <1>4, <1>5

(* Nothing is left in memory when the writer has gone. *)
LEMMA Emptied ==
    ASSUME Types, pending_items' = <<>>, queue' = <<>>, Written' = Written, ~alive' PROVE Loses
<1>1. Queued' = <<>>
  <2>1. Adds(<<>>) = <<>>
    BY DEF Adds
  <2>2. FlattenSeq(<<>>) = <<>>
    BY DEF FlattenSeq
  <2>3. Queued' = FlattenSeq(Adds(queue'))
    BY DEF Queued, Adds
  <2> QED
    BY <2>1, <2>2, <2>3
<1>2. Accepted' = (Written \o <<>>) \o <<>>
  BY <1>1 DEF Accepted
<1>3. Written \o <<>> = Written
  BY LogTypes, ConcatEmptySeq
<1> QED
  BY <1>2, <1>3 DEF Loses

LEMMA WriteLineEffect ==
    ASSUME Types, WriteLine PROVE Keeps \/ Hardens
<1> USE RecorderAssumption
<1> DEFINE w == Written  p == pending_items  l == [item |-> NextLine, form |-> "whole"]
<1>0. w \in Seq(Items) /\ p \in Seq(Items) /\ Queued \in Seq(Items) /\ l \in Line /\ Meta \notin Items
  <2>1. Meta \notin Items
    BY DEF Items
  <2>2. l \in Line
    BY NextLineType DEF WriteLine, Line
  <2> QED
    BY <2>1, <2>2, LogTypes DEF Types
<1>1. Written' = w \o LineItems(l)
  <2>1. Written' = FlattenSeq(Lines(file')) /\ w = FlattenSeq(Lines(file)) /\ file' = Append(file, l)
    BY DEF Written, Lines, WriteLine
  <2> QED
    BY <1>0, <2>1, WrittenOf DEF Types
<1>2. Queued' = Queued
  BY DEF WriteLine, Queued
<1>3. CASE meta
  <2>1. LineItems(l) = <<>>
    BY <1>0, <1>3 DEF LineItems, NextLine
  <2>2. w \o <<>> = w
    BY <1>0, ConcatEmptySeq
  <2> QED
    BY <1>1, <1>2, <1>3, <2>1, <2>2 DEF Keeps, Accepted, WriteLine
<1>4. CASE ~meta
  <2> DEFINE i == Head(p)
  <2>1. p # <<>> /\ i \in Items /\ Tail(p) \in Seq(Items) /\ p' = Tail(p)
    BY <1>0, <1>4, HeadTailProperties DEF WriteLine
  <2>2. LineItems(l) = <<i>>
    BY <1>4, <2>1 DEF LineItems, NextLine
  <2>3. w \o <<i>> = Append(w, i)
    BY <1>0, <2>1, AppendIsConcat
  <2>4. p = <<i>> \o Tail(p)
    <3>1. Len(p) \in Nat \ {0} /\ p[1] = i
      BY <1>0, <2>1, EmptySeq
    <3>2. SubSeq(p, 1, Len(p)) = <<p[1]>> \o SubSeq(p, 2, Len(p))
      BY <1>0, <3>1, SubSeqRecursiveFirst
    <3>3. SubSeq(p, 1, Len(p)) = p /\ Tail(p) = SubSeq(p, 2, Len(p))
      BY <1>0, <2>1, SubSeqFull, TailIsSubSeq
    <3> QED
      BY <3>1, <3>2, <3>3
  <2>5. (w \o <<i>>) \o Tail(p) = w \o p
    <3> DEFINE u == <<i>>  t == Tail(p)
    <3>1. u \in Seq(Items) /\ t \in Seq(Items) /\ p = u \o t
      BY <2>1, <2>4
    <3> HIDE DEF u, t, w
    <3>2. (w \o u) \o t = w \o (u \o t)
      BY <1>0, <3>1, ConcatAssociative
    <3> QED
      BY <3>1, <3>2 DEF u, t
  <2>6. Accepted' = Accepted
    BY <1>1, <1>2, <2>1, <2>2, <2>5 DEF Accepted
  <2> QED
    BY <1>1, <1>4, <2>1, <2>2, <2>3, <2>6 DEF Hardens
<1> QED
  BY <1>3, <1>4

LEMMA SendEffect ==
    ASSUME Types, NEW cmd \in Cmds, Send(cmd), UNCHANGED <<file, pending_items>>
    PROVE  /\ Written' = Written /\ Queued' = Queued \o AddedItems(cmd)
           /\ Accepted' = Accepted \o AddedItems(cmd)
<1> DEFINE w == Written  p == pending_items  q == Queued  a == AddedItems(cmd)
<1>0. w \in Seq(Items) /\ p \in Seq(Items) /\ q \in Seq(Items) /\ a \in Seq(Items)
  BY LogTypes, AddsAppend DEF Types
<1>1. Written' = Written
  BY DEF Written
<1>2. Queued' = q \o a
  <2>1. Queued' = FlattenSeq(Adds(queue')) /\ q = FlattenSeq(Adds(queue)) /\ queue' = Append(queue, cmd)
    BY DEF Queued, Adds, Send
  <2> QED
    BY <2>1, QueuedOf DEF Types
<1>3. Accepted' = (w \o p) \o (q \o a) /\ Accepted = (w \o p) \o q
  BY <1>1, <1>2 DEF Accepted
<1> HIDE DEF w, p, q, a
<1>4. w \o p \in Seq(Items)
  BY <1>0, ConcatProperties
<1>5. ((w \o p) \o q) \o a = (w \o p) \o (q \o a)
  BY <1>0, <1>4, ConcatAssociative
<1> QED
  BY <1>1, <1>2, <1>3, <1>5 DEF q, a

LEMMA LogEffect ==
    ASSUME Types, CallsAgree, Next
    PROVE  Keeps \/ Hardens \/ Loses \/ \E c \in Callers : Accepts(c)
<1> USE RecorderAssumption
<1>1. CASE UNCHANGED <<file, pending_items, queue>>
  BY <1>1 DEF Keeps, Accepted, Written, Queued
<1>2. ASSUME NEW c \in Callers, Call(c) \/ Return(c) PROVE UNCHANGED <<file, pending_items, queue>>
  BY <1>2 DEF Call, Return, fileVars, stateVars
<1>3. ASSUME NEW c \in Callers, RecordCanonicalItems(c) PROVE Accepts(c)
  <2> DEFINE cmd == [op |-> "add", items |-> batch[c]]
  <2>1. cmd \in Cmds /\ AddedItems(cmd) = batch[c]
    BY DEF Types, Cmds, AddedItems
  <2>2. Send(cmd) /\ UNCHANGED <<file, pending_items>>
    BY <1>3 DEF RecordCanonicalItems, fileVars, stateVars
  <2> HIDE DEF cmd
  <2> QED
    BY <1>3, <2>1, <2>2, SendEffect DEF Accepts
<1>4. ASSUME NEW c \in Callers, SendBarrier(c) PROVE Keeps
  <2> DEFINE cmd == [op |-> barrier[c], from |-> c]
  <2>1. cmd \in Cmds /\ AddedItems(cmd) = <<>>
    BY <1>4 DEF Types, Cmds, AddedItems, CallsAgree, SendBarrier, Barriers
  <2>2. Send(cmd) /\ UNCHANGED <<file, pending_items>>
    BY <1>4 DEF SendBarrier, fileVars, stateVars
  <2> HIDE DEF cmd
  <2>3. Written' = Written /\ Accepted' = Accepted \o <<>>
    BY <2>1, <2>2, SendEffect
  <2>4. Accepted \o <<>> = Accepted
    BY LogTypes, ConcatEmptySeq
  <2> QED
    BY <2>3, <2>4 DEF Keeps
<1>5. CASE EnsureWriterOpen \/ ResumeThread
  BY <1>1, <1>5 DEF EnsureWriterOpen, ResumeThread, fileVars
<1>6. CASE Finish
  <2>1. UNCHANGED <<file, pending_items>> /\ pending_items = <<>>
    BY <1>6 DEF Finish, fileVars, stateVars
  <2>2. queue' = queue \/ (queue' = <<>> /\ ~alive')
    BY <1>6 DEF Finish, LoopOrBreak
  <2>3. Written' = Written
    BY <2>1 DEF Written
  <2> QED
    BY <1>1, <2>1, <2>2, <2>3, Emptied
<1>7. CASE IoFails
  <2>1. UNCHANGED <<pending_items, queue>>
    BY <1>7 DEF IoFails, KeepPending
  <2>2. Written' = Written
    BY <1>7, RemainsBringsNothing DEF IoFails, Written
  <2> QED
    BY <2>1, <2>2 DEF Keeps, Accepted, Queued
<1>8. CASE Discard \/ Crash
  <2>1. pending_items' = <<>> /\ queue' = <<>> /\ ~alive'
    BY <1>8 DEF Discard, Crash, WriterGone
  <2>2. Written' = Written
    BY <1>8, RemainsBringsNothing DEF Discard, Crash, Written, fileVars
  <2> QED
    BY <2>1, <2>2, Emptied
<1> QED
  BY <1>1, <1>2, <1>3, <1>4, <1>5, <1>6, <1>7, <1>8, RecvKeeps, WriteLineEffect
     DEF Next, WriterStep, CallerStep

-----------------------------------------------------------------------------
(* Types. *)
CallTypes ==
    /\ pc \in [Callers -> {"idle", "add", "send", "await", "failed"}]
    /\ batch \in [Callers -> Seq(Items)] /\ barrier \in [Callers -> Barriers \cup {None}]
    /\ reply \in [Callers -> {None, "ok", "err"}]
    /\ produced \in 0 .. MaxItems /\ cover \in [Callers -> SUBSET Items]
WriterTypes ==
    /\ live \in {"none", "init", "live"} /\ alive \in BOOLEAN
    /\ queue \in Seq(Cmds) /\ wpc \in {"recv", "open", "write"}
    /\ wpc # "recv" => command \in Cmds
    /\ meta \in BOOLEAN /\ pending_items \in Seq(Items) /\ file \in Seq(Line)

(* The items a call brings. *)
NewBatch(n) == [k \in 1 .. n |-> produced + k]

LEMMA NewBatchType ==
    ASSUME Types, NEW n \in 1 .. MaxBatch, produced + n <= MaxItems
    PROVE  /\ NewBatch(n) \in Seq(Items) /\ IsInjective(NewBatch(n))
           /\ ToSet(NewBatch(n)) \subseteq (1 .. (produced + n)) \ (1 .. produced)
           /\ produced + n \in 0 .. MaxItems
<1> USE RecorderAssumption
<1>0. produced \in Nat /\ n \in Nat
  BY DEF Types
<1>1. \A k \in 1 .. n : produced + k \in Items /\ produced + k \in (1 .. (produced + n)) \ (1 .. produced)
  BY <1>0 DEF Items
<1>2. NewBatch(n) \in [1 .. n -> Items]
  BY <1>1 DEF NewBatch
<1>3. NewBatch(n) \in Seq(Items)
  BY <1>0, <1>2
<1>4. \A j, k \in 1 .. n : produced + j = produced + k => j = k
  BY <1>0
<1>5. IsInjective(NewBatch(n))
  BY <1>4 DEF NewBatch, IsInjective
<1>6. ToSet(NewBatch(n)) \subseteq (1 .. (produced + n)) \ (1 .. produced)
  BY <1>1 DEF NewBatch, ToSet
<1>7. produced + n \in 0 .. MaxItems
  BY <1>0
<1> QED
  BY <1>3, <1>5, <1>6, <1>7

(* Call, when it produces items. *)
Produces(c, n) ==
    /\ produced + n <= MaxItems
    /\ batch' = [batch EXCEPT ![c] = NewBatch(n)]
    /\ produced' = produced + n

LEMMA CallCases ==
    ASSUME NEW c \in Callers, Call(c)
    PROVE  \/ \E n \in 1 .. MaxBatch : Produces(c, n)
           \/ UNCHANGED <<batch, produced>>
  BY DEF Call, Produces, NewBatch

LEMMA AckTypes ==
    ASSUME Types, NEW cmd \in Cmds, NEW r \in {"ok", "err"}, Ack(cmd, r)
    PROVE  reply' \in [Callers -> {None, "ok", "err"}]
  BY DEF Types, Ack, Cmds, Barriers

LEMMA BreakTypes ==
    ASSUME Types, NEW cmd, NEW rest \in Seq(Cmds), LoopOrBreak(cmd, rest)
    PROVE  /\ alive' \in BOOLEAN /\ queue' \in Seq(Cmds)
           /\ pc' \in [Callers -> {"idle", "add", "send", "await", "failed"}]
<1>1. queue' = rest \/ queue' = <<>>
  BY DEF LoopOrBreak
<1>2. queue' \in Seq(Cmds)
  BY <1>1, EmptySeq
<1>3. pc' \in [Callers -> {"idle", "add", "send", "await", "failed"}]
  BY DEF Types, LoopOrBreak
<1> QED
  BY <1>2, <1>3 DEF LoopOrBreak

LEMMA TypesStep ==
    ASSUME Types, CallsAgree, Next PROVE Types'
<1> USE RecorderAssumption
<1>0. CallTypes /\ WriterTypes
  BY DEF Types, CallTypes, WriterTypes
<1>q. SUFFICES CallTypes' /\ WriterTypes'
  BY DEF Types, CallTypes, WriterTypes
<1>1. ASSUME NEW c \in Callers, Call(c) PROVE CallTypes' /\ WriterTypes'
  <2>1. batch' \in [Callers -> Seq(Items)] /\ produced' \in 0 .. MaxItems
    <3>1. ASSUME NEW n \in 1 .. MaxBatch, Produces(c, n)
          PROVE  batch' \in [Callers -> Seq(Items)] /\ produced' \in 0 .. MaxItems
      BY <1>0, <3>1, NewBatchType DEF CallTypes, Produces
    <3> QED
      BY <1>0, <1>1, <3>1, CallCases DEF CallTypes
  <2>2. barrier' \in [Callers -> Barriers \cup {None}]
    <3>1. \E b \in Barriers : barrier' = [barrier EXCEPT ![c] = b]
      BY <1>1 DEF Call, Barriers
    <3> QED
      BY <1>0, <3>1 DEF CallTypes
  <2>3. pc' \in [Callers -> {"idle", "add", "send", "await", "failed"}]
    BY <1>0, <1>1 DEF CallTypes, Call
  <2>4. CallTypes'
    BY <1>0, <1>1, <2>1, <2>2, <2>3 DEF CallTypes, Call
  <2>5. WriterTypes'
    BY <1>0, <1>1 DEF WriterTypes, Call, stateVars, fileVars
  <2> QED
    BY <2>4, <2>5
<1>2. ASSUME NEW c \in Callers, RecordCanonicalItems(c) PROVE CallTypes' /\ WriterTypes'
  <2>1. queue' \in Seq(Cmds)
    <3> DEFINE cmd == [op |-> "add", items |-> batch[c]]
    <3>1. cmd \in Cmds /\ queue' = Append(queue, cmd)
      BY <1>0, <1>2 DEF CallTypes, Cmds, RecordCanonicalItems, Send
    <3> HIDE DEF cmd
    <3> QED
      BY <1>0, <3>1, AppendProperties DEF WriterTypes
  <2>2. CallTypes'
    BY <1>0, <1>2 DEF CallTypes, RecordCanonicalItems, ghostVars
  <2>3. WriterTypes'
    BY <1>0, <1>2, <2>1 DEF WriterTypes, RecordCanonicalItems, stateVars, fileVars
  <2> QED
    BY <2>2, <2>3
<1>3. ASSUME NEW c \in Callers, SendBarrier(c) PROVE CallTypes' /\ WriterTypes'
  <2>1. queue' \in Seq(Cmds)
    <3> DEFINE cmd == [op |-> barrier[c], from |-> c]
    <3>1. cmd \in Cmds /\ queue' = Append(queue, cmd)
      BY <1>0, <1>3 DEF CallTypes, CallsAgree, Cmds, SendBarrier, Send
    <3> HIDE DEF cmd
    <3> QED
      BY <1>0, <3>1, AppendProperties DEF WriterTypes
  <2>2. ToSet(Accepted) \subseteq Items
    <3>1. Accepted \in [1 .. Len(Accepted) -> Items] /\ DOMAIN Accepted = 1 .. Len(Accepted)
      BY LogTypes, LenProperties
    <3> QED
      BY <3>1 DEF ToSet
  <2>3. CallTypes'
    BY <1>0, <1>3, <2>2 DEF CallTypes, SendBarrier
  <2>4. WriterTypes'
    BY <1>0, <1>3, <2>1 DEF WriterTypes, SendBarrier, stateVars, fileVars
  <2> QED
    BY <2>3, <2>4
<1>4. ASSUME NEW c \in Callers, Return(c) PROVE CallTypes' /\ WriterTypes'
  <2>1. <<>> \in Seq(Items)
    BY EmptySeq
  <2>2. CallTypes'
    BY <1>0, <1>4, <2>1 DEF CallTypes, Return
  <2>3. WriterTypes'
    BY <1>0, <1>4 DEF WriterTypes, Return, stateVars, fileVars
  <2> QED
    BY <2>2, <2>3
<1>5. CASE Recv
  <2>0. Head(queue) \in Cmds /\ Tail(queue) \in Seq(Cmds)
    BY <1>0, <1>5, HeadTailProperties DEF WriterTypes, Recv
  <2>1. pending_items' \in Seq(Items)
    <3>1. AddedItems(Head(queue)) \in Seq(Items)
      BY <2>0 DEF AddedItems, Cmds, Barriers
    <3> QED
      BY <1>0, <1>5, <3>1, ConcatProperties DEF WriterTypes, Recv
  <2>2. CASE UNCHANGED <<wpc, command>>
    <3>1. Ack(Head(queue), "ok") /\ LoopOrBreak(Head(queue), Tail(queue))
      BY <1>5, <2>2 DEF Recv
    <3>2. /\ reply' \in [Callers -> {None, "ok", "err"}] /\ alive' \in BOOLEAN /\ queue' \in Seq(Cmds)
          /\ pc' \in [Callers -> {"idle", "add", "send", "await", "failed"}]
      BY <2>0, <3>1, AckTypes, BreakTypes
    <3>3. CallTypes'
      BY <1>0, <1>5, <3>2 DEF CallTypes, Recv, ghostVars
    <3>4. WriterTypes'
      BY <1>0, <1>5, <2>1, <2>2, <3>2 DEF WriterTypes, Recv, fileVars
    <3> QED
      BY <3>3, <3>4
  <2>3. CASE ~UNCHANGED <<wpc, command>>
    <3>1. queue' = Tail(queue) /\ wpc' = "open" /\ command' = Head(queue) /\ UNCHANGED <<reply, alive, pc>>
      BY <1>5, <2>3 DEF Recv
    <3>3. CallTypes'
      BY <1>0, <1>5, <3>1 DEF CallTypes, Recv, ghostVars
    <3>4. WriterTypes'
      BY <1>0, <1>5, <2>0, <2>1, <3>1 DEF WriterTypes, Recv, fileVars
    <3> QED
      BY <3>3, <3>4
  <2> QED
    BY <2>2, <2>3
<1>6. CASE EnsureWriterOpen \/ ResumeThread
  <2>1. CallTypes'
    BY <1>0, <1>6 DEF CallTypes, EnsureWriterOpen, ResumeThread, callVars, ghostVars
  <2>2. WriterTypes'
    BY <1>0, <1>6 DEF WriterTypes, EnsureWriterOpen, ResumeThread, fileVars
  <2> QED
    BY <2>1, <2>2
<1>7. CASE WriteLine
  <2>1. CallTypes'
    BY <1>0, <1>7 DEF CallTypes, WriteLine, callVars, ghostVars
  <2>2. pending_items' \in Seq(Items)
    <3>1. pending_items # <<>> => Tail(pending_items) \in Seq(Items)
      BY <1>0, HeadTailProperties DEF WriterTypes
    <3> QED
      BY <1>0, <1>7, <3>1 DEF WriterTypes, WriteLine
  <2>3. file' \in Seq(Line)
    <3> DEFINE l == [item |-> NextLine, form |-> "whole"]
    <3>1. l \in Line /\ file' = Append(file, l)
      BY <1>7, NextLineType DEF WriteLine, Line
    <3> HIDE DEF l
    <3> QED
      BY <1>0, <3>1, AppendProperties DEF WriterTypes
  <2>4. WriterTypes'
    BY <1>0, <1>7, <2>2, <2>3 DEF WriterTypes, WriteLine
  <2> QED
    BY <2>1, <2>4
<1>8. CASE Finish
  <2>1. Ack(command, "ok") /\ LoopOrBreak(command, queue) /\ command \in Cmds /\ queue \in Seq(Cmds)
    BY <1>0, <1>8 DEF Finish, WriterTypes
  <2>2. /\ reply' \in [Callers -> {None, "ok", "err"}] /\ alive' \in BOOLEAN /\ queue' \in Seq(Cmds)
        /\ pc' \in [Callers -> {"idle", "add", "send", "await", "failed"}]
    BY <2>1, AckTypes, BreakTypes
  <2>3. CallTypes'
    BY <1>0, <1>8, <2>2 DEF CallTypes, Finish, ghostVars
  <2>4. WriterTypes'
    BY <1>0, <1>8, <2>2 DEF WriterTypes, Finish, stateVars, fileVars
  <2> QED
    BY <2>3, <2>4
<1>9. CASE IoFails
  <2>1. file' \in Seq(Line)
    BY <1>0, <1>9, RemainsBringsNothing DEF IoFails, WriterTypes
  <2>2. reply' \in [Callers -> {None, "ok", "err"}]
    <3>1. wpc # "recv" /\ command \in Cmds
      BY <1>0, <1>9 DEF IoFails, WriterTypes
    <3>2. reply' = reply \/ Ack(command, "err")
      BY <1>9 DEF IoFails
    <3> QED
      BY <1>0, <3>1, <3>2, AckTypes DEF CallTypes
  <2>3. CallTypes'
    BY <1>0, <1>9, <2>2 DEF CallTypes, IoFails, ghostVars
  <2>4. WriterTypes'
    BY <1>0, <1>9, <2>1 DEF WriterTypes, IoFails, KeepPending
  <2> QED
    BY <2>3, <2>4
<1>10. CASE Discard \/ Crash
  <2>0. <<>> \in Seq(Items) /\ <<>> \in Seq(Cmds)
    BY EmptySeq
  <2>1. file' \in Seq(Line)
    BY <1>0, <1>10, RemainsBringsNothing DEF Discard, Crash, WriterTypes, fileVars
  <2>2. CASE Discard
    <3>1. CallTypes'
      BY <1>0, <2>2 DEF CallTypes, Discard, callVars, ghostVars
    <3>2. WriterTypes'
      BY <1>0, <2>0, <2>1, <2>2 DEF WriterTypes, Discard, WriterGone
    <3> QED
      BY <3>1, <3>2
  <2>3. CASE Crash
    <3>1. CallTypes'
      BY <1>0, <2>0, <2>3 DEF CallTypes, Crash
    <3>2. WriterTypes'
      BY <1>0, <2>0, <2>1, <2>3 DEF WriterTypes, Crash, WriterGone
    <3> QED
      BY <3>1, <3>2
  <2> QED
    BY <1>10, <2>2, <2>3
<1> QED
  BY <1>1, <1>2, <1>3, <1>4, <1>5, <1>6, <1>7, <1>8, <1>9, <1>10 DEF Next, WriterStep, CallerStep

-----------------------------------------------------------------------------
(* Items are accepted once. *)
LEMMA ConcatInjective ==
    ASSUME NEW S, NEW s \in Seq(S), NEW t \in Seq(S)
    PROVE  /\ IsInjective(s) /\ IsInjective(t) /\ ToSet(s) \cap ToSet(t) = {} => IsInjective(s \o t)
           /\ IsInjective(s \o t) => IsInjective(s)
<1>1. Len(s) \in Nat /\ DOMAIN s = 1 .. Len(s) /\ Len(t) \in Nat /\ DOMAIN t = 1 .. Len(t)
  BY LenProperties
<1>2. /\ \A i \in 1 .. Len(s) + Len(t) : (s \o t)[i] = IF i <= Len(s) THEN s[i] ELSE t[i - Len(s)]
      /\ DOMAIN (s \o t) = 1 .. Len(s) + Len(t)
  BY ConcatProperties, LenProperties
<1> DEFINE d == s \o t
<1> HIDE DEF d
<1>3. /\ \A i \in DOMAIN s : i \in DOMAIN d /\ d[i] = s[i]
      /\ \A i \in DOMAIN d : i \notin DOMAIN s => i - Len(s) \in DOMAIN t /\ d[i] = t[i - Len(s)]
      /\ \A i, j \in DOMAIN d : i - Len(s) = j - Len(s) => i = j
  <2>1. \A i \in DOMAIN s : i \in DOMAIN d /\ i <= Len(s)
    BY <1>1, <1>2 DEF d
  <2>2. \A i \in DOMAIN d : i \notin DOMAIN s => i - Len(s) \in DOMAIN t /\ ~(i <= Len(s))
    BY <1>1, <1>2 DEF d
  <2>3. \A i, j \in DOMAIN d : i - Len(s) = j - Len(s) => i = j
    BY <1>1, <1>2 DEF d
  <2> QED
    BY <1>2, <2>1, <2>2, <2>3 DEF d
<1>4. IsInjective(d) => IsInjective(s)
  BY <1>3 DEF IsInjective
<1>5. ASSUME IsInjective(s), IsInjective(t), ToSet(s) \cap ToSet(t) = {} PROVE IsInjective(d)
  <2>1. SUFFICES ASSUME NEW i \in DOMAIN d, NEW j \in DOMAIN d, d[i] = d[j] PROVE i = j
    BY DEF IsInjective
  <2>2. \A x \in DOMAIN s, y \in DOMAIN t : s[x] # t[y]
    BY <1>5 DEF ToSet
  <2>3. CASE i \in DOMAIN s /\ j \in DOMAIN s
    BY <1>3, <1>5, <2>1, <2>3 DEF IsInjective
  <2>4. CASE i \notin DOMAIN s /\ j \notin DOMAIN s
    BY <1>3, <1>5, <2>1, <2>4 DEF IsInjective
  <2>5. CASE (i \in DOMAIN s) # (j \in DOMAIN s)
    BY <1>3, <2>1, <2>2, <2>5
  <2> QED
    BY <2>3, <2>4, <2>5
<1> QED
  BY <1>4, <1>5 DEF d

LEMMA WrittenInjective ==
    ASSUME Types, IsInjective(Accepted)
    PROVE  IsInjective(Written) /\ ToSet(Written) \subseteq ToSet(Accepted)
<1> DEFINE w == Written  p == pending_items  q == Queued
<1>1. w \in Seq(Items) /\ p \in Seq(Items) /\ q \in Seq(Items) /\ Accepted = (w \o p) \o q
  BY LogTypes DEF Types, Accepted
<1> HIDE DEF w, p, q
<1>2. w \o p \in Seq(Items)
  BY <1>1, ConcatProperties
<1>3. IsInjective(w \o p)
  BY <1>1, <1>2, ConcatInjective
<1>4. IsInjective(w)
  BY <1>1, <1>3, ConcatInjective
<1> QED
  BY <1>4, LogTypes DEF w

(* Only a call makes a caller add, or produces items. *)
LEMMA AddersStep ==
    ASSUME Types, Next, \A c \in Callers : ~Call(c)
    PROVE  produced' = produced /\ \A d \in Callers : pc'[d] = "add" => pc[d] = "add" /\ batch'[d] = batch[d]
<1>0. /\ pc \in [Callers -> {"idle", "add", "send", "await", "failed"}]
      /\ batch \in [Callers -> Seq(Items)]
  BY DEF Types
<1>1. ASSUME NEW c \in Callers, RecordCanonicalItems(c) \/ SendBarrier(c) \/ Return(c)
      PROVE  produced' = produced /\ \A d \in Callers : pc'[d] = "add" => pc[d] = "add" /\ batch'[d] = batch[d]
  BY <1>0, <1>1 DEF RecordCanonicalItems, SendBarrier, Return, ghostVars
<1>2. CASE Recv \/ Finish
  <2>1. UNCHANGED <<produced, batch>> /\ (pc' = pc \/ \E cmd, rest : LoopOrBreak(cmd, rest))
    BY <1>2 DEF Recv, Finish, ghostVars
  <2> QED
    BY <1>0, <2>1 DEF LoopOrBreak
<1>3. CASE EnsureWriterOpen \/ WriteLine \/ IoFails \/ Discard \/ ResumeThread
  BY <1>3 DEF EnsureWriterOpen, WriteLine, IoFails, Discard, ResumeThread, callVars, ghostVars
<1>4. CASE Crash
  BY <1>4 DEF Crash
<1> QED
  BY <1>1, <1>2, <1>3, <1>4 DEF Next, WriterStep, CallerStep

LEMMA OnceStep ==
    ASSUME Types, CallsAgree, AcceptedOnce, Next PROVE AcceptedOnce'
<1> USE RecorderAssumption
<1>0. /\ Accepted \in Seq(Items) /\ produced \in Nat
      /\ batch \in [Callers -> Seq(Items)]
      /\ pc \in [Callers -> {"idle", "add", "send", "await", "failed"}]
  BY LogTypes DEF Types
<1>1. ASSUME NEW c \in Callers, Call(c) PROVE AcceptedOnce'
  <2>1. Accepted' = Accepted
    BY <1>1 DEF Call, Accepted, Written, Queued, stateVars, fileVars
  <2>2. CASE UNCHANGED <<batch, produced>>
    <3>1. \A d \in Callers : pc'[d] = "add" => pc[d] = "add" \/ (d = c /\ FALSE)
      BY <1>0, <1>1, <2>2 DEF Call
    <3> QED
      BY <2>1, <2>2, <3>1 DEF AcceptedOnce
  <2>3. ASSUME NEW n \in 1 .. MaxBatch, Produces(c, n) PROVE AcceptedOnce'
    <3>1. /\ IsInjective(NewBatch(n)) /\ produced' = produced + n
          /\ ToSet(NewBatch(n)) \subseteq (1 .. produced') \ (1 .. produced)
          /\ batch' = [batch EXCEPT ![c] = NewBatch(n)]
      BY <2>3, NewBatchType DEF Produces
    <3>2. 1 .. produced \subseteq 1 .. produced'
      BY <1>0, <3>1
    <3>3. batch'[c] = NewBatch(n) /\ \A d \in Callers \ {c} : batch'[d] = batch[d] /\ pc'[d] = pc[d]
      BY <1>0, <1>1, <3>1 DEF Call
    <3> QED
      BY <2>1, <3>1, <3>2, <3>3 DEF AcceptedOnce
  <2> QED
    BY <1>1, <2>2, <2>3, CallCases
<1>2. ASSUME \A c \in Callers : ~Call(c) PROVE AcceptedOnce'
  <2>1. produced' = produced /\ \A d \in Callers : pc'[d] = "add" => pc[d] = "add" /\ batch'[d] = batch[d]
    BY <1>2, AddersStep
  <2>2. ASSUME Accepted' = Accepted PROVE AcceptedOnce'
    BY <2>1, <2>2 DEF AcceptedOnce
  <2>3. ASSUME Loses PROVE AcceptedOnce'
    BY <2>1, <2>3, WrittenInjective DEF AcceptedOnce, Loses
  <2>4. ASSUME NEW c \in Callers, Accepts(c) PROVE AcceptedOnce'
    <3>1. pc[c] = "add" /\ pc'[c] # "add" /\ Accepted' = Accepted \o batch[c] /\ batch[c] \in Seq(Items)
      BY <1>0, <2>4 DEF Accepts, RecordCanonicalItems
    <3>2. ToSet(Accepted') = ToSet(Accepted) \cup ToSet(batch[c])
      BY <1>0, <3>1, ToSetConcat
    <3>3. IsInjective(Accepted')
      <4>1. IsInjective(Accepted) /\ IsInjective(batch[c]) /\ ToSet(Accepted) \cap ToSet(batch[c]) = {}
        BY <3>1 DEF AcceptedOnce
      <4> DEFINE b == batch[c]
      <4> HIDE DEF b
      <4>2. b \in Seq(Items) /\ IsInjective(b) /\ ToSet(Accepted) \cap ToSet(b) = {} /\ Accepted' = Accepted \o b
        BY <3>1, <4>1 DEF b
      <4> QED
        BY <1>0, <4>1, <4>2, ConcatInjective
    <3>4. \A d \in Callers : pc'[d] = "add" => d # c
      BY <3>1
    <3> QED
      BY <2>1, <3>1, <3>2, <3>3, <3>4 DEF AcceptedOnce
  <2> QED
    BY <2>2, <2>3, <2>4, LogEffect DEF Keeps, Hardens
<1> QED
  BY <1>1, <1>2

-----------------------------------------------------------------------------
(* Barriers, the calls that wait for them, and the life of the recorder. *)
Service == BarriersAgree /\ CallsAgree /\ WaiterIsServed /\ ShutdownAgrees

(* The state of the barriers when the writer holds cmd and has rest ahead. *)
RestAgrees(cmd, rest) ==
    /\ \A c \in Callers, k \in DOMAIN rest : From(rest[k], c) =>
          /\ pc[c] = "await" /\ reply[c] = None /\ barrier[c] = rest[k].op /\ ~From(cmd, c)
          /\ \A j \in DOMAIN rest : From(rest[j], c) => j = k
    /\ \A c \in Callers : From(cmd, c) => pc[c] = "await" /\ reply[c] = None /\ barrier[c] = cmd.op
    /\ \A c \in Callers : pc[c] = "await" /\ reply[c] = None =>
          From(cmd, c) \/ \E k \in DOMAIN rest : From(rest[k], c)

LEMMA TailIndices ==
    ASSUME Types, queue # <<>>
    PROVE  /\ \A k \in DOMAIN Tail(queue) : k + 1 \in DOMAIN queue /\ Tail(queue)[k] = queue[k + 1] /\ k + 1 # 1
           /\ \A k \in DOMAIN queue : k # 1 => k - 1 \in DOMAIN Tail(queue) /\ Tail(queue)[k - 1] = queue[k]
           /\ 1 \in DOMAIN queue /\ Head(queue) = queue[1] /\ Head(queue) \in Cmds
           /\ \A j, k \in DOMAIN Tail(queue) : j + 1 = k + 1 => j = k
<1> DEFINE n == Len(queue)
<1>1. /\ queue \in Seq(Cmds) /\ n \in Nat \ {0} /\ DOMAIN queue = 1 .. n /\ Head(queue) = queue[1]
      /\ Tail(queue) \in Seq(Cmds) /\ Len(Tail(queue)) = n - 1 /\ DOMAIN Tail(queue) = 1 .. (n - 1)
      /\ \A i \in 1 .. (n - 1) : Tail(queue)[i] = queue[i + 1]
      /\ Head(queue) \in Cmds
  BY EmptySeq, LenProperties, HeadTailProperties DEF Types
<1>2. /\ \A k \in 1 .. (n - 1) : k + 1 \in 1 .. n /\ k + 1 # 1
      /\ \A k \in 1 .. n : k # 1 => k - 1 \in 1 .. (n - 1) /\ (k - 1) + 1 = k
      /\ 1 \in 1 .. n
      /\ \A j, k \in 1 .. (n - 1) : j + 1 = k + 1 => j = k
  BY <1>1
<1> QED
  BY <1>1, <1>2

LEMMA RestOfRecv ==
    ASSUME Types, Service, wpc = "recv", queue # <<>> PROVE RestAgrees(Head(queue), Tail(queue))
<1> USE DEF Service
<1>1. ASSUME NEW c \in Callers, NEW k \in DOMAIN Tail(queue), From(Tail(queue)[k], c)
      PROVE  /\ pc[c] = "await" /\ reply[c] = None /\ barrier[c] = Tail(queue)[k].op /\ ~From(Head(queue), c)
             /\ \A j \in DOMAIN Tail(queue) : From(Tail(queue)[j], c) => j = k
  BY <1>1, TailIndices DEF BarriersAgree
<1>2. ASSUME NEW c \in Callers, From(Head(queue), c)
      PROVE  pc[c] = "await" /\ reply[c] = None /\ barrier[c] = Head(queue).op
  BY <1>2, TailIndices DEF BarriersAgree
<1>3. ASSUME NEW c \in Callers, pc[c] = "await", reply[c] = None
      PROVE  From(Head(queue), c) \/ \E k \in DOMAIN Tail(queue) : From(Tail(queue)[k], c)
  <2>1. PICK k \in DOMAIN queue : From(queue[k], c)
    BY <1>3 DEF WaiterIsServed, From
  <2> QED
    BY <2>1, TailIndices
<1> QED
  BY <1>1, <1>2, <1>3 DEF RestAgrees

LEMMA RestOfHand ==
    ASSUME Service, wpc # "recv" PROVE RestAgrees(command, queue)
<1> USE DEF Service
<1>1. ASSUME NEW c \in Callers, pc[c] = "await", reply[c] = None
      PROVE  From(command, c) \/ \E k \in DOMAIN queue : From(queue[k], c)
  BY <1>1 DEF WaiterIsServed, From
<1> QED
  BY <1>1 DEF RestAgrees, BarriersAgree, InHand

(* An answer reaches the caller that waits for it, and a shutdown fails    *)
(* the ones it leaves behind.                                              *)
LEMMA BreakServes ==
    ASSUME Types, Service, alive, NEW cmd \in Cmds, NEW rest \in Seq(Cmds), RestAgrees(cmd, rest),
           Ack(cmd, "ok"), LoopOrBreak(cmd, rest), wpc' = "recv", UNCHANGED <<live, barrier>>
    PROVE  Service'
<1> USE RecorderAssumption DEF Service
<1>0. /\ pc \in [Callers -> {"idle", "add", "send", "await", "failed"}]
      /\ reply \in [Callers -> {None, "ok", "err"}]
      /\ \A c \in Callers : ~ShutDown(c)
  BY DEF Types, ShutdownAgrees
<1>1. \A c \in Callers : reply'[c] = IF From(cmd, c) THEN "ok" ELSE reply[c]
  BY <1>0 DEF Ack, From, Cmds, Barriers
<1>2. CASE cmd.op # "shutdown"
  <2>1. alive' /\ queue' = rest /\ pc' = [c \in Callers |-> pc[c]]
    BY <1>2 DEF LoopOrBreak
  <2>2. \A c \in Callers : pc'[c] = pc[c]
    BY <2>1
  <2>3. BarriersAgree'
    BY <1>1, <2>1, <2>2 DEF BarriersAgree, RestAgrees, InHand, From
  <2>4. CallsAgree'
    BY <1>0, <1>1, <2>1, <2>2 DEF CallsAgree, RestAgrees
  <2>5. WaiterIsServed'
    BY <1>1, <2>1, <2>2 DEF WaiterIsServed, RestAgrees, From
  <2>6. ShutdownAgrees'
    <3>1. \A c \in Callers : ~(reply'[c] = "ok" /\ barrier'[c] = "shutdown")
      BY <1>0, <1>1, <1>2 DEF ShutDown, RestAgrees
    <3> QED
      BY <3>1 DEF ShutdownAgrees, ShutDown
  <2> QED
    BY <2>3, <2>4, <2>5, <2>6
<1>3. CASE cmd.op = "shutdown"
  <2>a. alive' = FALSE
    BY <1>3 DEF LoopOrBreak
  <2>b. queue' = <<>>
    BY <2>a DEF LoopOrBreak
  <2>1. ~alive' /\ queue' = <<>> /\ DOMAIN queue' = {}
    BY <2>a, <2>b
  <2>2. \A c \in Callers : pc'[c] = IF pc[c] = "idle" \/ reply'[c] # None THEN pc[c] ELSE "failed"
    BY <1>3 DEF LoopOrBreak
  <2>3. BarriersAgree'
    BY <2>1 DEF BarriersAgree, InHand
  <2>4. CallsAgree'
    BY <1>0, <1>1, <2>2 DEF CallsAgree, RestAgrees
  <2>5. WaiterIsServed'
    BY <2>2 DEF WaiterIsServed
  <2>6. ShutdownAgrees'
    <3>1. PICK c \in Callers : \A d \in Callers : From(cmd, d) <=> d = c
      BY <1>3 DEF From, Cmds, Barriers
    <3>2. \A d \in Callers : reply'[d] = "ok" /\ barrier'[d] = "shutdown" => d = c
      BY <1>0, <1>1, <3>1 DEF ShutDown
    <3>3. live' = "live"
      BY <3>1 DEF RestAgrees, CallsAgree
    <3> QED
      BY <2>1, <3>2, <3>3 DEF ShutdownAgrees, ShutDown
  <2> QED
    BY <2>3, <2>4, <2>5, <2>6
<1> QED
  BY <1>2, <1>3

LEMMA ServiceStep ==
    ASSUME Types, Service, Next PROVE Service'
<1> USE RecorderAssumption
<1>0. /\ pc \in [Callers -> {"idle", "add", "send", "await", "failed"}]
      /\ reply \in [Callers -> {None, "ok", "err"}]
      /\ barrier \in [Callers -> Barriers \cup {None}] /\ queue \in Seq(Cmds)
      /\ wpc # "recv" => command \in Cmds
      /\ BarriersAgree /\ CallsAgree /\ WaiterIsServed /\ ShutdownAgrees
  BY DEF Types, Service
<1>1. ASSUME NEW c \in Callers, Call(c) PROVE Service'
  <2>1. /\ pc[c] = "idle" /\ reply[c] = None /\ live' = "live"
        /\ UNCHANGED <<queue, wpc, command, reply, alive>>
        /\ \A d \in Callers \ {c} : pc'[d] = pc[d] /\ barrier'[d] = barrier[d]
    BY <1>0, <1>1 DEF Call, CallsAgree
  <2>2. pc'[c] \in {"add", "send", "failed"} /\ (pc'[c] # "failed" => alive) /\ barrier'[c] # None
    BY <1>0, <1>1 DEF Call, Barriers
  <2>3. \A k \in DOMAIN queue : ~From(queue[k], c)
    BY <1>0, <2>1 DEF BarriersAgree
  <2>4. ~InHand(c)
    BY <1>0, <2>1 DEF BarriersAgree
  <2>5. BarriersAgree'
    BY <1>0, <2>1, <2>3, <2>4 DEF BarriersAgree, InHand
  <2>6. CallsAgree'
    BY <1>0, <2>1, <2>2 DEF CallsAgree
  <2>7. WaiterIsServed'
    BY <1>0, <2>1, <2>2 DEF WaiterIsServed
  <2>8. ShutdownAgrees'
    BY <1>0, <2>1 DEF ShutdownAgrees, ShutDown
  <2> QED
    BY <2>5, <2>6, <2>7, <2>8 DEF Service
<1>a. ASSUME NEW cmd \in Cmds, Send(cmd)
      PROVE  /\ \A k \in DOMAIN queue : k \in DOMAIN queue' /\ queue'[k] = queue[k]
             /\ \A k \in DOMAIN queue' : k \in DOMAIN queue \/ (k = Len(queue) + 1 /\ queue'[k] = cmd)
             /\ Len(queue) + 1 \in DOMAIN queue' /\ Len(queue) + 1 \notin DOMAIN queue
             /\ queue'[Len(queue) + 1] = cmd
  <2>1. /\ queue' \in Seq(Cmds) /\ Len(queue') = Len(queue) + 1 /\ Len(queue) \in Nat
        /\ \A i \in 1 .. Len(queue) : queue'[i] = queue[i]
        /\ queue'[Len(queue) + 1] = cmd
    BY <1>0, <1>a, AppendProperties, LenProperties DEF Send
  <2>2. DOMAIN queue = 1 .. Len(queue) /\ DOMAIN queue' = 1 .. (Len(queue) + 1)
    BY <1>0, <2>1, LenProperties
  <2> QED
    BY <2>1, <2>2
<1>2. ASSUME NEW c \in Callers, RecordCanonicalItems(c) PROVE Service'
  <2> DEFINE cmd == [op |-> "add", items |-> batch[c]]
  <2>1. cmd \in Cmds /\ Send(cmd) /\ \A d \in Callers : ~From(cmd, d)
    BY <1>2 DEF RecordCanonicalItems, Types, Cmds, From
  <2> HIDE DEF cmd
  <2>2. /\ pc[c] = "add" /\ pc'[c] = "send" /\ \A d \in Callers \ {c} : pc'[d] = pc[d]
        /\ UNCHANGED <<live, alive, wpc, command, barrier, reply>>
    BY <1>0, <1>2 DEF RecordCanonicalItems
  <2>3. BarriersAgree'
    BY <1>0, <1>a, <2>1, <2>2 DEF BarriersAgree, InHand
  <2>4. CallsAgree'
    BY <1>0, <2>2 DEF CallsAgree
  <2>5. WaiterIsServed'
    <3>1. \A d \in Callers : pc'[d] = "await" => pc[d] = "await"
      BY <2>2
    <3> QED
      BY <1>0, <1>a, <2>1, <2>2, <3>1 DEF WaiterIsServed
  <2>6. ShutdownAgrees'
    BY <1>0, <2>2 DEF ShutdownAgrees, ShutDown
  <2> QED
    BY <2>3, <2>4, <2>5, <2>6 DEF Service
<1>3. ASSUME NEW c \in Callers, SendBarrier(c) PROVE Service'
  <2> DEFINE cmd == [op |-> barrier[c], from |-> c]
  <2>1. cmd \in Cmds /\ Send(cmd) /\ (\A d \in Callers : From(cmd, d) <=> d = c) /\ cmd.op = barrier[c]
    BY <1>0, <1>3 DEF SendBarrier, CallsAgree, Cmds, From, Barriers
  <2>a. cmd.op # "add" /\ cmd.from = c
    BY <2>1 DEF From
  <2> HIDE DEF cmd
  <2>2. /\ pc[c] = "send" /\ pc'[c] = "await" /\ \A d \in Callers \ {c} : pc'[d] = pc[d]
        /\ UNCHANGED <<live, alive, wpc, command, barrier, reply>> /\ reply[c] = None
    BY <1>0, <1>3 DEF SendBarrier, CallsAgree
  <2>3. ~InHand(c) /\ \A k \in DOMAIN queue : ~From(queue[k], c)
    BY <1>0, <2>2 DEF BarriersAgree
  <2>4. BarriersAgree'
    BY <1>0, <1>a, <2>1, <2>2, <2>3 DEF BarriersAgree, InHand
  <2>5. CallsAgree'
    BY <1>0, <2>2 DEF CallsAgree
  <2>6. WaiterIsServed'
    <3>1. ASSUME NEW d \in Callers \ {c}, pc'[d] = "await", reply'[d] = None
          PROVE  alive' /\ (InHand(d)' \/ \E k \in DOMAIN queue' : From(queue'[k], d))
      <4>1. alive /\ (InHand(d) \/ \E k \in DOMAIN queue : From(queue[k], d))
        BY <1>0, <2>2, <3>1 DEF WaiterIsServed, InHand, From
      <4> QED
        BY <1>a, <2>1, <2>2, <4>1 DEF InHand
    <3>2. alive' /\ \E k \in DOMAIN queue' : From(queue'[k], c)
      BY <1>0, <1>a, <2>1, <2>2 DEF CallsAgree
    <3> QED
      BY <3>1, <3>2 DEF WaiterIsServed, InHand, From
  <2>7. ShutdownAgrees'
    BY <1>0, <2>2 DEF ShutdownAgrees, ShutDown
  <2> QED
    BY <2>4, <2>5, <2>6, <2>7 DEF Service
<1>4. ASSUME NEW c \in Callers, Return(c) PROVE Service'
  <2>1. /\ pc'[c] = "idle" /\ reply'[c] = None
        /\ \A d \in Callers \ {c} : pc'[d] = pc[d] /\ barrier'[d] = barrier[d] /\ reply'[d] = reply[d]
        /\ UNCHANGED <<alive, queue, wpc, command>>
    BY <1>0, <1>4 DEF Return
  <2>2. ~InHand(c) /\ \A k \in DOMAIN queue : ~From(queue[k], c)
    BY <1>0, <1>4 DEF BarriersAgree, Return
  <2>3. live' = live \/ ShutDown(c)
    BY <1>4 DEF Return, ShutDown
  <2>4. BarriersAgree'
    BY <1>0, <2>1, <2>2 DEF BarriersAgree, InHand
  <2>5. CallsAgree'
    BY <1>0, <2>1, <2>3 DEF CallsAgree, ShutdownAgrees
  <2>6. WaiterIsServed'
    BY <1>0, <2>1 DEF WaiterIsServed
  <2>7. ShutdownAgrees'
    BY <1>0, <2>1, <2>3 DEF ShutdownAgrees, ShutDown
  <2> QED
    BY <2>4, <2>5, <2>6, <2>7 DEF Service
<1>5. CASE Recv
  <2>0. /\ Head(queue) \in Cmds /\ Tail(queue) \in Seq(Cmds) /\ RestAgrees(Head(queue), Tail(queue))
        /\ alive /\ wpc = "recv"
    BY <1>0, <1>5, RestOfRecv, HeadTailProperties DEF Recv
  <2>1. CASE UNCHANGED <<wpc, command>>
    <3>1. Ack(Head(queue), "ok") /\ LoopOrBreak(Head(queue), Tail(queue)) /\ UNCHANGED <<live, barrier>>
      BY <1>5, <2>1 DEF Recv
    <3> QED
      BY <2>0, <2>1, <3>1, BreakServes
  <2>2. CASE ~UNCHANGED <<wpc, command>>
    <3>1. /\ queue' = Tail(queue) /\ wpc' = "open" /\ command' = Head(queue)
          /\ UNCHANGED <<reply, alive, pc, live, barrier>>
      BY <1>5, <2>2 DEF Recv
    <3>2. BarriersAgree'
      BY <2>0, <3>1 DEF BarriersAgree, RestAgrees, InHand
    <3>3. CallsAgree'
      BY <1>0, <3>1 DEF CallsAgree
    <3>4. WaiterIsServed'
      BY <1>0, <2>0, <3>1 DEF WaiterIsServed, RestAgrees, From
    <3>5. ShutdownAgrees'
      BY <1>0, <3>1 DEF ShutdownAgrees, ShutDown
    <3> QED
      BY <3>2, <3>3, <3>4, <3>5 DEF Service
  <2> QED
    BY <2>1, <2>2
<1>6. CASE EnsureWriterOpen \/ WriteLine \/ (IoFails /\ wpc' = "open")
  <2>1. /\ UNCHANGED <<queue, command, pc, reply, barrier, live, alive>>
        /\ wpc # "recv" /\ wpc' # "recv"
    BY <1>6 DEF EnsureWriterOpen, WriteLine, IoFails, callVars
  <2>2. BarriersAgree' /\ CallsAgree'
    BY <1>0, <2>1 DEF BarriersAgree, InHand, CallsAgree
  <2>3. WaiterIsServed' /\ ShutdownAgrees'
    BY <1>0, <2>1 DEF WaiterIsServed, ShutdownAgrees, ShutDown
  <2> QED
    BY <2>2, <2>3 DEF Service
<1>7. CASE Finish
  <2>1. /\ wpc # "recv" /\ alive /\ Ack(command, "ok") /\ LoopOrBreak(command, queue) /\ wpc' = "recv"
        /\ UNCHANGED <<live, barrier>>
    BY <1>7 DEF Finish
  <2> QED
    BY <1>0, <2>1, RestOfHand, BreakServes
<1>8. CASE IoFails /\ wpc' # "open"
  <2>1. /\ wpc # "recv" /\ wpc' = "recv" /\ Ack(command, "err")
        /\ UNCHANGED <<queue, pc, barrier, live, alive>>
    BY <1>8 DEF IoFails
  <2>2. RestAgrees(command, queue) /\ command \in Cmds
    BY <1>0, <2>1, RestOfHand
  <2>3. \A c \in Callers : reply'[c] = IF From(command, c) THEN "err" ELSE reply[c]
    BY <1>0, <2>1, <2>2 DEF Ack, From, Cmds, Barriers
  <2>4. BarriersAgree'
    BY <2>1, <2>2, <2>3 DEF BarriersAgree, RestAgrees, InHand
  <2>5. CallsAgree'
    BY <1>0, <2>1, <2>2, <2>3 DEF CallsAgree, RestAgrees
  <2>6. WaiterIsServed'
    BY <1>0, <2>1, <2>2, <2>3 DEF WaiterIsServed, RestAgrees, From
  <2>7. ShutdownAgrees'
    BY <1>0, <2>1, <2>3 DEF ShutdownAgrees, ShutDown
  <2> QED
    BY <2>4, <2>5, <2>6, <2>7 DEF Service
<1>9. CASE Discard \/ ResumeThread
  <2>1. live # "live" /\ UNCHANGED <<pc, reply, barrier>>
    BY <1>9 DEF Discard, ResumeThread, callVars
  <2>2. \A c \in Callers : /\ pc[c] \notin {"add", "send"} /\ (pc[c] = "await" => reply[c] # None)
                           /\ ~ShutDown(c) /\ ~InHand(c) /\ \A k \in DOMAIN queue : ~From(queue[k], c)
    BY <1>0, <2>1 DEF CallsAgree, ShutdownAgrees, BarriersAgree
  <2>3. \A c \in Callers : ~InHand(c)' /\ \A k \in DOMAIN queue' : ~From(queue'[k], c)
    <3>1. CASE Discard
      <4>1. wpc' = "recv" /\ DOMAIN queue' = {}
        BY <3>1 DEF Discard, WriterGone
      <4> QED
        BY <4>1 DEF InHand
    <3>2. CASE ResumeThread
      BY <2>2, <3>2 DEF ResumeThread, InHand
    <3> QED
      BY <1>9, <3>1, <3>2
  <2>4. BarriersAgree'
    BY <2>3 DEF BarriersAgree
  <2>5. CallsAgree'
    BY <1>0, <2>1, <2>2 DEF CallsAgree
  <2>6. WaiterIsServed'
    BY <2>1, <2>2 DEF WaiterIsServed
  <2>7. ShutdownAgrees'
    BY <2>1, <2>2 DEF ShutdownAgrees, ShutDown
  <2> QED
    BY <2>4, <2>5, <2>6, <2>7 DEF Service
<1>10. CASE Crash
  <2>1. /\ \A c \in Callers : pc'[c] = "idle" /\ reply'[c] = None
        /\ wpc' = "recv" /\ DOMAIN queue' = {}
    BY <1>10 DEF Crash, WriterGone
  <2>2. BarriersAgree' /\ CallsAgree'
    BY <2>1 DEF BarriersAgree, InHand, CallsAgree
  <2>3. WaiterIsServed' /\ ShutdownAgrees'
    BY <2>1 DEF WaiterIsServed, ShutdownAgrees, ShutDown
  <2> QED
    BY <2>2, <2>3 DEF Service
<1> QED
  BY <1>1, <1>2, <1>3, <1>4, <1>5, <1>6, <1>7, <1>8, <1>9, <1>10 DEF Next, WriterStep, CallerStep

-----------------------------------------------------------------------------
(* Appending to a sequence, and taking its head, seen as sets. *)
LEMMA ToSetEnds ==
    ASSUME NEW S, NEW s \in Seq(S)
    PROVE  /\ \A x \in S : ToSet(Append(s, x)) = ToSet(s) \cup {x}
           /\ s # <<>> => ToSet(s) = {Head(s)} \cup ToSet(Tail(s))
<1>1. ASSUME NEW x \in S PROVE ToSet(Append(s, x)) = ToSet(s) \cup {x}
  <2>1. Append(s, x) = s \o <<x>> /\ <<x>> \in Seq(S)
    BY AppendIsConcat
  <2>2. ToSet(<<x>>) = {x}
    BY DEF ToSet
  <2> DEFINE t == <<x>>
  <2> HIDE DEF t
  <2>3. t \in Seq(S) /\ Append(s, x) = s \o t /\ ToSet(t) = {x}
    BY <2>1, <2>2 DEF t
  <2> QED
    BY <2>3, ToSetConcat
<1>2. ASSUME s # <<>> PROVE ToSet(s) = {Head(s)} \cup ToSet(Tail(s))
  <2>1. /\ Len(s) \in Nat \ {0} /\ DOMAIN s = 1 .. Len(s) /\ Head(s) = s[1]
        /\ Len(Tail(s)) = Len(s) - 1 /\ DOMAIN Tail(s) = 1 .. (Len(s) - 1)
        /\ \A i \in 1 .. (Len(s) - 1) : Tail(s)[i] = s[i + 1]
    BY <1>2, EmptySeq, LenProperties, HeadTailProperties
  <2>2. \A i \in 1 .. Len(s) : i = 1 \/ (i - 1 \in 1 .. (Len(s) - 1) /\ i = (i - 1) + 1)
    BY <2>1
  <2>3. \A i \in 1 .. (Len(s) - 1) : i + 1 \in 1 .. Len(s)
    BY <2>1
  <2>4. 1 \in 1 .. Len(s)
    BY <2>1
  <2> DEFINE t == Tail(s)  n == Len(s)
  <2>5. DOMAIN s = 1 .. n /\ DOMAIN t = 1 .. (n - 1) /\ \A i \in 1 .. (n - 1) : t[i] = s[i + 1]
    BY <2>1
  <2> HIDE DEF t, n
  <2>6. ToSet(s) \subseteq {s[1]} \cup ToSet(t)
    <3>1. ASSUME NEW i \in 1 .. n, i # 1 PROVE s[i] \in ToSet(t)
      <4>1. i - 1 \in 1 .. (n - 1) /\ s[(i - 1) + 1] = s[i]
        BY <2>2, <3>1 DEF n
      <4>2. t[i - 1] = s[i] /\ i - 1 \in DOMAIN t
        BY <2>5, <4>1
      <4> QED
        BY <4>2 DEF ToSet
    <3>2. \A x \in ToSet(s) : \E i \in 1 .. n : x = s[i]
      BY <2>5 DEF ToSet
    <3> QED
      BY <3>1, <3>2
  <2>7. {s[1]} \cup ToSet(t) \subseteq ToSet(s)
    BY <2>3, <2>4, <2>5 DEF ToSet, n
  <2> QED
    BY <2>1, <2>6, <2>7 DEF t
<1> QED
  BY <1>1, <1>2

(* A line moves an item from memory to the file. *)
LEMMA WriteLineMoves ==
    ASSUME Types, WriteLine
    PROVE  ToSet(Written) \cup ToSet(pending_items) \subseteq ToSet(Written') \cup ToSet(pending_items')
<1>0. Written \in Seq(Items) /\ pending_items \in Seq(Items)
  BY LogTypes DEF Types
<1>1. CASE meta
  <2>1. Keeps
    BY <1>1, WriteLineEffect DEF Hardens
  <2> QED
    BY <1>1, <2>1 DEF Keeps, WriteLine
<1>2. CASE ~meta
  <2> DEFINE w == Written  p == pending_items  i == Head(p)
  <2>1. p # <<>> /\ pending_items' = Tail(p)
    BY <1>2 DEF WriteLine
  <2>2. i \in Items
    BY <1>0, <2>1, HeadTailProperties
  <2>3. Written' = Append(w, i)
    <3>1. CASE Hardens
      BY <3>1 DEF Hardens
    <3>2. CASE Keeps
      <4>1. LineItems([item |-> NextLine, form |-> "whole"]) = <<i>>
        BY <1>2, <2>2 DEF LineItems, NextLine
      <4>2. [item |-> NextLine, form |-> "whole"] \in Line
        BY <1>2, <2>2 DEF Line, NextLine
      <4>3. Written' = FlattenSeq(Lines(file')) /\ w = FlattenSeq(Lines(file))
        BY DEF Written, Lines
      <4>4. Written' = w \o <<i>>
        BY <4>1, <4>2, <4>3, WrittenOf DEF WriteLine, Types
      <4> QED
        BY <1>0, <2>2, <4>4, AppendIsConcat
    <3> QED
      BY <3>1, <3>2, WriteLineEffect
  <2> HIDE DEF w, p, i
  <2>4. ToSet(p) = {i} \cup ToSet(Tail(p)) /\ ToSet(Append(w, i)) = ToSet(w) \cup {i}
    <3>1. w \in Seq(Items) /\ p \in Seq(Items)
      BY <1>0 DEF w, p
    <3> QED
      BY <2>1, <2>2, <3>1, ToSetEnds DEF i
  <2> QED
    BY <2>1, <2>3, <2>4 DEF w, p
<1> QED
  BY <1>1, <1>2

-----------------------------------------------------------------------------
(* What lies ahead of a place of the channel: nothing of the first one;    *)
(* and when its head leaves, what the head brought has left too.           *)
LEMMA AheadOf ==
    ASSUME Types
    PROVE  /\ Ahead(1) = {}
           /\ Ahead(Len(queue) + 1) = ToSet(Queued)
           /\ Len(queue) \in Nat
<1>0. Len(queue) \in Nat
  BY LenProperties DEF Types
<1>1. 1 .. (1 - 1) = {} /\ 1 .. ((Len(queue) + 1) - 1) = 1 .. Len(queue)
  BY <1>0
<1>2. Ahead(1) = {}
  BY <1>1 DEF Ahead
<1> QED
  BY <1>0, <1>1, <1>2, LogTypes DEF Ahead

LEMMA AheadOfTail ==
    ASSUME Types, queue # <<>>, queue' = Tail(queue), NEW k \in DOMAIN Tail(queue)
    PROVE  Ahead(k + 1) \subseteq ToSet(AddedItems(Head(queue))) \cup Ahead(k)'
<1>1. /\ DOMAIN Tail(queue) = 1 .. (Len(queue) - 1) /\ Len(queue) \in Nat /\ Head(queue) = queue[1]
      /\ \A i \in 1 .. (Len(queue) - 1) : Tail(queue)[i] = queue[i + 1]
  BY HeadTailProperties, LenProperties, EmptySeq DEF Types
<1>2. SUFFICES ASSUME NEW x \in Ahead(k + 1), x \notin ToSet(AddedItems(Head(queue)))
               PROVE  x \in Ahead(k)'
  OBVIOUS
<1>3. PICK j \in 1 .. ((k + 1) - 1) : x \in ToSet(AddedItems(queue[j]))
  BY <1>2 DEF Ahead
<1>4. j # 1
  BY <1>1, <1>2, <1>3
<1>5. j - 1 \in 1 .. (k - 1) /\ j - 1 \in 1 .. (Len(queue) - 1) /\ (j - 1) + 1 = j
  BY <1>1, <1>3, <1>4
<1>6. queue'[j - 1] = queue[j]
  BY <1>1, <1>5
<1> QED
  BY <1>3, <1>5, <1>6 DEF Ahead

(* A command appended to the channel is ahead of none that was there. *)
LEMMA AheadOfAppend ==
    ASSUME Types, NEW cmd \in Cmds, Send(cmd)
    PROVE  /\ \A k \in DOMAIN queue : k \in DOMAIN queue' /\ queue'[k] = queue[k] /\ Ahead(k)' = Ahead(k)
           /\ \A k \in DOMAIN queue' : k \in DOMAIN queue \/ (queue'[k] = cmd /\ Ahead(k)' = ToSet(Queued))
<1>1. /\ queue \in Seq(Cmds) /\ queue' \in Seq(Cmds) /\ Len(queue') = Len(queue) + 1 /\ Len(queue) \in Nat
      /\ \A i \in 1 .. Len(queue) : queue'[i] = queue[i]
      /\ queue'[Len(queue) + 1] = cmd
  BY AppendProperties, LenProperties DEF Send, Types
<1>2. DOMAIN queue = 1 .. Len(queue) /\ DOMAIN queue' = 1 .. (Len(queue) + 1)
  BY <1>1, LenProperties
<1>3. ASSUME NEW k \in 1 .. (Len(queue) + 1)
      PROVE  UNION {ToSet(AddedItems(queue'[j])) : j \in 1 .. (k - 1)}
               = UNION {ToSet(AddedItems(queue[j])) : j \in 1 .. (k - 1)}
  <2>1. \A j \in 1 .. (k - 1) : j \in 1 .. Len(queue)
    BY <1>1
  <2>2. \A j \in 1 .. (k - 1) : queue'[j] = queue[j]
    BY <1>1, <2>1
  <2> QED
    BY <2>2
<1>4. \A k \in 1 .. (Len(queue) + 1) :
         UNION {ToSet(AddedItems(queue'[j])) : j \in 1 .. (k - 1)} = Ahead(k)
  BY <1>3 DEF Ahead
<1>5. Len(queue) + 1 \in 1 .. (Len(queue) + 1) /\ \A k \in 1 .. Len(queue) : k \in 1 .. (Len(queue) + 1)
  BY <1>1
<1>6. UNION {ToSet(AddedItems(queue'[j])) : j \in 1 .. ((Len(queue) + 1) - 1)} = ToSet(Queued)
  BY <1>4, <1>5, AheadOf
<1>7. \A k \in DOMAIN queue : UNION {ToSet(AddedItems(queue'[j])) : j \in 1 .. (k - 1)} = Ahead(k)
  BY <1>2, <1>4, <1>5
<1>8. \A k \in DOMAIN queue : Ahead(k)' = Ahead(k)
  BY <1>7 DEF Ahead
<1>9. \A k \in DOMAIN queue' : k \in DOMAIN queue \/ (k = Len(queue) + 1 /\ queue'[k] = cmd)
  BY <1>1, <1>2
<1>a. ASSUME NEW k \in DOMAIN queue', k = Len(queue) + 1 PROVE Ahead(k)' = ToSet(Queued)
  BY <1>6, <1>a DEF Ahead
<1>10. \A k \in DOMAIN queue : k \in DOMAIN queue' /\ queue'[k] = queue[k]
  BY <1>1, <1>2
<1> QED
  BY <1>8, <1>9, <1>10, <1>a

-----------------------------------------------------------------------------
(* The bounds of what a barrier covers survive every step.  A line moves   *)
(* an item towards the file, the head of the channel hands its items over, *)
(* and an answer "ok" is given when nothing is left in memory.             *)
LEMMA CoverStep ==
    ASSUME Types, Service, CoverAgrees, Next PROVE CoverAgrees'
<1> USE RecorderAssumption
<1>0. /\ reply \in [Callers -> {None, "ok", "err"}] /\ cover \in [Callers -> SUBSET Items]
      /\ queue \in Seq(Cmds) /\ pending_items \in Seq(Items)
      /\ wpc # "recv" => command \in Cmds
      /\ BarriersAgree /\ CallsAgree
  BY DEF Types, Service
<1>1. CASE UNCHANGED <<queue, reply, cover, file, pending_items, wpc, command>>
  BY <1>1 DEF CoverAgrees, Ahead, InHand, Written
<1>2. ASSUME NEW c \in Callers, RecordCanonicalItems(c) PROVE CoverAgrees'
  <2> DEFINE cmd == [op |-> "add", items |-> batch[c]]
  <2>1. cmd \in Cmds /\ Send(cmd) /\ \A d \in Callers : ~From(cmd, d)
    BY <1>2 DEF RecordCanonicalItems, Types, Cmds, From
  <2> HIDE DEF cmd
  <2>2. UNCHANGED <<reply, cover, file, pending_items, wpc, command>>
    BY <1>2 DEF RecordCanonicalItems, fileVars, stateVars, ghostVars
  <2>3. Written' = Written
    BY <2>2 DEF Written
  <2>4. \A d \in Callers, k \in DOMAIN queue' : From(queue'[k], d) =>
            k \in DOMAIN queue /\ From(queue[k], d) /\ Ahead(k)' = Ahead(k)
    BY <2>1, AheadOfAppend
  <2> QED
    BY <2>2, <2>3, <2>4 DEF CoverAgrees, InHand
<1>3. ASSUME NEW c \in Callers, SendBarrier(c) PROVE CoverAgrees'
  <2> DEFINE cmd == [op |-> barrier[c], from |-> c]
  <2>1. cmd \in Cmds /\ Send(cmd) /\ (\A d \in Callers : From(cmd, d) => d = c)
    BY <1>0, <1>3 DEF SendBarrier, CallsAgree, Cmds, From, Barriers, Types
  <2> HIDE DEF cmd
  <2>2. /\ UNCHANGED <<reply, file, pending_items, wpc, command>> /\ reply[c] = None
        /\ pc[c] = "send" /\ cover'[c] = ToSet(Accepted) /\ \A d \in Callers \ {c} : cover'[d] = cover[d]
    BY <1>0, <1>3 DEF SendBarrier, CallsAgree, fileVars, stateVars
  <2>3. Written' = Written
    BY <2>2 DEF Written
  <2>4. ~InHand(c) /\ \A k \in DOMAIN queue : ~From(queue[k], c)
    BY <1>0, <2>2 DEF BarriersAgree
  <2>5. ASSUME NEW d \in Callers, NEW k \in DOMAIN queue', From(queue'[k], d)
        PROVE  cover'[d] \subseteq ToSet(Written) \cup ToSet(pending_items) \cup Ahead(k)'
    <3>1. CASE k \in DOMAIN queue
      <4>1. From(queue[k], d) /\ Ahead(k)' = Ahead(k) /\ d # c
        BY <2>1, <2>4, <2>5, <3>1, AheadOfAppend
      <4> QED
        BY <2>2, <3>1, <4>1 DEF CoverAgrees
    <3>2. CASE k \notin DOMAIN queue
      <4>1. d = c /\ Ahead(k)' = ToSet(Queued)
        BY <2>1, <2>5, <3>2, AheadOfAppend
      <4> QED
        BY <2>2, <4>1, LogTypes
    <3> QED
      BY <3>1, <3>2
  <2>6. \A d \in Callers : InHand(d)' => d # c /\ InHand(d)
    BY <2>2, <2>4 DEF InHand
  <2>7. \A d \in Callers : reply'[d] = "ok" => d # c /\ reply[d] = "ok"
    BY <2>2
  <2> QED
    BY <2>2, <2>3, <2>5, <2>6, <2>7 DEF CoverAgrees
<1>4. ASSUME NEW c \in Callers, Return(c) PROVE CoverAgrees'
  <2>1. /\ UNCHANGED <<queue, file, pending_items, wpc, command>>
        /\ cover'[c] = {} /\ \A d \in Callers \ {c} : cover'[d] = cover[d] /\ reply'[d] = reply[d]
    BY <1>0, <1>4 DEF Return, fileVars, stateVars
  <2>2. \A k : Ahead(k)' = Ahead(k)
    BY <2>1 DEF Ahead
  <2>3. Written' = Written
    BY <2>1 DEF Written
  <2>4. \A d \in Callers : InHand(d)' = InHand(d)
    BY <2>1 DEF InHand
  <2> QED
    BY <2>1, <2>2, <2>3, <2>4 DEF CoverAgrees
<1>a. ASSUME NEW cmd \in Cmds, Ack(cmd, "ok"), UNCHANGED <<cover, file>>,
             \A c \in Callers : From(cmd, c) => cover[c] \subseteq ToSet(Written)
      PROVE  \A c \in Callers : reply'[c] = "ok" => cover'[c] \subseteq ToSet(Written)'
  <2>1. \A c \in Callers : reply'[c] = IF From(cmd, c) THEN "ok" ELSE reply[c]
    BY <1>0, <1>a DEF Ack, From, Cmds, Barriers
  <2>2. Written' = Written
    BY <1>a DEF Written
  <2> QED
    BY <1>a, <2>1, <2>2 DEF CoverAgrees
<1>5. CASE Recv
  <2> DEFINE cmd == Head(queue)
  <2>0. queue # <<>> /\ cmd \in Cmds /\ wpc = "recv" /\ UNCHANGED <<cover, file>>
    BY <1>0, <1>5, TailIndices DEF Recv, fileVars, ghostVars
  <2>1. Written' = Written
    BY <2>0 DEF Written
  <2>2. ToSet(pending_items') = ToSet(pending_items) \cup ToSet(AddedItems(cmd))
    <3> DEFINE a == AddedItems(cmd)
    <3>1. a \in Seq(Items) /\ pending_items' = pending_items \o a
      BY <1>5, <2>0 DEF AddedItems, Cmds, Barriers, Recv
    <3> HIDE DEF a
    <3>2. ToSet(pending_items') = ToSet(pending_items) \cup ToSet(a)
      BY <1>0, <3>1, ToSetConcat
    <3> QED
      BY <3>2 DEF a
  <2>3. \A c \in Callers : From(cmd, c) => cover[c] \subseteq ToSet(Written) \cup ToSet(pending_items)
    BY <2>0, AheadOf, TailIndices DEF CoverAgrees
  <2>4. ASSUME NEW c \in Callers, NEW k \in DOMAIN queue', From(queue'[k], c)
        PROVE  cover[c] \subseteq ToSet(Written) \cup ToSet(pending_items') \cup Ahead(k)'
    <3>1. queue' = Tail(queue)
      <4>1. queue' = Tail(queue) \/ queue' = <<>>
        BY <1>5 DEF Recv, LoopOrBreak
      <4>2. DOMAIN <<>> = {}
        OBVIOUS
      <4> QED
        BY <2>4, <4>1, <4>2
    <3>2. From(queue[k + 1], c) /\ k + 1 \in DOMAIN queue /\ k \in DOMAIN Tail(queue)
      BY <2>0, <2>4, <3>1, TailIndices
    <3>3. cover[c] \subseteq ToSet(Written) \cup ToSet(pending_items) \cup Ahead(k + 1)
      BY <3>2 DEF CoverAgrees
    <3>4. Ahead(k + 1) \subseteq ToSet(AddedItems(cmd)) \cup Ahead(k)'
      BY <2>0, <3>1, <3>2, AheadOfTail
    <3> QED
      BY <2>2, <3>3, <3>4
  <2>5. CASE UNCHANGED wpc
    <3>1. Ack(cmd, "ok") /\ (cmd.op # "add" => pending_items = <<>>)
      BY <1>5, <2>0, <2>5 DEF Recv, Cmds, Barriers
    <3>2. \A c \in Callers : From(cmd, c) => cover[c] \subseteq ToSet(Written)
      <4>1. ToSet(<<>>) = {}
        BY DEF ToSet
      <4> QED
        BY <2>3, <3>1, <4>1 DEF From
    <3>3. \A c \in Callers : reply'[c] = "ok" => cover'[c] \subseteq ToSet(Written)'
      BY <1>a, <2>0, <3>1, <3>2
    <3>4. \A c \in Callers : ~InHand(c)'
      BY <2>0, <2>5 DEF InHand
    <3> QED
      BY <2>0, <2>1, <2>4, <3>3, <3>4 DEF CoverAgrees
  <2>6. CASE ~UNCHANGED wpc
    <3>1. command' = cmd /\ UNCHANGED reply
      BY <1>5, <2>6 DEF Recv
    <3>2. \A c \in Callers : InHand(c)' => cover'[c] \subseteq ToSet(Written') \cup ToSet(pending_items')
      BY <2>0, <2>1, <2>2, <2>3, <3>1 DEF InHand
    <3>3. \A c \in Callers : reply'[c] = "ok" => cover'[c] \subseteq ToSet(Written')
      BY <2>0, <2>1, <3>1 DEF CoverAgrees
    <3> QED
      BY <2>0, <2>1, <2>4, <3>2, <3>3 DEF CoverAgrees
  <2> QED
    BY <2>5, <2>6
<1>b. ASSUME queue' = queue \/ DOMAIN queue' = {}, UNCHANGED cover,
             ToSet(Written) \cup ToSet(pending_items) \subseteq ToSet(Written') \cup ToSet(pending_items')
      PROVE  \A c \in Callers, k \in DOMAIN queue' : From(queue'[k], c) =>
                 cover'[c] \subseteq ToSet(Written') \cup ToSet(pending_items') \cup Ahead(k)'
  <2>1. SUFFICES ASSUME NEW c \in Callers, NEW k \in DOMAIN queue', From(queue'[k], c)
                 PROVE  cover'[c] \subseteq ToSet(Written') \cup ToSet(pending_items') \cup Ahead(k)'
    OBVIOUS
  <2>2. queue' = queue
    BY <1>b, <2>1
  <2>3. Ahead(k)' = Ahead(k)
    BY <2>2 DEF Ahead
  <2>4. cover[c] \subseteq ToSet(Written) \cup ToSet(pending_items) \cup Ahead(k)
    BY <2>1, <2>2 DEF CoverAgrees
  <2> QED
    BY <1>b, <2>3, <2>4
<1>6. CASE EnsureWriterOpen \/ WriteLine \/ IoFails
  <2>1. /\ UNCHANGED <<queue, cover>> /\ wpc # "recv"
        /\ wpc' # "recv" => UNCHANGED <<command, reply>>
        /\ wpc' = "recv" => Ack(command, "err")
    BY <1>6 DEF EnsureWriterOpen, WriteLine, IoFails, callVars, ghostVars
  <2>2. /\ ToSet(Written) \subseteq ToSet(Written')
        /\ ToSet(Written) \cup ToSet(pending_items) \subseteq ToSet(Written') \cup ToSet(pending_items')
    <3>1. CASE EnsureWriterOpen
      BY <3>1 DEF EnsureWriterOpen, Written
    <3>2. CASE WriteLine
      <4>1. ToSet(Written) \subseteq ToSet(Written')
        <5>1. CASE Keeps
          BY <5>1 DEF Keeps
        <5>2. ASSUME NEW i \in Items, Written' = Append(Written, i)
              PROVE  ToSet(Written) \subseteq ToSet(Written')
          <6> DEFINE w == Written
          <6>1. w \in Seq(Items)
            BY LogTypes
          <6> HIDE DEF w
          <6>2. ToSet(Append(w, i)) = ToSet(w) \cup {i}
            BY <6>1, ToSetEnds
          <6> QED
            BY <5>2, <6>2 DEF w
        <5> QED
          BY <3>2, <5>1, <5>2, WriteLineEffect DEF Hardens
      <4> QED
        BY <3>2, <4>1, WriteLineMoves
    <3>3. CASE IoFails
      <4>1. Written' = Written
        BY <3>3, RemainsBringsNothing DEF IoFails, Written
      <4> QED
        BY <3>3, <4>1 DEF IoFails, KeepPending
    <3> QED
      BY <1>6, <3>1, <3>2, <3>3
  <2>3. \A c \in Callers : InHand(c)' => InHand(c)
    BY <2>1 DEF InHand
  <2>4. \A c \in Callers : reply'[c] = "ok" => reply[c] = "ok"
    <3>1. CASE wpc' = "recv"
      <4>1. \A c \in Callers : reply'[c] = IF From(command, c) THEN "err" ELSE reply[c]
        BY <1>0, <2>1, <3>1 DEF Ack, From, Cmds, Barriers
      <4> QED
        BY <4>1
    <3>2. CASE wpc' # "recv"
      BY <2>1, <3>2
    <3> QED
      BY <3>1, <3>2
  <2>5. \A c \in Callers : InHand(c)' => cover'[c] \subseteq ToSet(Written') \cup ToSet(pending_items')
    BY <2>1, <2>2, <2>3 DEF CoverAgrees
  <2>6. \A c \in Callers : reply'[c] = "ok" => cover'[c] \subseteq ToSet(Written')
    BY <2>1, <2>2, <2>4 DEF CoverAgrees
  <2> QED
    BY <1>b, <2>1, <2>2, <2>5, <2>6 DEF CoverAgrees
<1>7. CASE Finish
  <2>1. /\ UNCHANGED <<cover, file, pending_items>> /\ Ack(command, "ok") /\ wpc # "recv" /\ wpc' = "recv"
        /\ pending_items = <<>>
    BY <1>7 DEF Finish, fileVars, stateVars, ghostVars
  <2>2. queue' = queue \/ DOMAIN queue' = {}
    <3>1. queue' = queue \/ queue' = <<>>
      BY <1>7 DEF Finish, LoopOrBreak
    <3> QED
      BY <3>1
  <2>3. Written' = Written
    BY <2>1 DEF Written
  <2>4. \A c \in Callers : From(command, c) => cover[c] \subseteq ToSet(Written)
    <3>1. ToSet(<<>>) = {}
      BY DEF ToSet
    <3> QED
      BY <2>1, <3>1 DEF CoverAgrees, InHand
  <2>5. \A c \in Callers : reply'[c] = "ok" => cover'[c] \subseteq ToSet(Written)'
    BY <1>0, <1>a, <2>1, <2>4
  <2>6. \A c \in Callers : ~InHand(c)'
    BY <2>1 DEF InHand
  <2>7. \A c \in Callers, k \in DOMAIN queue' : From(queue'[k], c) =>
            cover'[c] \subseteq ToSet(Written') \cup ToSet(pending_items') \cup Ahead(k)'
    BY <1>b, <2>1, <2>2, <2>3
  <2> QED
    BY <2>5, <2>6, <2>7 DEF CoverAgrees
<1>8. CASE Discard \/ ResumeThread
  <2>1. live # "live" /\ UNCHANGED <<file, cover, reply>>
    BY <1>8 DEF Discard, ResumeThread, fileVars, callVars, ghostVars
  <2>2. \A c \in Callers : ~InHand(c) /\ \A k \in DOMAIN queue : ~From(queue[k], c)
    BY <1>0, <2>1 DEF CallsAgree, BarriersAgree
  <2>3. \A c \in Callers : ~InHand(c)' /\ \A k \in DOMAIN queue' : ~From(queue'[k], c)
    <3>1. CASE Discard
      <4>1. wpc' = "recv" /\ DOMAIN queue' = {}
        BY <3>1 DEF Discard, WriterGone
      <4> QED
        BY <4>1 DEF InHand
    <3>2. CASE ResumeThread
      BY <2>2, <3>2 DEF ResumeThread, InHand
    <3> QED
      BY <1>8, <3>1, <3>2
  <2>4. Written' = Written
    BY <2>1 DEF Written
  <2> QED
    BY <2>1, <2>3, <2>4 DEF CoverAgrees
<1>9. CASE Crash
  <2>1. (\A c \in Callers : reply'[c] = None) /\ wpc' = "recv" /\ DOMAIN queue' = {}
    BY <1>9 DEF Crash, WriterGone
  <2> QED
    BY <2>1 DEF CoverAgrees, InHand
<1>10. ASSUME NEW c \in Callers, Call(c) PROVE CoverAgrees'
  BY <1>1, <1>10 DEF Call, fileVars, stateVars
<1> QED
  BY <1>2, <1>3, <1>4, <1>5, <1>6, <1>7, <1>8, <1>9, <1>10 DEF Next, WriterStep, CallerStep

-----------------------------------------------------------------------------
(* The file holds the metadata line of the thread. *)
MetaHere == \E j \in DOMAIN file : file[j].item = Meta /\ file[j].form \in {"whole", "bare"}

(* A line appended keeps the order if it is the metadata or comes after it. *)
LEMMA LineAppended ==
    ASSUME Types, MetaLeads, NEW l \in Line, file' = Append(file, l), l.item # Meta => MetaHere
    PROVE  /\ MetaLeads' /\ (MetaHere => MetaHere')
           /\ l.item = Meta /\ l.form = "whole" => MetaHere'
<1> DEFINE n == Len(file)
<1>1. /\ n \in Nat /\ DOMAIN file = 1 .. n /\ DOMAIN file' = 1 .. (n + 1)
      /\ (\A i \in 1 .. n : file'[i] = file[i]) /\ file'[n + 1] = l
  <2>1. file \in Seq(Line)
    BY DEF Types
  <2>2. /\ file' \in Seq(Line) /\ Len(file') = n + 1 /\ n \in Nat
        /\ (\A i \in 1 .. n : file'[i] = file[i]) /\ file'[n + 1] = l
    BY <2>1, AppendProperties, LenProperties
  <2> QED
    BY <2>1, <2>2, LenProperties
<1> HIDE DEF n
<1>2. (\A k \in 1 .. (n + 1) : k = n + 1 \/ k \in 1 .. n) /\ n + 1 \in 1 .. (n + 1)
      /\ \A k \in 1 .. n : k \in 1 .. (n + 1)
  BY <1>1
<1>3. MetaHere => MetaHere'
  BY <1>1, <1>2 DEF MetaHere
<1>4. l.item = Meta /\ l.form = "whole" => MetaHere'
  BY <1>1, <1>2 DEF MetaHere
<1>5. ASSUME NEW k \in DOMAIN file', file'[k].item # Meta
      PROVE  \E j \in 1 .. (k - 1) : file'[j].item = Meta /\ file'[j].form \in {"whole", "bare"}
  <2>1. CASE k = n + 1
    <3>1. MetaHere /\ (n + 1) - 1 = n
      BY <1>1, <1>5, <2>1
    <3> QED
      BY <1>1, <2>1, <3>1 DEF MetaHere
  <2>2. CASE k \in 1 .. n
    <3>1. PICK j \in 1 .. (k - 1) : file[j].item = Meta /\ file[j].form \in {"whole", "bare"}
      BY <1>1, <1>5, <2>2 DEF MetaLeads
    <3>2. j \in 1 .. n
      BY <1>1, <2>2
    <3> QED
      BY <1>1, <3>1, <3>2
  <2> QED
    BY <1>1, <1>2, <2>1, <2>2
<1> QED
  BY <1>3, <1>4, <1>5 DEF MetaLeads

(* What a failed write leaves behind keeps the order too. *)
LEMMA RemainsAppended ==
    ASSUME Types, MetaLeads, MetaKnown, alive, meta \/ pending_items # <<>>, Remains
    PROVE  MetaLeads' /\ (MetaHere => MetaHere')
<1>1. CASE file' = file
  BY <1>1 DEF MetaLeads, MetaHere
<1>2. ASSUME NEW form \in {"torn", "bare"}, file' = Append(file, [item |-> NextLine, form |-> form])
      PROVE  MetaLeads' /\ (MetaHere => MetaHere')
  <2> DEFINE l == [item |-> NextLine, form |-> form]
  <2>1. l \in Line /\ (l.item # Meta => MetaHere)
    BY NextLineType DEF Line, NextLine, MetaKnown, MetaHere
  <2> HIDE DEF l
  <2>2. file' = Append(file, l)
    BY <1>2 DEF l
  <2> QED
    BY <2>1, <2>2, LineAppended
<1> QED
  BY <1>1, <1>2 DEF Remains

LEMMA MetaStep ==
    ASSUME Types, MetaKnown, MetaLeads, Next PROVE MetaKnown' /\ MetaLeads'
<1>0. alive /\ ~meta => MetaHere
  BY DEF MetaKnown, MetaHere
<1>1. ASSUME UNCHANGED file, alive' /\ ~meta' => alive /\ ~meta PROVE MetaKnown' /\ MetaLeads'
  BY <1>1 DEF MetaKnown, MetaLeads
<1>2. ASSUME NEW c \in Callers, Call(c) \/ CallerStep(c) PROVE MetaKnown' /\ MetaLeads'
  BY <1>1, <1>2 DEF Call, CallerStep, RecordCanonicalItems, SendBarrier, Return, fileVars, stateVars
<1>3. CASE Recv \/ EnsureWriterOpen \/ Finish
  BY <1>1, <1>3 DEF Recv, EnsureWriterOpen, Finish, fileVars, stateVars
<1>4. CASE WriteLine
  <2> DEFINE l == [item |-> NextLine, form |-> "whole"]
  <2>1. l \in Line /\ (l.item # Meta => MetaHere) /\ (meta => l.item = Meta) /\ l.form = "whole" /\ alive
    BY <1>0, <1>4, NextLineType DEF Line, NextLine, WriteLine
  <2> HIDE DEF l
  <2>2. file' = Append(file, l)
    BY <1>4 DEF WriteLine, l
  <2>3. MetaLeads' /\ MetaHere'
    BY <1>0, <2>1, <2>2, LineAppended
  <2> QED
    BY <2>3 DEF MetaKnown, MetaHere
<1>5. CASE IoFails
  <2>1. MetaLeads' /\ (MetaHere => MetaHere')
    <3>1. CASE UNCHANGED file
      BY <3>1 DEF MetaLeads, MetaHere
    <3>2. CASE alive /\ (meta \/ pending_items # <<>>) /\ Remains
      BY <3>2, RemainsAppended
    <3> QED
      BY <1>5, <3>1, <3>2 DEF IoFails
  <2>2. alive /\ meta' = meta
    BY <1>5 DEF IoFails
  <2> QED
    BY <1>0, <2>1, <2>2 DEF MetaKnown, MetaHere
<1>6. CASE Discard \/ Crash
  <2>1. ~alive'
    BY <1>6 DEF Discard, Crash, WriterGone
  <2>2. MetaLeads'
    <3>1. CASE UNCHANGED file
      BY <3>1 DEF MetaLeads
    <3>2. CASE alive /\ (meta \/ pending_items # <<>>) /\ Remains
      BY <3>2, RemainsAppended
    <3> QED
      BY <1>6, <3>1, <3>2 DEF Discard, Crash, fileVars
  <2> QED
    BY <2>1, <2>2 DEF MetaKnown
<1>7. CASE ResumeThread
  <2>1. UNCHANGED file /\ Meta \in LoadedItems(file)
    BY <1>7 DEF ResumeThread, fileVars
  <2>2. MetaHere
    BY <2>1 DEF LoadedItems, Parses, MetaHere
  <2> QED
    BY <2>1, <2>2 DEF MetaKnown, MetaHere, MetaLeads
<1> QED
  BY <1>2, <1>3, <1>4, <1>5, <1>6, <1>7 DEF Next, WriterStep

-----------------------------------------------------------------------------
LEMMA InitIInv == Init => IInv
<1> USE RecorderAssumption
<1> SUFFICES ASSUME Init PROVE IInv
  OBVIOUS
<1>0. queue = <<>> /\ file = <<>> /\ pending_items = <<>> /\ DOMAIN queue = {} /\ DOMAIN file = {}
  BY DEF Init
<1>1. Types
  BY DEF Init, Types
<1>2. BarriersAgree /\ CallsAgree
  BY <1>0 DEF Init, BarriersAgree, CallsAgree, InHand
<1>3. WaiterIsServed /\ ShutdownAgrees
  BY DEF Init, WaiterIsServed, ShutdownAgrees, ShutDown
<1>4. CoverAgrees
  BY <1>0 DEF Init, CoverAgrees, InHand
<1>5. MetaKnown /\ MetaLeads
  BY <1>0 DEF Init, MetaKnown, MetaLeads
<1>6. Accepted = <<>>
  <2>1. Lines(<<>>) = <<>> /\ Adds(<<>>) = <<>>
    BY DEF Lines, Adds
  <2>2. FlattenSeq(<<>>) = <<>>
    BY DEF FlattenSeq
  <2>3. Written = FlattenSeq(Lines(file)) /\ Queued = FlattenSeq(Adds(queue))
    BY DEF Written, Lines, Queued, Adds
  <2>4. Accepted = (<<>> \o <<>>) \o <<>>
    BY <1>0, <2>1, <2>2, <2>3 DEF Accepted
  <2>5. <<>> \o <<>> = <<>>
    OBVIOUS
  <2> QED
    BY <2>4, <2>5
<1>7. AcceptedOnce
  <2>1. IsInjective(<<>>) /\ ToSet(<<>>) = {}
    BY DEF IsInjective, ToSet
  <2> QED
    BY <1>6, <2>1 DEF AcceptedOnce, Init
<1> QED
  BY <1>1, <1>2, <1>3, <1>4, <1>5, <1>7 DEF IInv

LEMMA StepIInv == IInv /\ [Next]_vars => IInv'
<1> SUFFICES ASSUME IInv, [Next]_vars PROVE IInv'
  OBVIOUS
<1>0. Types /\ Service /\ CallsAgree /\ CoverAgrees /\ AcceptedOnce /\ MetaKnown /\ MetaLeads
  BY DEF IInv, Service
<1>1. CASE Next
  <2>1. Types' /\ Service' /\ CoverAgrees' /\ AcceptedOnce' /\ MetaKnown' /\ MetaLeads'
    BY <1>0, <1>1, TypesStep, ServiceStep, CoverStep, OnceStep, MetaStep
  <2> QED
    BY <2>1 DEF IInv, Service
<1>2. CASE UNCHANGED vars
  <2> USE <1>0, <1>2 DEF vars, stateVars, fileVars, callVars, ghostVars
  <2>1. Types'
    BY DEF Types
  <2>2. BarriersAgree' /\ CallsAgree' /\ WaiterIsServed' /\ ShutdownAgrees'
    BY DEF Service, BarriersAgree, CallsAgree, WaiterIsServed, ShutdownAgrees, ShutDown, InHand
  <2>3. CoverAgrees'
    BY DEF CoverAgrees, InHand, Ahead, Written
  <2>4. AcceptedOnce'
    BY DEF AcceptedOnce, Accepted, Written, Queued
  <2>5. MetaKnown' /\ MetaLeads'
    BY DEF MetaKnown, MetaLeads
  <2> QED
    BY <2>1, <2>2, <2>3, <2>4, <2>5 DEF IInv
<1> QED
  BY <1>1, <1>2

(* Every reachable state satisfies the inductive invariant. *)
THEOREM IInvHolds == Spec => []IInv
BY InitIInv, StepIInv, PTL DEF Spec

(* No item is written ahead of the thread's SessionMeta line.              *)
THEOREM MetaLeadsHolds == Spec => []MetaLeads
<1>1. IInv => MetaLeads
  BY DEF IInv
<1> QED
  BY <1>1, IInvHolds, PTL

(* No call of the thread store waits for an ack that cannot come.          *)
THEOREM WaiterIsServedHolds == Spec => []WaiterIsServed
<1>1. IInv => WaiterIsServed
  BY DEF IInv
<1> QED
  BY <1>1, IInvHolds, PTL

-----------------------------------------------------------------------------
(* The first part of a concatenation. *)
LEMMA ConcatStart ==
    ASSUME NEW S, NEW s \in Seq(S), NEW t \in Seq(S)
    PROVE  /\ SubSeq(s \o t, 1, Len(s)) = s /\ IsPrefix(s, s \o t)
           /\ {(s \o t)[k] : k \in 1 .. Len(s)} = ToSet(s)
<1> DEFINE n == Len(s)  u == s \o t
<1>1. n \in Nat /\ DOMAIN s = 1 .. n /\ Len(t) \in Nat
  BY LenProperties
<1>2. /\ u \in Seq(S) /\ Len(u) = n + Len(t)
      /\ \A i \in 1 .. n + Len(t) : u[i] = IF i <= n THEN s[i] ELSE t[i - n]
  BY ConcatProperties
<1> HIDE DEF u, n
<1>3. \A i \in 1 .. n : i \in 1 .. n + Len(t) /\ i <= n
  BY <1>1
<1>4. \A i \in 1 .. n : u[i] = s[i]
  BY <1>2, <1>3
<1>5. SubSeq(u, 1, n) = s
  <2>1. \A i \in 1 .. n : u[i] \in S
    BY <1>1, <1>4
  <2>2. /\ SubSeq(u, 1, n) \in Seq(S) /\ Len(SubSeq(u, 1, n)) = n
        /\ \A i \in 1 .. n : SubSeq(u, 1, n)[i] = u[i]
    <3>1. 1 \in Int /\ n \in Int /\ (1 <= n => (n - 1) + 1 = n) /\ (~(1 <= n) => n = 0) /\ n - 1 + 1 = n
          /\ \A i \in 1 .. n : 1 + i - 1 = i
      BY <1>1
    <3>2. /\ SubSeq(u, 1, n) \in Seq(S)
          /\ Len(SubSeq(u, 1, n)) = IF 1 <= n THEN n - 1 + 1 ELSE 0
          /\ \A i \in 1 .. (n - 1 + 1) : SubSeq(u, 1, n)[i] = u[1 + i - 1]
      BY <2>1, <3>1, SubSeqProperties
    <3> QED
      BY <3>1, <3>2
  <2>3. Len(SubSeq(u, 1, n)) = Len(s)
    BY <2>2 DEF n
  <2>4. \A i \in 1 .. Len(SubSeq(u, 1, n)) : SubSeq(u, 1, n)[i] = s[i]
    BY <1>4, <2>2
  <2> DEFINE v == SubSeq(u, 1, n)
  <2>5. v \in Seq(S) /\ Len(v) = Len(s) /\ \A i \in 1 .. Len(v) : v[i] = s[i]
    BY <2>2, <2>3, <2>4
  <2> HIDE DEF v
  <2>6. v = s
    BY <2>5, SeqEqual
  <2> QED
    BY <2>6 DEF v
<1>6. SubSeq(s, 1, n) = s /\ n <= Len(u)
  BY <1>1, <1>2, SubSeqFull DEF n
<1>7. IsPrefix(s, u)
  BY <1>5, <1>6 DEF IsPrefix, n
<1>8. {u[k] : k \in 1 .. n} = ToSet(s)
  BY <1>1, <1>4 DEF ToSet
<1> QED
  BY <1>5, <1>7, <1>8 DEF u, n

(* The durable part of the log is what the file holds. *)
LEMMA LogParts ==
    ASSUME Types
    PROVE  /\ SubSeq(Accepted, 1, Len(Written)) = Written
           /\ {Accepted[k] : k \in 1 .. Len(Written)} = ToSet(Written)
<1> DEFINE w == Written  p == pending_items  q == Queued  t == p \o q
<1>1. w \in Seq(Items) /\ p \in Seq(Items) /\ q \in Seq(Items)
  BY LogTypes DEF Types
<1>2. Accepted = (w \o p) \o q
  BY DEF Accepted
<1> HIDE DEF w, p, q
<1>3. Accepted = w \o (p \o q)
  BY <1>1, <1>2, ConcatAssociative
<1>4. t \in Seq(Items) /\ Accepted = w \o t
  BY <1>1, <1>3, ConcatProperties
<1> HIDE DEF t
<1>5. SubSeq(w \o t, 1, Len(w)) = w /\ {(w \o t)[k] : k \in 1 .. Len(w)} = ToSet(w)
  BY <1>1, <1>4, ConcatStart
<1> QED
  BY <1>4, <1>5 DEF w

(* While the writer lives, no step shortens the log: an I/O error keeps    *)
(* the unwritten suffix in pending_items.                                  *)
THEOREM ErrorsLoseNothingHolds == Spec => ErrorsLoseNothing
<1>1. ASSUME IInv, [Next]_vars PROVE [alive /\ alive' => Len(Accepted') >= Len(Accepted)]_vars
  <2>0. Types /\ CallsAgree
    BY <1>1 DEF IInv
  <2>1. CASE UNCHANGED vars
    BY <2>1
  <2>2. ASSUME Next, alive' PROVE Len(Accepted') >= Len(Accepted)
    <3>0. Accepted \in Seq(Items) /\ Len(Accepted) \in Nat
      BY <2>0, LogTypes, LenProperties
    <3>1. CASE Accepted' = Accepted
      BY <3>0, <3>1
    <3>2. ASSUME NEW c \in Callers, Accepts(c) PROVE Len(Accepted') >= Len(Accepted)
      <4> DEFINE a == Accepted  b == batch[c]
      <4>1. a \in Seq(Items) /\ b \in Seq(Items) /\ Accepted' = a \o b
        BY <2>0, <3>0, <3>2 DEF Accepts, Types
      <4> HIDE DEF a, b
      <4>2. Len(a \o b) = Len(a) + Len(b) /\ Len(a) \in Nat /\ Len(b) \in Nat
        BY <4>1, ConcatProperties, LenProperties
      <4> QED
        BY <4>1, <4>2 DEF a
    <3> QED
      BY <2>0, <2>2, <3>1, <3>2, LogEffect DEF Keeps, Hardens, Loses
  <2> QED
    BY <1>1, <2>1, <2>2
<1> QED
  BY <1>1, IInvHolds, PTL DEF Spec, ErrorsLoseNothing

-----------------------------------------------------------------------------
(* Only the return of a call promises anything, and only what is written. *)
LEMMA PromiseStep ==
    ASSUME Types, CoverAgrees, Next
    PROVE  \/ promised' = promised
           \/ /\ promised \subseteq promised' /\ promised' \subseteq promised \cup ToSet(Written)
              /\ Keeps
<1>1. ASSUME NEW c \in Callers, Return(c)
      PROVE  /\ promised \subseteq promised' /\ promised' \subseteq promised \cup ToSet(Written)
             /\ Keeps
  <2>1. Keeps
    BY <1>1 DEF Return, fileVars, stateVars, Keeps, Accepted, Written, Queued
  <2>2. promised' = promised \/ (reply[c] = "ok" /\ promised' = promised \cup cover[c])
    BY <1>1 DEF Return
  <2>3. reply[c] = "ok" => cover[c] \subseteq ToSet(Written)
    BY DEF CoverAgrees
  <2> QED
    BY <2>1, <2>2, <2>3
<1>2. ASSUME NEW c \in Callers, Call(c) \/ RecordCanonicalItems(c) \/ SendBarrier(c) PROVE promised' = promised
  BY <1>2 DEF Call, RecordCanonicalItems, SendBarrier, ghostVars
<1>3. CASE WriterStep \/ Discard \/ Crash \/ ResumeThread
  BY <1>3 DEF WriterStep, Recv, EnsureWriterOpen, WriteLine, Finish, IoFails, Discard, Crash,
              ResumeThread, ghostVars
<1> QED
  BY <1>1, <1>2, <1>3 DEF Next, CallerStep

(* Every step of the recorder is a step of the log or leaves it alone. *)
LEMMA LogStep ==
    ASSUME IInv, Next PROVE [Log!LogNext]_(Log!logVars)
<1>0. Types /\ CallsAgree /\ CoverAgrees /\ AcceptedOnce /\ Types' /\ AcceptedOnce'
  BY StepIInv DEF IInv
<1>a. Accepted \in Seq(Items) /\ Written \in Seq(Items)
  BY <1>0, LogTypes
<1>1. CASE promised' # promised
  <2>1. /\ promised \subseteq promised' /\ promised' \subseteq promised \cup ToSet(Written)
        /\ Accepted' = Accepted /\ Written' = Written
    BY <1>0, <1>1, PromiseStep DEF Keeps
  <2>2. Log!DurableItems = ToSet(Written)
    BY <1>0, LogParts DEF Log!DurableItems
  <2>3. Log!Promise
    BY <2>1, <2>2 DEF Log!Promise
  <2> QED
    BY <2>3 DEF Log!LogNext
<1>2. CASE promised' = promised
  <2>1. CASE Keeps
    BY <1>2, <2>1 DEF Keeps, Log!logVars
  <2>2. CASE Loses
    <3>1. Log!LoseSuffix
      BY <1>0, <1>2, <2>2, LogParts DEF Log!LoseSuffix, Loses
    <3> QED
      BY <3>1 DEF Log!LogNext
  <2>3. CASE Hardens
    <3>1. pending_items # <<>> /\ Accepted' = Accepted
      BY <2>3 DEF Hardens, WriteLine
    <3>2. Len(pending_items) \in Nat \ {0} /\ Len(Written) \in Nat /\ Len(Queued) \in Nat
          /\ Len(Accepted) = Len(Written) + Len(pending_items) + Len(Queued)
      BY <1>0, <3>1, LogTypes, EmptySeq, LenProperties DEF Types
    <3>3. Len(Written') = Len(Written) + 1
      BY <1>a, <2>3, AppendProperties DEF Hardens
    <3>4. Log!Harden
      BY <1>2, <3>1, <3>2, <3>3 DEF Log!Harden
    <3> QED
      BY <3>4 DEF Log!LogNext
  <2>4. ASSUME NEW c \in Callers, Accepts(c) PROVE Log!Accept
    <3> DEFINE a == Accepted  b == batch[c]
    <3>1. a \in Seq(Items) /\ b \in Seq(Items) /\ Accepted' = a \o b
      BY <1>0, <1>a, <2>4 DEF Accepts, Types
    <3> HIDE DEF a, b
    <3>2. IsPrefix(a, a \o b)
      BY <3>1, ConcatStart
    <3>3. IsPrefix(Accepted, Accepted')
      BY <3>1, <3>2 DEF a
    <3>4. IsInjective(Accepted') /\ ToSet(Accepted') \subseteq Items
      <4>1. IsInjective(Accepted') /\ ToSet(Accepted') \subseteq 1 .. produced' /\ produced' \in 0 .. MaxItems
        BY <1>0 DEF AcceptedOnce, Types
      <4>2. 1 .. produced' \subseteq 1 .. MaxItems
        BY <4>1, RecorderAssumption
      <4> QED
        BY <4>1, <4>2 DEF Items
    <3>5. Log!IsPrefix(Accepted, Accepted') /\ Log!IsInjective(Accepted') /\ Log!ToSet(Accepted') \subseteq Items
      BY <3>3, <3>4 DEF Log!IsPrefix, IsPrefix, Log!IsInjective, IsInjective, Log!ToSet, ToSet
    <3> QED
      BY <1>2, <2>4, <3>5 DEF Log!Accept, Accepts
  <2> QED
    BY <1>0, <2>1, <2>2, <2>3, <2>4, LogEffect DEF Log!LogNext
<1> QED
  BY <1>1, <1>2

LEMMA LogStart == Init => Log!LogInit
<1> SUFFICES ASSUME Init PROVE Log!LogInit
  OBVIOUS
<1>1. Lines(<<>>) = <<>> /\ Adds(<<>>) = <<>> /\ queue = <<>> /\ file = <<>> /\ pending_items = <<>>
  BY DEF Lines, Adds, Init
<1>2. FlattenSeq(<<>>) = <<>>
  BY DEF FlattenSeq
<1>3. Written = FlattenSeq(Lines(file)) /\ Queued = FlattenSeq(Adds(queue))
  BY DEF Written, Lines, Queued, Adds
<1>4. Written = <<>> /\ Accepted = (<<>> \o <<>>) \o <<>>
  BY <1>1, <1>2, <1>3 DEF Accepted
<1>5. <<>> \o <<>> = <<>> /\ Len(<<>>) = 0
  OBVIOUS
<1> QED
  BY <1>4, <1>5 DEF Log!LogInit, Init

(* The recorder implements the append-only log: items reach the file once  *)
(* and in the order they were accepted, only an unpromised suffix is lost, *)
(* and a call returns Ok only when what it covers is in the file.          *)
THEOREM ImplementsLogHolds == Spec => ImplementsLog
<1>1. IInv /\ [Next]_vars => [Log!LogNext]_(Log!logVars)
  <2>1. UNCHANGED vars => UNCHANGED Log!logVars
    BY DEF vars, stateVars, fileVars, ghostVars, Log!logVars, Accepted, Written, Queued
  <2> QED
    BY <2>1, LogStep
<1> QED
  BY <1>1, LogStart, IInvHolds, PTL DEF Spec, ImplementsLog, Log!LogSpec

(***************************************************************************)
(* RolloutFiles keeps every line, for every set of workers and of          *)
(* writers.                                                                *)
(***************************************************************************)

Looking == {"siblingCheck", "encode", "check1", "persist"}
Finishing == {"check2", "removePlain", "removeCompressed"}
Materialising(a) ==
    apc[a] \in {"compressedExists", "decompress", "link", "unlinkCompressed"}

(* What a file holds; the files, and the locals of workers and writers. *)
LineSets == SUBSET (0 .. MaxLines)

DiskTypes ==
    /\ plain \in Inodes \cup {NoFile}
    /\ compressed \in LineSets \cup {NoFile}
    /\ content \in [Inodes -> LineSets]
    /\ cold \subseteq Inodes /\ marker \in {"none", "fresh", "stale"}
    /\ written \subseteq 0 .. MaxLines

WorkerTypes ==
    /\ cpc \in [Workers -> {"idle", "unlinkMarker", "createMarker", "cold"}
                           \cup Looking \cup Finishing]
    /\ same \in [Workers -> BOOLEAN]
    /\ snapshot \in [Workers -> LineSets]

OpenerTypes ==
    /\ apc \in [Writers -> {"idle", "compressedExists", "decompress", "link",
                            "unlinkCompressed", "open"}]
    /\ tmp \in [Writers -> LineSets \cup {NoFile}]
    /\ \A a \in Writers : (apc[a] = "link") <=> (tmp[a] # NoFile)
    /\ handle \in [Writers -> Inodes \cup {NoFile}]

FileTypes == DiskTypes /\ WorkerTypes /\ OpenerTypes

(* The lines the two files owe their readers: the plain file has them all, *)
(* or there is none and the compressed one has them.                       *)
Due == written \ late
Kept ==
    IF plain # NoFile THEN Due \subseteq content[plain]
                      ELSE compressed # NoFile /\ Due \subseteq compressed

(* A worker bound to remove the plain file, unless it changes first. *)
Sure(w) == cpc[w] = "removePlain" \/ (cpc[w] = "check2" /\ same[w])

(* A worker that saw no change works on a cold file and has encoded all of *)
(* it; one that must find a change works beside a file that is not cold.   *)
LooksAgree ==
    \A w \in Workers :
        /\ cpc[w] \in Looking \cup {"check2"} /\ same[w] /\ plain # NoFile => plain \in cold
        /\ cpc[w] \in Looking /\ ~same[w] => plain = NoFile \/ plain \notin cold
        /\ cpc[w] \in {"check1", "persist"} /\ same[w] /\ plain # NoFile =>
              Due \subseteq snapshot[w]

(* A worker bound to remove the plain file is the only one past its        *)
(* persist, beside a complete compressed file nobody materialises.         *)
FinishesAgree ==
    \A w \in Workers :
        /\ cpc[w] \in Finishing => plain # NoFile
        /\ cpc[w] \in Finishing /\ ~Sure(w) => plain \notin cold
        /\ Sure(w) => /\ compressed # NoFile /\ Due \subseteq compressed
                      /\ \A a \in Writers : ~Materialising(a)
                      /\ \A v \in Workers \ {w} : cpc[v] \notin Finishing

(* A writer materialises a file that is gone or was just made, links all   *)
(* that is due, and unlinks the compressed file beside a plain one.        *)
WritersAgree ==
    \A a \in Writers :
        /\ Materialising(a) => plain = NoFile \/ plain \notin cold
        /\ apc[a] = "link" /\ plain = NoFile => Due \subseteq tmp[a]
        /\ apc[a] = "unlinkCompressed" => plain # NoFile

(* Whatever a file, a worker or a writer holds was written. *)
OnlyWritten ==
    /\ late \subseteq written
    /\ \A i \in Inodes : content[i] \subseteq written
    /\ compressed # NoFile => compressed \subseteq written
    /\ \A w \in Workers : snapshot[w] \subseteq written
    /\ \A a \in Writers : tmp[a] # NoFile => tmp[a] \subseteq written

FilesInv ==
    FileTypes /\ Kept /\ LooksAgree /\ FinishesAgree /\ WritersAgree /\ OnlyWritten

(* The files of a thread that was written long ago. *)
LEMMA FilesStart ==
    ASSUME FilesInit
    PROVE  FilesInv
<1>1. PICK i \in Inodes : FilesInit!(i)
  BY DEF FilesInit
<1>. /\ {} \in LineSets
     /\ {0} \in LineSets
  BY FilesAssumption DEF LineSets
<1>. /\ content = [j \in Inodes |-> IF j = i THEN {0} ELSE {}]
     /\ written = {0} /\ written \in LineSets
  BY <1>1
<1>2. DiskTypes
  <2>1. content \in [Inodes -> LineSets]
    OBVIOUS
  <2>2. written \subseteq 0 .. MaxLines
    BY DEF LineSets
  <2>3. plain \in Inodes /\ compressed = NoFile /\ cold \subseteq Inodes /\ marker = "none"
    BY <1>1
  <2>. QED
    BY <2>1, <2>2, <2>3 DEF DiskTypes
<1>3. WorkerTypes
  BY <1>1 DEF WorkerTypes
<1>4. OpenerTypes
  BY <1>1 DEF OpenerTypes
<1>5. Kept
  BY <1>1, FilesAssumption DEF Kept, Due
<1>6. LooksAgree /\ FinishesAgree /\ WritersAgree
  BY <1>1 DEF LooksAgree, FinishesAgree, WritersAgree, Looking, Finishing, Sure, Materialising
<1>7. OnlyWritten
  BY <1>1 DEF OnlyWritten
<1>. QED
  BY <1>2, <1>3, <1>4, <1>5, <1>6, <1>7 DEF FilesInv, FileTypes

(* A worker that claims or drops its marker, gives up or dies changes no file. *)
LEMMA FilesAside ==
    ASSUME FilesInv, NEW w \in Workers,
           NEW p \in {"idle", "unlinkMarker", "createMarker", "cold"}, WorkerGoes(w, p),
           marker' \in {"none", "fresh", "stale"},
           UNCHANGED <<diskVars, same, snapshot, writerVars, written, late>>
    PROVE  FilesInv'
<1>. USE DEF FilesInv, WorkerGoes, diskVars, writerVars
<1>1. DiskTypes'
  BY DEF FileTypes, DiskTypes
<1>2. WorkerTypes'
  BY DEF FileTypes, WorkerTypes
<1>3. OpenerTypes'
  BY DEF FileTypes, OpenerTypes
<1>4. Kept'
  BY DEF Kept, Due
<1>5. LooksAgree'
  BY DEF LooksAgree, Looking, Due
<1>6. FinishesAgree'
  BY DEF FinishesAgree, Finishing, Sure, Materialising, Due
<1>7. WritersAgree'
  BY DEF WritersAgree, Materialising, Due
<1>8. OnlyWritten'
  BY DEF OnlyWritten, FileTypes, DiskTypes, WorkerTypes, OpenerTypes
<1>. QED
  BY <1>1, <1>2, <1>3, <1>4, <1>5, <1>6, <1>7, <1>8 DEF FileTypes

LEMMA FilesColdFileState ==
    ASSUME FilesInv, NEW w \in Workers, ColdFileState(w)
    PROVE  FilesInv'
<1>. USE DEF FilesInv, ColdFileState, WorkerGoes, diskVars,
       workerVars, writerVars
<1>1. DiskTypes'
  BY DEF FileTypes, DiskTypes
<1>2. WorkerTypes'
  BY DEF FileTypes, WorkerTypes, Looking
<1>3. OpenerTypes'
  BY DEF FileTypes, OpenerTypes
<1>4. Kept'
  BY DEF Kept, Due
<1>5. LooksAgree'
  BY DEF FileTypes, WorkerTypes, LooksAgree, Looking, Due
<1>6. FinishesAgree'
  BY DEF FileTypes, WorkerTypes, FinishesAgree, Finishing, Sure, Materialising, Due
<1>7. WritersAgree'
  BY DEF WritersAgree, Materialising, Due
<1>8. OnlyWritten'
  BY DEF OnlyWritten, FileTypes, DiskTypes, WorkerTypes, OpenerTypes
<1>. QED
  BY <1>1, <1>2, <1>3, <1>4, <1>5, <1>6, <1>7, <1>8 DEF FileTypes

LEMMA FilesSiblingCheck ==
    ASSUME FilesInv, NEW w \in Workers, SiblingCheck(w)
    PROVE  FilesInv'
<1>. USE DEF FilesInv, SiblingCheck, WorkerGoes, diskVars,
       workerVars, writerVars
<1>1. DiskTypes'
  BY DEF FileTypes, DiskTypes
<1>2. WorkerTypes'
  BY DEF FileTypes, WorkerTypes, Looking
<1>3. OpenerTypes'
  BY DEF FileTypes, OpenerTypes
<1>4. Kept'
  BY DEF Kept, Due
<1>5. LooksAgree'
  BY DEF LooksAgree, Looking, Due
<1>6. FinishesAgree'
  BY DEF FinishesAgree, Finishing, Sure, Materialising, Due
<1>7. WritersAgree'
  BY DEF WritersAgree, Materialising, Due
<1>8. OnlyWritten'
  BY DEF OnlyWritten, FileTypes, DiskTypes, WorkerTypes, OpenerTypes
<1>. QED
  BY <1>1, <1>2, <1>3, <1>4, <1>5, <1>6, <1>7, <1>8 DEF FileTypes

(* The plain file has all that is due, and so has its copy.                *)
LEMMA FilesEncodeAndVerify ==
    ASSUME FilesInv, NEW w \in Workers, EncodeAndVerify(w)
    PROVE  FilesInv'
<1>. USE DEF FilesInv, EncodeAndVerify, WorkerGoes, diskVars,
       workerVars, writerVars
<1>1. DiskTypes'
  BY DEF FileTypes, DiskTypes
<1>2. WorkerTypes'
  BY DEF FileTypes, WorkerTypes, DiskTypes, Looking
<1>3. OpenerTypes'
  BY DEF FileTypes, OpenerTypes
<1>4. Kept'
  BY DEF Kept, Due
<1>5. LooksAgree'
  BY DEF FileTypes, WorkerTypes, LooksAgree, Due, Kept, Finishing
<1>6. FinishesAgree'
  BY DEF FileTypes, WorkerTypes, FinishesAgree, Finishing, Sure, Materialising, Due
<1>7. WritersAgree'
  BY DEF WritersAgree, Materialising, Due
<1>8. OnlyWritten'
  BY DEF OnlyWritten, FileTypes, DiskTypes, WorkerTypes, OpenerTypes
<1>. QED
  BY <1>1, <1>2, <1>3, <1>4, <1>5, <1>6, <1>7, <1>8 DEF FileTypes

LEMMA FilesFirstCheck ==
    ASSUME FilesInv, NEW w \in Workers, FirstCheck(w)
    PROVE  FilesInv'
<1>. USE DEF FilesInv, FirstCheck, WorkerGoes, SameFileState,
       diskVars, workerVars, writerVars
<1>1. DiskTypes'
  BY DEF FileTypes, DiskTypes
<1>2. WorkerTypes'
  BY DEF FileTypes, WorkerTypes, Looking
<1>3. OpenerTypes'
  BY DEF FileTypes, OpenerTypes
<1>4. Kept'
  BY DEF Kept, Due
<1>5. LooksAgree'
  BY DEF LooksAgree, Looking, Due
<1>6. FinishesAgree'
  BY DEF FinishesAgree, Finishing, Sure, Materialising, Due
<1>7. WritersAgree'
  BY DEF WritersAgree, Materialising, Due
<1>8. OnlyWritten'
  BY DEF OnlyWritten, FileTypes, DiskTypes, WorkerTypes, OpenerTypes
<1>. QED
  BY <1>1, <1>2, <1>3, <1>4, <1>5, <1>6, <1>7, <1>8 DEF FileTypes

(* The file was cold throughout, so that nobody materialises it, and none  *)
(* but this worker is past its persist: there is no compressed file.       *)
LEMMA FilesPersistNoclobber ==
    ASSUME FilesInv, NEW w \in Workers, PersistNoclobber(w)
    PROVE  FilesInv'
<1>. USE DEF FilesInv, PersistNoclobber, WorkerGoes, diskVars,
       workerVars, writerVars
<1>1. DiskTypes'
  BY DEF FileTypes, DiskTypes, WorkerTypes
<1>2. WorkerTypes'
  BY DEF FileTypes, WorkerTypes, Finishing
<1>3. OpenerTypes'
  BY DEF FileTypes, OpenerTypes
<1>4. Kept'
  BY DEF Kept, Due
<1>5. LooksAgree'
  BY DEF FileTypes, WorkerTypes, LooksAgree, Due, Finishing
<1>6. FinishesAgree'
  BY FilesAssumption DEF FileTypes, WorkerTypes, FinishesAgree, LooksAgree, WritersAgree,
     Finishing, Sure, Materialising, Due, Kept, LineSets
<1>7. WritersAgree'
  BY DEF WritersAgree, Materialising, Due
<1>8. OnlyWritten'
  BY DEF OnlyWritten, FileTypes, DiskTypes, WorkerTypes, OpenerTypes
<1>. QED
  BY <1>1, <1>2, <1>3, <1>4, <1>5, <1>6, <1>7, <1>8 DEF FileTypes

LEMMA FilesSecondCheck ==
    ASSUME FilesInv, NEW w \in Workers, SecondCheck(w)
    PROVE  FilesInv'
<1>. USE DEF FilesInv, SecondCheck, WorkerGoes, SameFileState,
       diskVars, workerVars, writerVars
<1>1. DiskTypes'
  BY DEF FileTypes, DiskTypes
<1>2. WorkerTypes'
  BY DEF FileTypes, WorkerTypes, Finishing
<1>3. OpenerTypes'
  BY DEF FileTypes, OpenerTypes
<1>4. Kept'
  BY DEF Kept, Due
<1>5. LooksAgree'
  BY DEF LooksAgree, Looking, Due
<1>6. FinishesAgree'
  BY DEF FinishesAgree, Finishing, Sure, Materialising, Due
<1>7. WritersAgree'
  BY DEF WritersAgree, Materialising, Due
<1>8. OnlyWritten'
  BY DEF OnlyWritten, FileTypes, DiskTypes, WorkerTypes, OpenerTypes
<1>. QED
  BY <1>1, <1>2, <1>3, <1>4, <1>5, <1>6, <1>7, <1>8 DEF FileTypes

LEMMA FilesRemoveCompressed ==
    ASSUME FilesInv, NEW w \in Workers, RemoveCompressed(w)
    PROVE  FilesInv'
<1>. USE DEF FilesInv, RemoveCompressed, WorkerGoes, diskVars,
       workerVars, writerVars
<1>1. DiskTypes'
  BY DEF FileTypes, DiskTypes
<1>2. WorkerTypes'
  BY DEF FileTypes, WorkerTypes
<1>3. OpenerTypes'
  BY DEF FileTypes, OpenerTypes
<1>4. Kept'
  BY DEF Kept, Due, FinishesAgree, Finishing
<1>5. LooksAgree'
  BY DEF LooksAgree, Looking, Due
<1>6. FinishesAgree'
  BY DEF FinishesAgree, Finishing, Sure
<1>7. WritersAgree'
  BY DEF WritersAgree, Materialising, Due
<1>8. OnlyWritten'
  BY DEF OnlyWritten, FileTypes, DiskTypes, WorkerTypes, OpenerTypes
<1>. QED
  BY <1>1, <1>2, <1>3, <1>4, <1>5, <1>6, <1>7, <1>8 DEF FileTypes

(* The removed file leaves a complete compressed one, which nobody unlinks. *)
LEMMA FilesRemovePlain ==
    ASSUME FilesInv, NEW w \in Workers, RemovePlain(w)
    PROVE  FilesInv'
<1>. USE DEF FilesInv, RemovePlain, WorkerGoes, diskVars,
       workerVars, writerVars
<1>1. DiskTypes'
  BY DEF FileTypes, DiskTypes
<1>2. WorkerTypes'
  BY DEF FileTypes, WorkerTypes
<1>3. OpenerTypes'
  BY DEF FileTypes, OpenerTypes
<1>4. Kept'
  BY DEF Kept, Due, FinishesAgree, Sure
<1>5. LooksAgree'
  BY DEF LooksAgree
<1>6. FinishesAgree'
  BY DEF FileTypes, WorkerTypes, FinishesAgree, Finishing, Sure
<1>7. WritersAgree'
  BY DEF WritersAgree, FinishesAgree, Materialising, Sure
<1>8. OnlyWritten'
  BY DEF OnlyWritten, FileTypes, DiskTypes, WorkerTypes, OpenerTypes
<1>. QED
  BY <1>1, <1>2, <1>3, <1>4, <1>5, <1>6, <1>7, <1>8 DEF FileTypes

LEMMA FilesPlainExists ==
    ASSUME FilesInv, NEW a \in Writers, PlainExists(a)
    PROVE  FilesInv'
<1>. USE DEF FilesInv, PlainExists, WriterGoes, diskVars,
       workerVars, writerVars
<1>1. DiskTypes'
  BY DEF FileTypes, DiskTypes
<1>2. WorkerTypes'
  BY DEF FileTypes, WorkerTypes
<1>3. OpenerTypes'
  BY DEF FileTypes, OpenerTypes
<1>4. Kept'
  BY DEF Kept, Due
<1>5. LooksAgree'
  BY DEF LooksAgree, Due
<1>6. FinishesAgree'
  BY DEF FinishesAgree, Finishing, Sure, Materialising, Due
<1>7. WritersAgree'
  BY DEF WritersAgree, Materialising, Due
<1>8. OnlyWritten'
  BY DEF OnlyWritten, FileTypes, DiskTypes, WorkerTypes, OpenerTypes
<1>. QED
  BY <1>1, <1>2, <1>3, <1>4, <1>5, <1>6, <1>7, <1>8 DEF FileTypes

LEMMA FilesCompressedExists ==
    ASSUME FilesInv, NEW a \in Writers, CompressedExists(a)
    PROVE  FilesInv'
<1>. USE DEF FilesInv, CompressedExists, WriterGoes, diskVars,
       workerVars, writerVars
<1>1. DiskTypes'
  BY DEF FileTypes, DiskTypes
<1>2. WorkerTypes'
  BY DEF FileTypes, WorkerTypes
<1>3. OpenerTypes'
  BY DEF FileTypes, OpenerTypes
<1>4. Kept'
  BY DEF Kept, Due
<1>5. LooksAgree'
  BY DEF LooksAgree, Due
<1>6. FinishesAgree'
  BY DEF FinishesAgree, Sure, Materialising
<1>7. WritersAgree'
  BY DEF WritersAgree, Materialising, Due
<1>8. OnlyWritten'
  BY DEF OnlyWritten, FileTypes, DiskTypes, WorkerTypes, OpenerTypes
<1>. QED
  BY <1>1, <1>2, <1>3, <1>4, <1>5, <1>6, <1>7, <1>8 DEF FileTypes

(* What is decompressed while there is no plain file has all that is due.  *)
LEMMA FilesDecompress ==
    ASSUME FilesInv, NEW a \in Writers, Decompress(a)
    PROVE  FilesInv'
<1>. USE DEF FilesInv, Decompress, WriterGoes, diskVars,
       workerVars, writerVars
<1>1. DiskTypes'
  BY DEF FileTypes, DiskTypes
<1>2. WorkerTypes'
  BY DEF FileTypes, WorkerTypes
<1>3. OpenerTypes'
  BY DEF FileTypes, OpenerTypes, DiskTypes
<1>4. Kept'
  BY DEF Kept, Due
<1>5. LooksAgree'
  BY DEF LooksAgree, Due
<1>6. FinishesAgree'
  BY DEF FinishesAgree, Sure, Materialising
<1>7. WritersAgree'
  BY DEF FileTypes, OpenerTypes, WritersAgree, Materialising, Due, Kept
<1>8. OnlyWritten'
  BY DEF OnlyWritten, FileTypes, DiskTypes, WorkerTypes, OpenerTypes
<1>. QED
  BY <1>1, <1>2, <1>3, <1>4, <1>5, <1>6, <1>7, <1>8 DEF FileTypes

(* The new file has all that is due and is not cold.                       *)
LEMMA FilesHardLink ==
    ASSUME FilesInv, NEW a \in Writers, HardLink(a)
    PROVE  FilesInv'
<1>. USE DEF FilesInv, HardLink, WriterGoes, NewPlain,
       FileChanges, FreeInodes, diskVars, workerVars,
       writerVars
<1>1. DiskTypes'
  BY DEF FileTypes, DiskTypes, OpenerTypes
<1>2. WorkerTypes'
  BY DEF FileTypes, WorkerTypes
<1>3. OpenerTypes'
  BY DEF FileTypes, OpenerTypes
<1>4. Kept'
  BY DEF FileTypes, DiskTypes, Kept, Due, WritersAgree
<1>5. LooksAgree'
  BY DEF LooksAgree, Due
<1>6. FinishesAgree'
  BY DEF FinishesAgree, Sure, Materialising
<1>7. WritersAgree'
  BY DEF WritersAgree, Materialising
<1>8. OnlyWritten'
  BY DEF OnlyWritten, FileTypes, DiskTypes, WorkerTypes, OpenerTypes
<1>. QED
  BY <1>1, <1>2, <1>3, <1>4, <1>5, <1>6, <1>7, <1>8 DEF FileTypes

(* A writer that unlinks the compressed file has a plain one, which no worker *)
(* is bound to remove.                                                     *)
LEMMA FilesUnlinkCompressed ==
    ASSUME FilesInv, NEW a \in Writers, UnlinkCompressed(a)
    PROVE  FilesInv'
<1>. USE DEF FilesInv, UnlinkCompressed, WriterGoes, diskVars,
       workerVars, writerVars
<1>1. DiskTypes'
  BY DEF FileTypes, DiskTypes
<1>2. WorkerTypes'
  BY DEF FileTypes, WorkerTypes
<1>3. OpenerTypes'
  BY DEF FileTypes, OpenerTypes
<1>4. Kept'
  BY DEF Kept, Due, WritersAgree
<1>5. LooksAgree'
  BY DEF LooksAgree, Due
<1>6. FinishesAgree'
  BY DEF FinishesAgree, Sure, Materialising
<1>7. WritersAgree'
  BY DEF WritersAgree, Materialising
<1>8. OnlyWritten'
  BY DEF OnlyWritten, FileTypes, DiskTypes, WorkerTypes, OpenerTypes
<1>. QED
  BY <1>1, <1>2, <1>3, <1>4, <1>5, <1>6, <1>7, <1>8 DEF FileTypes

(* A file created over a compressed one hides every line that was due: they *)
(* are given up.                                                           *)
LEMMA FilesOpenForAppend ==
    ASSUME FilesInv, NEW a \in Writers, OpenForAppend(a)
    PROVE  FilesInv'
<1>. USE DEF FilesInv, OpenForAppend, WriterGoes, NewPlain,
       FileChanges, FreeInodes, diskVars, workerVars,
       writerVars
<1>1. DiskTypes'
  BY DEF FileTypes, DiskTypes, LineSets
<1>2. WorkerTypes'
  BY DEF FileTypes, WorkerTypes
<1>3. OpenerTypes'
  BY DEF FileTypes, OpenerTypes, DiskTypes
<1>4. Kept'
  BY DEF Kept, Due
<1>5. LooksAgree'
  BY DEF LooksAgree, Due
<1>6. FinishesAgree'
  BY DEF FinishesAgree, Sure, Materialising, Due
<1>7. WritersAgree'
  BY DEF WritersAgree, Materialising, Due
<1>8. OnlyWritten'
  BY DEF OnlyWritten, Kept, FileTypes, DiskTypes, WorkerTypes, OpenerTypes
<1>. QED
  BY <1>1, <1>2, <1>3, <1>4, <1>5, <1>6, <1>7, <1>8 DEF FileTypes

(* The line is given up, or it changes the file before the worker's last look. *)
LEMMA FilesAppendLine ==
    ASSUME FilesInv, NEW a \in Writers, AppendLine(a)
    PROVE  FilesInv'
<1>. USE DEF FilesInv, AppendLine, LineNumbers, TooLate, FileChanges,
       diskVars, workerVars, writerVars
<1>1. DiskTypes'
  BY DEF FileTypes, DiskTypes, OpenerTypes, LineSets
<1>2. WorkerTypes'
  BY DEF FileTypes, WorkerTypes
<1>3. OpenerTypes'
  BY DEF FileTypes, OpenerTypes
<1>4. Kept'
  BY DEF FileTypes, DiskTypes, Kept, Due
<1>5. LooksAgree'
  BY DEF LooksAgree, Due
<1>6. FinishesAgree'
  BY DEF FinishesAgree, Sure, Materialising, Due
<1>7. WritersAgree'
  BY DEF WritersAgree, Materialising, Due
<1>8. OnlyWritten'
  BY DEF OnlyWritten, FileTypes, DiskTypes, WorkerTypes, OpenerTypes
<1>. QED
  BY <1>1, <1>2, <1>3, <1>4, <1>5, <1>6, <1>7, <1>8 DEF FileTypes

LEMMA FilesCloseFile ==
    ASSUME FilesInv, NEW a \in Writers, CloseFile(a)
    PROVE  FilesInv'
<1>. USE DEF FilesInv, CloseFile, diskVars, workerVars,
       writerVars
<1>1. DiskTypes'
  BY DEF FileTypes, DiskTypes
<1>2. WorkerTypes'
  BY DEF FileTypes, WorkerTypes
<1>3. OpenerTypes'
  BY DEF FileTypes, OpenerTypes
<1>4. Kept'
  BY DEF Kept, Due
<1>5. LooksAgree'
  BY DEF LooksAgree, Due
<1>6. FinishesAgree'
  BY DEF FinishesAgree, Sure, Materialising, Due
<1>7. WritersAgree'
  BY DEF WritersAgree, Materialising, Due
<1>8. OnlyWritten'
  BY DEF OnlyWritten, FileTypes, DiskTypes, WorkerTypes, OpenerTypes
<1>. QED
  BY <1>1, <1>2, <1>3, <1>4, <1>5, <1>6, <1>7, <1>8 DEF FileTypes

LEMMA FilesWriterDies ==
    ASSUME FilesInv, NEW a \in Writers, WriterDies(a)
    PROVE  FilesInv'
<1>. USE DEF FilesInv, WriterDies, WriterGoes, diskVars,
       workerVars, writerVars
<1>1. DiskTypes'
  BY DEF FileTypes, DiskTypes
<1>2. WorkerTypes'
  BY DEF FileTypes, WorkerTypes
<1>3. OpenerTypes'
  BY DEF FileTypes, OpenerTypes
<1>4. Kept'
  BY DEF Kept, Due
<1>5. LooksAgree'
  BY DEF LooksAgree, Due
<1>6. FinishesAgree'
  BY DEF FinishesAgree, Sure, Materialising, Due
<1>7. WritersAgree'
  BY DEF FileTypes, OpenerTypes, WritersAgree, Materialising, Due
<1>8. OnlyWritten'
  BY DEF OnlyWritten, FileTypes, DiskTypes, WorkerTypes, OpenerTypes
<1>. QED
  BY <1>1, <1>2, <1>3, <1>4, <1>5, <1>6, <1>7, <1>8 DEF FileTypes

LEMMA FilesFileAges ==
    ASSUME FilesInv, FileAges
    PROVE  FilesInv'
<1>. USE DEF FilesInv, FileAges, AllQuiet, diskVars, workerVars,
       writerVars
<1>1. DiskTypes'
  BY DEF FileTypes, DiskTypes
<1>2. WorkerTypes'
  BY DEF FileTypes, WorkerTypes
<1>3. OpenerTypes'
  BY DEF FileTypes, OpenerTypes
<1>4. Kept'
  BY DEF Kept, Due
<1>5. LooksAgree'
  BY DEF LooksAgree, Looking
<1>6. FinishesAgree'
  BY DEF FinishesAgree, Finishing, Sure
<1>7. WritersAgree'
  BY DEF WritersAgree, Materialising
<1>8. OnlyWritten'
  BY DEF OnlyWritten, FileTypes, DiskTypes, WorkerTypes, OpenerTypes
<1>. QED
  BY <1>1, <1>2, <1>3, <1>4, <1>5, <1>6, <1>7, <1>8 DEF FileTypes

LEMMA FilesMarkerAges ==
    ASSUME FilesInv, MarkerAges
    PROVE  FilesInv'
<1>. USE DEF FilesInv, MarkerAges, AllQuiet, diskVars,
       workerVars, writerVars
<1>1. DiskTypes'
  BY DEF FileTypes, DiskTypes
<1>2. WorkerTypes'
  BY DEF FileTypes, WorkerTypes
<1>3. OpenerTypes'
  BY DEF FileTypes, OpenerTypes
<1>4. Kept'
  BY DEF Kept, Due
<1>5. LooksAgree'
  BY DEF LooksAgree
<1>6. FinishesAgree'
  BY DEF FinishesAgree, Sure
<1>7. WritersAgree'
  BY DEF WritersAgree, Materialising
<1>8. OnlyWritten'
  BY DEF OnlyWritten, FileTypes, DiskTypes, WorkerTypes, OpenerTypes
<1>. QED
  BY <1>1, <1>2, <1>3, <1>4, <1>5, <1>6, <1>7, <1>8 DEF FileTypes

LEMMA FilesStep == FilesInv /\ [FilesNext]_filesVars => FilesInv'
<1>. SUFFICES ASSUME FilesInv, [FilesNext]_filesVars PROVE FilesInv'
  OBVIOUS
<1>1. ASSUME NEW w \in Workers, WorkerStep(w) PROVE FilesInv'
  <2>1. CASE \/ TryClaim(w) \/ RemoveStaleMarker(w) \/ CreateMarker(w)
             \/ RunFails(w) \/ WorkerDies(w)
    BY <2>1, FilesAside DEF FilesInv, FileTypes, DiskTypes, TryClaim, RemoveStaleMarker, CreateMarker,
       RunFails, WorkerDies
  <2>. QED
    BY <1>1, <2>1, FilesColdFileState, FilesSiblingCheck, FilesEncodeAndVerify,
       FilesFirstCheck, FilesPersistNoclobber, FilesSecondCheck, FilesRemoveCompressed,
       FilesRemovePlain DEF WorkerStep
<1>2. ASSUME NEW a \in Writers, OpenerStep(a) PROVE FilesInv'
  BY <1>2, FilesPlainExists, FilesCompressedExists, FilesDecompress, FilesHardLink,
     FilesUnlinkCompressed, FilesOpenForAppend, FilesAppendLine, FilesCloseFile,
     FilesWriterDies DEF OpenerStep
<1>3. CASE UNCHANGED filesVars
  <2>. USE <1>3 DEF filesVars, diskVars, workerVars, writerVars, FilesInv
  <2>1. FileTypes'
    BY DEF FileTypes, DiskTypes, WorkerTypes, OpenerTypes
  <2>2. Kept'
    BY DEF Kept, Due
  <2>3. LooksAgree'
    BY DEF LooksAgree, Due
  <2>4. FinishesAgree'
    BY DEF FinishesAgree, Sure, Materialising, Due
  <2>5. WritersAgree'
    BY DEF WritersAgree, Materialising, Due
  <2>6. OnlyWritten'
    BY DEF OnlyWritten
  <2>. QED
    BY <2>1, <2>2, <2>3, <2>4, <2>5, <2>6
<1>. QED
  BY <1>1, <1>2, <1>3, FilesFileAges, FilesMarkerAges DEF FilesNext

(* No interleaving of compression workers and writers, and no crash        *)
(* between two file system calls (rollout/src/compression.rs), loses a     *)
(* line outside the two unchecked windows, or leaves no file at all: for   *)
(* every set of workers, writers and inodes and every number of lines.     *)
THEOREM RetainedHolds == FilesSpec => []Retained
<1>1. FilesInv => Retained
  BY DEF FilesInv, Kept, Due, Retained, OnDisk
<1>. QED
  BY <1>1, FilesStart, FilesStep, PTL DEF FilesSpec

(* The types, and that neither file ever holds a line nobody wrote. *)
THEOREM FilesTypeCorrect == FilesSpec => []FilesTypeOK
<1>1. ASSUME FilesInv PROVE FilesTypeOK
  <2>. USE <1>1 DEF FilesInv, FileTypes
  <2>1. content \in [Inodes -> SUBSET written]
    BY DEF DiskTypes, OnlyWritten
  <2>2. compressed = NoFile \/ compressed \in SUBSET written
    BY DEF OnlyWritten
  <2>3. compressed \in {NoFile} \cup SUBSET written
    BY <2>2, Zenon
  <2>4. /\ plain \in Inodes \cup {NoFile} /\ cold \subseteq Inodes
        /\ marker \in {"none", "fresh", "stale"} /\ written \subseteq 0 .. MaxLines
    BY DEF DiskTypes
  <2>5. same \in [Workers -> BOOLEAN] /\ late \subseteq written
    BY DEF WorkerTypes, OnlyWritten
  <2>6. /\ handle \in [Writers -> Inodes \cup {NoFile}]
        /\ \A a \in Writers : (apc[a] = "link") <=> (tmp[a] # NoFile)
    BY DEF OpenerTypes
  <2>. QED
    BY <2>1, <2>3, <2>4, <2>5, <2>6, Zenon DEF FilesTypeOK
<1>. QED
  BY <1>1, FilesStart, FilesStep, PTL DEF FilesSpec
=============================================================================
