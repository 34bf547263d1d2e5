------------------------ MODULE ServerRequestsProofs ------------------------
(***************************************************************************)
(* Invariance proofs for ServerRequests, for every number of connections,  *)
(* requests, turns and queued commands.                                    *)
(***************************************************************************)
EXTENDS ServerRequests, SequenceTheorems, FiniteSetTheorems, WellFoundedInduction, TLAPS

Places == {"select", "sending", "resolving", "resumed", "replaying", "unload",
           "unloading", "gone"}
Event == [kind : {"ask", "started", "ended"}, req : 0..MaxRequests]
Resumes == {"resume"} \X Conns
Resolves == {"resolve"} \X Requests
Lst == [pc : Places, req : 0..MaxRequests, to : SUBSET Conns, replay : Seq(Requests),
        conn : Conns \cup {NoConn}]

Types ==
    /\ live \subseteq Conns /\ subs \subseteq Conns /\ joined \subseteq subs
    /\ pending \subseteq Requests
    /\ outcome \in [Requests -> {"none", "answer", "error", "transition", "dropped"}]
    /\ task \in [Requests -> {"none", "event", "await", "resolve", "decide", "done"}]
    /\ op \in [Requests -> {"none", "answer", "denied", "nothing"}]
    /\ shown \in [Conns -> SUBSET Requests] /\ closed \in [Conns -> SUBSET Requests]
    /\ cmds \in Seq(Resumes \cup Resolves)
    /\ events \in Seq(Event)
    /\ lst \in Lst
    /\ lst.pc \in {"sending", "resolving"} => lst.req \in Requests
    /\ lst.pc \in {"resumed", "replaying"} => lst.conn \in Conns

Queued(cmd) == \E i \in DOMAIN cmds : cmds[i] = cmd
Resolving(r) == lst.pc = "resolving" /\ lst.req = r

(* Each request is asked by one event, and sent once that event is read.    *)
EventsAgree ==
    /\ \A i \in DOMAIN events : events[i].kind = "ask" =>
          /\ events[i].req \in Requests
          /\ task[events[i].req] = "event"
          /\ outcome[events[i].req] = "none" /\ events[i].req \notin pending
          /\ ~(lst.pc = "sending" /\ lst.req = events[i].req)
    /\ \A i, j \in DOMAIN events :
          events[i].kind = "ask" /\ events[j].kind = "ask" /\ events[i].req = events[j].req => i = j
    /\ lst.pc = "sending" => task[lst.req] = "event"

(* The callback of a request is taken before its task goes on, so nothing   *)
(* pending has been resolved; and a task queues its command once.           *)
TasksAgree ==
    /\ \A r \in pending : outcome[r] = "none" /\ task[r] \in {"event", "await"}
    /\ \A r \in Requests : outcome[r] # "none" => task[r] # "none"
    /\ \A r \in Requests : op[r] # "none" => task[r] = "done"
    /\ \A r \in Requests : Queued(<<"resolve", r>>) => task[r] = "resolve" /\ ~Resolving(r)
    /\ \A i, j \in DOMAIN cmds : cmds[i] \in Resolves /\ cmds[i] = cmds[j] => i = j
    /\ lst.pc = "resolving" => task[lst.req] = "resolve"

(* Only what is being resolved was closed, and nothing closed is replayed.  *)
ClosedAgree ==
    /\ \A c \in Conns : \A r \in closed[c] : task[r] \in {"resolve", "decide", "done"}
    /\ lst.pc = "replaying" =>
          \A i \in DOMAIN lst.replay : lst.replay[i] \notin closed[lst.conn]

(* The requests a client has yet to be sent by the handler that runs.       *)
Missing(c) ==
    CASE lst.pc = "sending" -> IF c \in lst.to THEN {lst.req} ELSE {}
      [] lst.pc = "resumed" -> IF c = lst.conn THEN Requests ELSE {}
      [] lst.pc = "replaying" ->
            IF c = lst.conn THEN {lst.replay[i] : i \in DOMAIN lst.replay} ELSE {}
      [] OTHER -> {}

ShownOrMissing == \A c \in joined : pending \subseteq shown[c] \cup Missing(c)

(* While the thread is loaded its listener is only ever ended by unloading, *)
(* which leaves no subscriber.                                              *)
Life ==
    /\ removal # "none" \/ core = "stopped" \/ cancelled => ~loaded
    /\ loaded => (tx <=> lst.pc # "gone")
    /\ loaded /\ lst.pc = "gone" => joined = {}

(* A request that is shown has not been decided: its command is on the way. *)
Open(r) == task[r] \in {"event", "await"} \/ Queued(<<"resolve", r>>)

ShownIsOpen ==
    loaded =>
        /\ \A c \in joined : \A r \in shown[c] : Open(r) \/ (Resolving(r) /\ c \in lst.to)
        /\ lst.pc = "replaying" => \A i \in DOMAIN lst.replay : Open(lst.replay[i])

(* The inductive invariant. *)
IInv ==
    /\ Types /\ SubscribersAreLive /\ EventsAgree /\ TasksAgree /\ ClosedAgree
    /\ ShownOrMissing /\ Life /\ ShownIsOpen /\ ResolvedIsFinal

-----------------------------------------------------------------------------
(* Sequences, by position. *)
LEMMA TailOf ==
    ASSUME NEW S, NEW s \in Seq(S), s # <<>>
    PROVE  /\ 1 \in DOMAIN s /\ Head(s) = s[1] /\ Head(s) \in S
           /\ Tail(s) \in Seq(S)
           /\ \A i \in DOMAIN Tail(s) : i + 1 \in DOMAIN s /\ Tail(s)[i] = s[i + 1]
           /\ \A i \in DOMAIN s : i # 1 => i - 1 \in DOMAIN Tail(s) /\ Tail(s)[i - 1] = s[i]
<1>1. /\ Len(s) \in Nat \ {0} /\ DOMAIN s = 1..Len(s)
  BY EmptySeq, LenProperties
<1>2. /\ Head(s) \in S
      /\ Tail(s) \in Seq(S)
      /\ Len(Tail(s)) = Len(s) - 1
      /\ \A i \in 1 .. Len(Tail(s)) : Tail(s)[i] = s[i + 1]
  BY HeadTailProperties
<1>3. DOMAIN Tail(s) = 1 .. (Len(s) - 1)
  BY <1>2, LenProperties
<1>4. Head(s) = s[1]
  BY <1>1
<1>5. \A i \in DOMAIN Tail(s) : i + 1 \in DOMAIN s /\ Tail(s)[i] = s[i + 1]
  BY <1>1, <1>2, <1>3
<1>6. ASSUME NEW i \in DOMAIN s, i # 1
      PROVE  i - 1 \in DOMAIN Tail(s) /\ Tail(s)[i - 1] = s[i]
  <2>1. i - 1 \in DOMAIN Tail(s) /\ (i - 1) + 1 = i
    BY <1>1, <1>3, <1>6
  <2> QED
    BY <1>5, <2>1
<1> QED
  BY <1>1, <1>2, <1>4, <1>5, <1>6

LEMMA AppendOf ==
    ASSUME NEW S, NEW s \in Seq(S), NEW e \in S
    PROVE  /\ Append(s, e) \in Seq(S)
           /\ DOMAIN Append(s, e) = DOMAIN s \cup {Len(s) + 1}
           /\ Len(s) + 1 \notin DOMAIN s
           /\ Append(s, e)[Len(s) + 1] = e
           /\ \A i \in DOMAIN s : Append(s, e)[i] = s[i]
<1>1. Len(s) \in Nat /\ DOMAIN s = 1..Len(s)
  BY LenProperties
<1>2. /\ Append(s, e) \in Seq(S)
      /\ Len(Append(s, e)) = Len(s) + 1
      /\ \A i \in 1..Len(s) : Append(s, e)[i] = s[i]
      /\ Append(s, e)[Len(s) + 1] = e
  BY AppendProperties
<1>3. DOMAIN Append(s, e) = 1..(Len(s) + 1)
  BY <1>2, LenProperties
<1> QED
  BY <1>1, <1>2, <1>3

(* A non-empty set of naturals has a least element. *)
LEMMA LeastNat ==
    ASSUME NEW T, T \subseteq Nat, T # {}
    PROVE  \E x \in T : \A y \in T : x <= y
<1> DEFINE R == OpToRel(<, Nat)
<1>1. IsWellFoundedOn(R, Nat)
  BY NatLessThanWellFounded
<1>2. \A x, y \in Nat : x < y => <<x, y>> \in R
  BY DEF OpToRel
<1> HIDE DEF R
<1>3. PICK x \in T : \A y \in T : ~ (<<y, x>> \in R)
  BY <1>1, WFMin
<1>4. ASSUME NEW y \in T PROVE x <= y
  <2>1. x \in Nat /\ y \in Nat /\ ~(y < x)
    BY <1>2, <1>3
  <2> QED
    BY <2>1
<1> QED
  BY <1>4

(* The snapshot that pending_requests_for_thread sorts: the enumeration      *)
(* exists (of the sets without one, take a smallest and remove its least     *)
(* element) and holds every pending request.                                 *)
Increasing(s, rs) ==
    /\ s \in [1..Cardinality(rs) -> rs]
    /\ \A i, j \in 1..Cardinality(rs) : i < j => s[i] < s[j]

LEMMA EnumerationExists ==
    ASSUME NEW rs \in SUBSET Requests PROVE \E s : Increasing(s, rs)
<1> USE BoundsAreNat
<1> DEFINE Bad == {n \in Nat : \E q \in SUBSET Requests :
                      Cardinality(q) = n /\ ~\E s : Increasing(s, q)}
<1>0. \A q \in SUBSET Requests : IsFiniteSet(q) /\ Cardinality(q) \in Nat
  <2>1. IsFiniteSet(Requests)
    BY FS_Interval DEF Requests
  <2> QED
    BY <2>1, FS_Subset, FS_CardinalityType
<1>1. SUFFICES ASSUME Bad # {} PROVE FALSE
  BY <1>0
<1>2. PICK n \in Bad : \A m \in Bad : n <= m
  BY <1>1, LeastNat
<1>3. PICK q \in SUBSET Requests : Cardinality(q) = n /\ ~\E s : Increasing(s, q)
  BY <1>2
<1>4. CASE q = {}
  <2>1. Cardinality(q) = 0
    BY <1>4, FS_EmptySet
  <2>2. Increasing([i \in 1..0 |-> 0], q)
    BY <2>1 DEF Increasing
  <2> QED
    BY <1>3, <2>2
<1>5. CASE q # {}
  <2>1. q \subseteq Nat
    BY DEF Requests
  <2>2. PICK m \in q : \A y \in q : m <= y
    BY <1>5, <2>1, LeastNat
  <2>3. Cardinality(q \ {m}) = n - 1
    BY <1>0, <1>3, <2>2, FS_RemoveElement
  <2>4. n - 1 \in Nat /\ n - 1 \notin Bad
    BY <1>0, <1>2, <2>3
  <2>5. PICK t : Increasing(t, q \ {m})
    BY <2>3, <2>4
  <2>6. /\ t \in [1..(n - 1) -> q \ {m}]
        /\ \A i, j \in 1..(n - 1) : i < j => t[i] < t[j]
    BY <2>3, <2>5 DEF Increasing
  <2> DEFINE s == [i \in 1..n |-> IF i = 1 THEN m ELSE t[i - 1]]
  <2>7. \A i \in 1..n : i # 1 => i - 1 \in 1..(n - 1)
    BY <1>2, <2>4
  <2>8. s \in [1..n -> q]
    BY <2>2, <2>6, <2>7
  <2>9. ASSUME NEW i \in 1..n, NEW j \in 1..n, i < j PROVE s[i] < s[j]
    <3>0. j # 1 /\ j - 1 \in 1..(n - 1) /\ t[j - 1] \in q \ {m}
      BY <2>6, <2>7, <2>9
    <3>1. CASE i = 1
      <4>1. s[i] = m /\ s[j] = t[j - 1]
        BY <3>0, <3>1
      <4>2. m <= t[j - 1] /\ m # t[j - 1] /\ m \in Nat /\ t[j - 1] \in Nat
        BY <2>1, <2>2, <3>0
      <4> QED
        BY <4>1, <4>2
    <3>2. CASE i # 1
      <4>1. i - 1 \in 1..(n - 1) /\ i - 1 < j - 1
        BY <2>7, <2>9, <3>2
      <4>2. s[i] = t[i - 1] /\ s[j] = t[j - 1]
        BY <3>0, <3>2
      <4> QED
        BY <2>6, <3>0, <4>1, <4>2
    <3> QED
      BY <3>1, <3>2
  <2> HIDE DEF s
  <2>10. Increasing(s, q)
    BY <1>3, <2>8, <2>9 DEF Increasing
  <2> QED
    BY <1>3, <2>10
<1> QED
  BY <1>4, <1>5

LEMMA AscendingEnumerates ==
    ASSUME NEW rs \in SUBSET Requests
    PROVE  /\ Ascending(rs) \in Seq(Requests)
           /\ {Ascending(rs)[i] : i \in DOMAIN Ascending(rs)} = rs
<1> USE BoundsAreNat
<1>0. rs \subseteq Nat
  BY DEF Requests
<1> DEFINE n == Cardinality(rs)
           s == Ascending(rs)
<1>1. IsFiniteSet(rs) /\ n \in Nat
  <2>1. IsFiniteSet(Requests)
    BY FS_Interval DEF Requests
  <2> QED
    BY <2>1, FS_Subset, FS_CardinalityType
<1>2. s \in [1..n -> rs] /\ \A i, j \in DOMAIN s : i < j => s[i] < s[j]
  <2>1. \E t \in [1..n -> rs] : \A i, j \in DOMAIN t : i < j => t[i] < t[j]
    BY EnumerationExists DEF Increasing
  <2> QED
    BY <2>1 DEF Ascending
<1> HIDE DEF s
<1>3. s \in Injection(1..n, rs)
  <2>1. ASSUME NEW i \in 1..n, NEW j \in 1..n, s[i] = s[j] PROVE i = j
    <3>1. s[i] \in Nat /\ s[j] \in Nat
      BY <1>0, <1>2
    <3>2. ~(i < j) /\ ~(j < i)
      BY <1>2, <2>1, <3>1
    <3> QED
      BY <1>1, <3>2
  <2> QED
    BY <1>2, <2>1 DEF Injection, IsInjective
<1>4. Cardinality(1..n) = n
  BY <1>1, FS_Interval
<1>5. s \in Surjection(1..n, rs)
  BY <1>1, <1>3, <1>4, FS_Injection
<1>6. s \in Seq(Requests)
  BY <1>1, <1>2
<1> QED
  BY <1>2, <1>5, <1>6 DEF Surjection, s

-----------------------------------------------------------------------------
(* What the listener becomes. *)
LEMMA AtPlace ==
    ASSUME NEW pc \in Places
    PROVE  /\ At(pc) \in Lst
           /\ At(pc).pc = pc /\ At(pc).to = {} /\ At(pc).replay = <<>>
  BY BoundsAreNat DEF At, Lst, Places, NoConn

Sends(pc, r, to) == [At(pc) EXCEPT !.req = r, !.to = to]

LEMMA LstSends ==
    ASSUME NEW pc \in Places, NEW r \in Requests, NEW to \in SUBSET Conns
    PROVE  /\ Sends(pc, r, to) \in Lst
           /\ Sends(pc, r, to).pc = pc /\ Sends(pc, r, to).req = r /\ Sends(pc, r, to).to = to
<1>1. At(pc) \in Lst /\ At(pc).pc = pc /\ r \in 0..MaxRequests
  BY AtPlace, BoundsAreNat DEF Requests
<1> QED
  BY <1>1 DEF Lst, Sends

LEMMA LstResumed ==
    ASSUME NEW c \in Conns
    PROVE  LET l == [At("resumed") EXCEPT !.conn = c]
           IN  l \in Lst /\ l.pc = "resumed" /\ l.conn = c
<1>1. At("resumed") \in Lst /\ At("resumed").pc = "resumed"
  BY AtPlace DEF Places
<1> QED
  BY <1>1 DEF Lst

LEMMA LstSent ==
    ASSUME lst \in Lst, NEW c
    PROVE  LET l == [lst EXCEPT !.to = lst.to \ {c}]
           IN  /\ l \in Lst /\ l.pc = lst.pc /\ l.req = lst.req /\ l.to = lst.to \ {c}
               /\ l.conn = lst.conn /\ l.replay = lst.replay
  BY DEF Lst

LEMMA LstReplays ==
    ASSUME lst \in Lst, NEW s \in Seq(Requests)
    PROVE  /\ LET l == [lst EXCEPT !.pc = "replaying", !.replay = s]
              IN  l \in Lst /\ l.pc = "replaying" /\ l.conn = lst.conn /\ l.replay = s
           /\ LET l == [lst EXCEPT !.replay = s]
              IN  l \in Lst /\ l.pc = lst.pc /\ l.conn = lst.conn /\ l.replay = s
  BY DEF Lst, Places

-----------------------------------------------------------------------------
LEMMA TypesStep ==
    ASSUME Types, EventsAgree, Next PROVE Types'
<1> USE BoundsAreNat DEF Types
<1>0. /\ \A p \in Places : At(p) \in Lst /\ At(p).pc = p
      /\ \A i \in DOMAIN cmds : cmds[i] \in Resumes \cup Resolves
  BY AtPlace
<1>1. CASE StartTurn \/ EndTurn
  <2>1. TurnEvent("started") \in Event /\ TurnEvent("ended") \in Event
    BY DEF TurnEvent, Event
  <2>2. \A e \in Event : Append(events, e) \in Seq(Event)
    BY AppendOf
  <2>3. events' = Append(events, TurnEvent("started")) \/ events' = Append(events, TurnEvent("ended"))
    BY <1>1 DEF StartTurn, EndTurn
  <2>4. events' \in Seq(Event)
    BY <2>1, <2>2, <2>3
  <2> QED
    BY <1>1, <2>4 DEF StartTurn, EndTurn, connVars, callVars, viewVars, listVars
<1>2. CASE Ask
  <2>1. PICK r \in Requests : task' = [task EXCEPT ![r] = "event"]
                              /\ events' = Append(events, AskEvent(r))
    BY <1>2 DEF Ask
  <2>2. AskEvent(r) \in Event
    BY DEF AskEvent, Event, Requests
  <2>3. events' \in Seq(Event)
    BY <2>1, <2>2, AppendOf
  <2> QED
    BY <1>2, <2>1, <2>3 DEF Ask, connVars, viewVars, listVars
<1>3. CASE AskClients
  <2>1. events' \in Seq(Event) /\ Head(events).req \in Requests
    BY <1>3, TailOf DEF AskClients, EventsAgree
  <2>2. lst' \in Lst /\ lst'.pc = "sending" /\ lst'.req \in Requests
    <3>1. "sending" \in Places /\ subs \in SUBSET Conns
      BY DEF Places
    <3>2. lst' = Sends("sending", Head(events).req, subs)
      BY <1>3 DEF AskClients, Sends
    <3> HIDE DEF Types
    <3> QED
      BY <2>1, <3>1, <3>2, LstSends
  <2> QED
    BY <1>3, <2>1, <2>2 DEF AskClients, connVars, viewVars
<1>4. CASE SendRequest \/ SendResolved
  <2>1. PICK c \in lst.to :
           /\ lst' = [lst EXCEPT !.to = @ \ {c}]
           /\ \/ shown' = [shown EXCEPT ![c] = @ \cup {lst.req}] /\ closed' = closed
              \/ /\ shown' = [shown EXCEPT ![c] = @ \ {lst.req}]
                 /\ closed' = [closed EXCEPT ![c] = @ \cup {lst.req}]
    BY <1>4 DEF SendRequest, SendResolved
  <2>2. lst' \in Lst /\ lst'.pc = lst.pc /\ lst'.req = lst.req
    BY <2>1, LstSent
  <2>3. lst.pc \in {"sending", "resolving"} /\ lst.req \in Requests /\ c \in Conns
    BY <1>4, <2>1 DEF SendRequest, SendResolved, Lst
  <2>4. shown' \in [Conns -> SUBSET Requests] /\ closed' \in [Conns -> SUBSET Requests]
    <3>1. /\ shown[c] \cup {lst.req} \in SUBSET Requests
          /\ shown[c] \ {lst.req} \in SUBSET Requests
          /\ closed[c] \cup {lst.req} \in SUBSET Requests
      BY <2>3
    <3>2. \A S \in SUBSET Requests : /\ [shown EXCEPT ![c] = S] \in [Conns -> SUBSET Requests]
                                     /\ [closed EXCEPT ![c] = S] \in [Conns -> SUBSET Requests]
      OBVIOUS
    <3> HIDE DEF Types
    <3> QED
      BY <2>1, <3>1, <3>2
  <2> QED
    BY <1>4, <2>2, <2>3, <2>4 DEF SendRequest, SendResolved, connVars, callVars, coreVars
<1>5. CASE SpawnTask \/ CompleteResolve
  BY <1>0, <1>5 DEF SpawnTask, CompleteResolve, connVars, viewVars, coreVars, Places
<1>6. CASE TurnTransition
  <2>1. events' \in Seq(Event)
    BY <1>6, TailOf DEF TurnTransition
  <2> QED
    BY <1>6, <2>1 DEF TurnTransition, CancelRequests, Deliver, connVars, viewVars, listVars
<1>7. CASE ResolveCommand
  <2>1. /\ cmds' \in Seq(Resumes \cup Resolves)
        /\ Head(cmds) \in Resumes \cup Resolves /\ Head(cmds)[1] = "resolve"
    BY <1>7, TailOf DEF ResolveCommand
  <2>2. Head(cmds)[2] \in Requests
    BY <2>1 DEF Resumes, Resolves
  <2>3. lst' \in Lst /\ lst'.pc = "resolving" /\ lst'.req \in Requests
    <3>1. "resolving" \in Places /\ subs \in SUBSET Conns
      BY DEF Places
    <3>2. lst' = Sends("resolving", Head(cmds)[2], subs)
      BY <1>7 DEF ResolveCommand, Sends
    <3> HIDE DEF Types
    <3> QED
      BY <2>2, <3>1, <3>2, LstSends
  <2> QED
    BY <1>7, <2>1, <2>3 DEF ResolveCommand, connVars, callVars, viewVars, coreVars
<1>8. CASE ResumeCommand
  <2>1. /\ cmds' \in Seq(Resumes \cup Resolves)
        /\ Head(cmds) \in Resumes \cup Resolves /\ Head(cmds)[1] = "resume"
    BY <1>8, TailOf DEF ResumeCommand
  <2>2. Head(cmds)[2] \in Conns
    BY <2>1 DEF Resumes, Resolves
  <2>3. \/ UNCHANGED <<connVars, lst, viewVars>>
        \/ /\ subs' = subs \cup {Head(cmds)[2]}
           /\ joined' = joined \cup {Head(cmds)[2]}
           /\ shown' = [shown EXCEPT ![Head(cmds)[2]] = {}]
           /\ lst' = [At("resumed") EXCEPT !.conn = Head(cmds)[2]]
           /\ UNCHANGED <<live, closed>>
    BY <1>8 DEF ResumeCommand
  <2>4. lst' = lst \/ (lst' \in Lst /\ lst'.pc = "resumed" /\ lst'.conn \in Conns)
    BY <2>2, <2>3, LstResumed
  <2> QED
    BY <1>8, <2>1, <2>2, <2>3, <2>4 DEF ResumeCommand, connVars, callVars, viewVars, coreVars
<1>9. CASE TakeSnapshot
  <2>1. lst' \in Lst /\ lst'.pc = "replaying" /\ lst'.conn = lst.conn
    BY <1>9, AscendingEnumerates, LstReplays DEF TakeSnapshot
  <2> QED
    BY <1>9, <2>1 DEF TakeSnapshot, connVars, callVars, viewVars, coreVars
<1>10. CASE Replay
  <2>1. CASE lst.replay = <<>>
    BY <1>0, <1>10, <2>1 DEF Replay, connVars, callVars, coreVars, Places
  <2>2. CASE lst.replay # <<>>
    <3>1. lst.replay \in Seq(Requests) /\ lst.conn \in Conns
      BY <1>10 DEF Lst, Replay
    <3>2. Head(lst.replay) \in Requests /\ Tail(lst.replay) \in Seq(Requests)
      BY <2>2, <3>1, TailOf
    <3>3. lst' \in Lst /\ lst'.pc = lst.pc /\ lst'.conn = lst.conn
      <4>1. lst' = [lst EXCEPT !.replay = Tail(lst.replay)]
        BY <1>10, <2>2 DEF Replay
      <4> QED
        BY <3>2, <4>1, LstReplays
    <3>4. shown' \in [Conns -> SUBSET Requests]
      <4>1. shown' = [shown EXCEPT ![lst.conn] = shown[lst.conn] \cup {Head(lst.replay)}]
        BY <1>10, <2>2 DEF Replay
      <4>2. shown[lst.conn] \cup {Head(lst.replay)} \in SUBSET Requests
        BY <3>1, <3>2
      <4> QED
        BY <3>1, <4>1, <4>2
    <3> QED
      BY <1>10, <3>1, <3>3, <3>4 DEF Replay, connVars, callVars, coreVars
  <2> QED
    BY <2>1, <2>2
<1>11. CASE ListenerCancelled \/ ListenerEnds
  <2>1. /\ lst' = At("gone") /\ cmds' = <<>>
        /\ UNCHANGED <<connVars, callVars, viewVars, events>>
    BY <1>11 DEF ListenerCancelled, ListenerEnds, Gone, coreVars
  <2> QED
    BY <1>0, <2>1 DEF connVars, callVars, viewVars, Places
<1>12. CASE UnloadCheck
  BY <1>0, <1>12 DEF UnloadCheck, connVars, callVars, viewVars, coreVars, Places
<1>13. CASE UnloadCommit
  BY <1>0, <1>13 DEF UnloadCommit, CancelRequests, Deliver, connVars, viewVars, coreVars, Places
<1>14. CASE UnloadRemoves
  BY <1>0, <1>14 DEF UnloadRemoves, RemoveThreadState, Gone, callVars, viewVars, coreVars, Places
<1>15. CASE UnloadFinishes \/ RemovalShutdown
  <2>1. events' = events \/ events' = Stopped(events)
    BY <1>15 DEF UnloadFinishes, RemovalShutdown
  <2>2. TurnEvent("ended") \in Event
    BY DEF TurnEvent, Event
  <2>3. events' \in Seq(Event)
    <3>1. Append(events, TurnEvent("ended")) \in Seq(Event)
      BY <2>2, AppendOf
    <3> QED
      BY <2>1, <3>1 DEF Stopped
  <2> QED
    BY <1>15, <2>3 DEF UnloadFinishes, RemovalShutdown, connVars, callVars, viewVars, listVars
<1>16. CASE RemoveThread \/ TeardownCancels
  BY <1>16 DEF RemoveThread, TeardownCancels, CancelRequests, Deliver, connVars, callVars, viewVars,
     listVars, coreVars
<1>17. CASE TeardownRemoves
  BY <1>17 DEF TeardownRemoves, RemoveThreadState, callVars, viewVars, coreVars
<1>18. ASSUME NEW c \in Conns, NEW what \in {"answer", "error"}, Answer(c, what) PROVE Types'
  BY <1>18 DEF Answer, Deliver, connVars, viewVars, listVars, coreVars
<1>19. ASSUME NEW c \in Conns, ResumeThread(c) PROVE Types'
  <2>1. <<"resume", c>> \in Resumes \cup Resolves
    BY DEF Resumes
  <2>2. cmds' \in Seq(Resumes \cup Resolves)
    BY <1>19, <2>1, AppendOf DEF ResumeThread
  <2> QED
    BY <1>0, <1>19, <2>2 DEF ResumeThread, EnsureListener, connVars, callVars, viewVars, coreVars,
       Places
<1>20. ASSUME NEW c \in Conns, Attach(c) PROVE Types'
  BY <1>0, <1>20 DEF Attach, EnsureListener, callVars, viewVars, coreVars, Places
<1>21. ASSUME NEW c \in Conns, Unsubscribe(c) \/ Disconnect(c) PROVE Types'
  BY <1>21 DEF Unsubscribe, Disconnect, Teardown, CancelRequests, Deliver, RemoveThreadState,
     viewVars, coreVars
<1>22. ASSUME NEW c \in Conns, Connect(c) PROVE Types'
  BY <1>22 DEF Connect, callVars, listVars, coreVars
<1>23. ASSUME NEW r \in Requests, Resolve(r) PROVE Types'
  <2>1. <<"resolve", r>> \in Resumes \cup Resolves
    BY DEF Resolves
  <2>2. cmds' \in Seq(Resumes \cup Resolves)
    <3>1. Append(cmds, <<"resolve", r>>) \in Seq(Resumes \cup Resolves)
      BY <2>1, AppendOf
    <3> QED
      BY <1>23, <3>1 DEF Resolve
  <2> QED
    BY <1>23, <2>2 DEF Resolve, connVars, viewVars, coreVars
<1>24. ASSUME NEW r \in Requests, CompletionLost(r) \/ Decide(r) PROVE Types'
  BY <1>24 DEF CompletionLost, Decide, connVars, viewVars, listVars, coreVars
<1> QED
  BY <1>1, <1>2, <1>3, <1>4, <1>5, <1>6, <1>7, <1>8, <1>9, <1>10, <1>11, <1>12, <1>13, <1>14,
     <1>15, <1>16, <1>17, <1>18, <1>19, <1>20, <1>21, <1>22, <1>23, <1>24
     DEF Next, Session, Listener, Removal, Client, Task

-----------------------------------------------------------------------------
LEMMA SubscribersStep ==
    ASSUME SubscribersAreLive, Next PROVE SubscribersAreLive'
<1> USE DEF SubscribersAreLive
<1>1. CASE Session \/ RemoveThread \/ RemovalShutdown
  BY <1>1 DEF Session, StartTurn, Ask, EndTurn, RemoveThread, RemovalShutdown, connVars, lifeVars
<1>2. CASE AskClients \/ SendRequest \/ SpawnTask \/ TurnTransition \/ ResolveCommand
  BY <1>2 DEF AskClients, SendRequest, SpawnTask, TurnTransition, ResolveCommand, connVars, lifeVars
<1>3. CASE SendResolved \/ CompleteResolve \/ TakeSnapshot \/ Replay \/ ListenerCancelled
              \/ ListenerEnds \/ UnloadCheck
  BY <1>3 DEF SendResolved, CompleteResolve, TakeSnapshot, Replay, ListenerCancelled, ListenerEnds,
     UnloadCheck, connVars, lifeVars
<1>4. CASE ResumeCommand
  BY <1>4 DEF ResumeCommand, connVars, lifeVars
<1>5. CASE UnloadCommit \/ UnloadFinishes \/ TeardownCancels
  BY <1>5 DEF UnloadCommit, UnloadFinishes, TeardownCancels, connVars
<1>6. CASE UnloadRemoves \/ TeardownRemoves
  BY <1>6 DEF UnloadRemoves, TeardownRemoves, RemoveThreadState
<1>7. ASSUME NEW c \in Conns,
             Client(c)
      PROVE  SubscribersAreLive'
  <2>1. CASE \E what \in {"answer", "error"} : Answer(c, what)
    BY <2>1 DEF Answer, connVars, lifeVars
  <2>2. CASE ResumeThread(c) \/ Attach(c) \/ Connect(c)
    BY <2>2 DEF ResumeThread, Attach, Connect, connVars, lifeVars
  <2>3. CASE Unsubscribe(c) \/ Disconnect(c)
    BY <2>3 DEF Unsubscribe, Disconnect, Teardown, RemoveThreadState
  <2> QED
    BY <1>7, <2>1, <2>2, <2>3 DEF Client
<1>8. ASSUME NEW r \in Requests, Task(r) PROVE SubscribersAreLive'
  BY <1>8 DEF Task, Resolve, CompletionLost, Decide, connVars, lifeVars
<1> QED
  BY <1>1, <1>2, <1>3, <1>4, <1>5, <1>6, <1>7, <1>8 DEF Next, Listener, Removal

-----------------------------------------------------------------------------
(* What each step of the listener leaves in lst. *)
LEMMA SendMoves ==
    ASSUME Types, SendRequest \/ SendResolved
    PROVE  \E c \in lst.to :
              /\ c \in Conns
              /\ lst'.pc = lst.pc /\ lst'.req = lst.req /\ lst'.to = lst.to \ {c}
              /\ SendRequest => /\ shown' = [shown EXCEPT ![c] = @ \cup {lst.req}]
                                /\ closed' = closed
              /\ SendResolved => /\ shown' = [shown EXCEPT ![c] = @ \ {lst.req}]
                                 /\ closed' = [closed EXCEPT ![c] = @ \cup {lst.req}]
<1>0. lst \in Lst
  BY DEF Types
<1>1. CASE SendRequest
  <2>1. PICK c \in lst.to : /\ lst' = [lst EXCEPT !.to = @ \ {c}]
                            /\ shown' = [shown EXCEPT ![c] = @ \cup {lst.req}]
    BY <1>1 DEF SendRequest
  <2>2. /\ lst'.pc = lst.pc /\ lst'.req = lst.req /\ lst'.to = lst.to \ {c}
        /\ c \in Conns
    BY <1>0, <2>1 DEF Lst
  <2> QED
    BY <1>1, <2>1, <2>2 DEF SendRequest, SendResolved
<1>2. CASE SendResolved
  <2>1. PICK c \in lst.to : /\ lst' = [lst EXCEPT !.to = @ \ {c}]
                            /\ shown' = [shown EXCEPT ![c] = @ \ {lst.req}]
                            /\ closed' = [closed EXCEPT ![c] = @ \cup {lst.req}]
    BY <1>2 DEF SendResolved
  <2>2. /\ lst'.pc = lst.pc /\ lst'.req = lst.req /\ lst'.to = lst.to \ {c}
        /\ c \in Conns
    BY <1>0, <2>1 DEF Lst
  <2> QED
    BY <1>2, <2>1, <2>2 DEF SendRequest, SendResolved
<1> QED
  BY <1>1, <1>2

LEMMA AskMoves ==
    ASSUME Types, EventsAgree, AskClients
    PROVE  /\ Head(events).req \in Requests /\ task[Head(events).req] = "event"
           /\ outcome[Head(events).req] = "none"
           /\ lst'.pc = "sending" /\ lst'.req = Head(events).req /\ lst'.to = subs
<1>1. 1 \in DOMAIN events /\ Head(events) = events[1] /\ Head(events).kind = "ask"
  BY TailOf DEF AskClients, Types
<1>2. lst' = Sends("sending", Head(events).req, subs) /\ "sending" \in Places
  BY DEF AskClients, Sends, Places
<1>3. subs \in SUBSET Conns
  BY DEF Types
<1> QED
  BY <1>1, <1>2, <1>3, LstSends DEF EventsAgree

(* The head of the channel, and the channel without it. *)
LEMMA CommandMoves ==
    ASSUME Types, ResolveCommand \/ ResumeCommand
    PROVE  /\ 1 \in DOMAIN cmds /\ Head(cmds) = cmds[1] /\ cmds' \in Seq(Resumes \cup Resolves)
           /\ \A i \in DOMAIN cmds' : i + 1 \in DOMAIN cmds /\ cmds'[i] = cmds[i + 1] /\ i + 1 # 1
           /\ \A i \in DOMAIN cmds : i # 1 => \E j \in DOMAIN cmds' : cmds'[j] = cmds[i]
           /\ ResolveCommand =>
                 \E r \in Requests : /\ cmds[1] = <<"resolve", r>> /\ cmds[1] \in Resolves
                                     /\ lst'.pc = "resolving" /\ lst'.req = r /\ lst'.to = subs
           /\ ResumeCommand =>
                 \E c \in Conns : /\ cmds[1] = <<"resume", c>> /\ cmds[1] \notin Resolves
                                  /\ \/ UNCHANGED <<connVars, lst, viewVars>>
                                     \/ /\ c \in live
                                        /\ subs' = subs \cup {c}
                                        /\ joined' = joined \cup {c}
                                        /\ shown' = [shown EXCEPT ![c] = {}]
                                        /\ closed' = closed
                                        /\ lst'.pc = "resumed" /\ lst'.conn = c
<1>0. cmds \in Seq(Resumes \cup Resolves) /\ cmds # <<>> /\ cmds' = Tail(cmds)
      /\ subs \in SUBSET Conns
  BY DEF Types, ResolveCommand, ResumeCommand
<1>1. /\ 1 \in DOMAIN cmds /\ Head(cmds) = cmds[1] /\ Head(cmds) \in Resumes \cup Resolves
      /\ cmds' \in Seq(Resumes \cup Resolves)
      /\ \A i \in DOMAIN cmds' : i + 1 \in DOMAIN cmds /\ cmds'[i] = cmds[i + 1]
      /\ \A i \in DOMAIN cmds : i # 1 => i - 1 \in DOMAIN cmds' /\ cmds'[i - 1] = cmds[i]
  BY <1>0, TailOf
<1>2. \A i \in DOMAIN cmds' : i + 1 # 1
  BY <1>1, LenProperties
<1>3. ASSUME ResolveCommand
      PROVE  \E r \in Requests : /\ cmds[1] = <<"resolve", r>> /\ cmds[1] \in Resolves
                                 /\ lst'.pc = "resolving" /\ lst'.req = r /\ lst'.to = subs
  <2>1. PICK r \in Requests : /\ cmds[1] = <<"resolve", r>> /\ cmds[1] \in Resolves
                              /\ cmds[1][2] = r
    BY <1>1, <1>3 DEF ResolveCommand, Resumes, Resolves
  <2>2. lst' = Sends("resolving", cmds[1][2], subs) /\ "resolving" \in Places
    BY <1>1, <1>3 DEF ResolveCommand, Sends, Places
  <2> QED
    BY <1>0, <2>1, <2>2, LstSends
<1>4. ASSUME ResumeCommand
      PROVE  \E c \in Conns : /\ cmds[1] = <<"resume", c>> /\ cmds[1] \notin Resolves
                              /\ \/ UNCHANGED <<connVars, lst, viewVars>>
                                 \/ /\ c \in live
                                    /\ subs' = subs \cup {c}
                                    /\ joined' = joined \cup {c}
                                    /\ shown' = [shown EXCEPT ![c] = {}]
                                    /\ closed' = closed
                                    /\ lst'.pc = "resumed" /\ lst'.conn = c
  <2>1. PICK c \in Conns : cmds[1] = <<"resume", c>> /\ cmds[1] \notin Resolves
    BY <1>1, <1>4 DEF ResumeCommand, Resumes, Resolves
  <2>2. \/ UNCHANGED <<connVars, lst, viewVars>>
        \/ /\ c \in live
           /\ subs' = subs \cup {c}
           /\ joined' = joined \cup {c}
           /\ shown' = [shown EXCEPT ![c] = {}]
           /\ closed' = closed
           /\ lst' = [At("resumed") EXCEPT !.conn = c]
    BY <1>1, <1>4, <2>1 DEF ResumeCommand
  <2> QED
    BY <2>1, <2>2, LstResumed
<1> QED
  BY <1>1, <1>2, <1>3, <1>4

LEMMA SnapshotMoves ==
    ASSUME Types, TakeSnapshot
    PROVE  /\ lst'.pc = "replaying" /\ lst'.conn = lst.conn
           /\ lst'.replay \in Seq(Requests)
           /\ {lst'.replay[i] : i \in DOMAIN lst'.replay} = pending
<1>1. /\ lst' = [lst EXCEPT !.pc = "replaying", !.replay = Ascending(pending)]
      /\ lst \in Lst /\ pending \in SUBSET Requests
  BY DEF TakeSnapshot, Types
<1>2. /\ Ascending(pending) \in Seq(Requests)
      /\ {Ascending(pending)[i] : i \in DOMAIN Ascending(pending)} = pending
  BY <1>1, AscendingEnumerates
<1>3. lst'.pc = "replaying" /\ lst'.conn = lst.conn /\ lst'.replay = Ascending(pending)
  BY <1>1, <1>2, LstReplays
<1> QED
  BY <1>2, <1>3

LEMMA ReplayMoves ==
    ASSUME Types, Replay
    PROVE  /\ lst.conn \in Conns
           /\ \/ /\ lst'.pc = "select" /\ shown' = shown
                 /\ DOMAIN lst.replay = {}
              \/ /\ lst'.pc = "replaying" /\ lst'.conn = lst.conn
                 /\ 1 \in DOMAIN lst.replay
                 /\ shown' = [shown EXCEPT ![lst.conn] = @ \cup {lst.replay[1]}]
                 /\ \A i \in DOMAIN lst'.replay :
                       i + 1 \in DOMAIN lst.replay /\ lst'.replay[i] = lst.replay[i + 1]
                 /\ \A i \in DOMAIN lst.replay : i # 1 =>
                       \E j \in DOMAIN lst'.replay : lst'.replay[j] = lst.replay[i]
<1>0. lst \in Lst /\ lst.conn \in Conns /\ lst.replay \in Seq(Requests) /\ lst.pc = "replaying"
  BY DEF Types, Lst, Replay
<1>1. CASE lst.replay = <<>>
  <2>1. At("select").pc = "select"
    BY AtPlace DEF Places
  <2>2. DOMAIN lst.replay = {}
    BY <1>1
  <2> QED
    BY <1>0, <1>1, <2>1, <2>2 DEF Replay
<1>2. CASE lst.replay # <<>>
  <2>1. /\ 1 \in DOMAIN lst.replay /\ Head(lst.replay) = lst.replay[1]
        /\ Tail(lst.replay) \in Seq(Requests)
        /\ \A i \in DOMAIN Tail(lst.replay) :
              i + 1 \in DOMAIN lst.replay /\ Tail(lst.replay)[i] = lst.replay[i + 1]
        /\ \A i \in DOMAIN lst.replay : i # 1 =>
              i - 1 \in DOMAIN Tail(lst.replay) /\ Tail(lst.replay)[i - 1] = lst.replay[i]
    BY <1>0, <1>2, TailOf
  <2>2. /\ lst' = [lst EXCEPT !.replay = Tail(lst.replay)]
        /\ shown' = [shown EXCEPT ![lst.conn] = @ \cup {lst.replay[1]}]
    BY <1>2, <2>1 DEF Replay
  <2>3. lst'.pc = "replaying" /\ lst'.conn = lst.conn /\ lst'.replay = Tail(lst.replay)
    BY <1>0, <2>1, <2>2, LstReplays
  <2> QED
    BY <1>0, <2>1, <2>2, <2>3
<1> QED
  BY <1>1, <1>2

(* The steps that leave the events alone. *)
LEMMA EventsFrame ==
    ASSUME EventsAgree, events' = events, pending' \subseteq pending,
           \A r \in Requests : task[r] = "event" /\ ~(lst.pc = "sending" /\ lst.req = r)
                                  => task'[r] = "event",
           \A r \in Requests \ pending : outcome'[r] = outcome[r],
           lst'.pc = "sending" =>
               lst.pc = "sending" /\ lst'.req = lst.req /\ task'[lst.req] = task[lst.req]
    PROVE  EventsAgree'
  BY DEF EventsAgree

LEMMA EventsStep ==
    ASSUME Types, EventsAgree, TasksAgree, Next PROVE EventsAgree'
<1>0. /\ events \in Seq(Event) /\ lst \in Lst
      /\ task \in [Requests -> {"none", "event", "await", "resolve", "decide", "done"}]
      /\ outcome \in [Requests -> {"none", "answer", "error", "transition", "dropped"}]
      /\ \A p \in Places : At(p).pc = p
      /\ cmds \in Seq(Resumes \cup Resolves) /\ subs \in SUBSET Conns
      /\ lst.pc \in {"sending", "resolving"} => lst.req \in Requests
  BY AtPlace DEF Types
<1>1. ASSUME NEW e \in Event, e.kind # "ask", events' = Append(events, e),
             UNCHANGED <<task, outcome, pending, lst>>
      PROVE  EventsAgree'
  <2>1. /\ DOMAIN events' = DOMAIN events \cup {Len(events) + 1}
        /\ events'[Len(events) + 1] = e
        /\ \A i \in DOMAIN events : events'[i] = events[i]
    BY <1>0, <1>1, AppendOf
  <2> QED
    BY <1>1, <2>1 DEF EventsAgree
<1>2. CASE StartTurn \/ EndTurn \/ UnloadFinishes \/ RemovalShutdown
  <2>1. /\ TurnEvent("started") \in Event /\ TurnEvent("started").kind # "ask"
        /\ TurnEvent("ended") \in Event /\ TurnEvent("ended").kind # "ask"
    BY BoundsAreNat DEF TurnEvent, Event
  <2>2. UNCHANGED <<task, outcome, pending, lst>>
    BY <1>2 DEF StartTurn, EndTurn, UnloadFinishes, RemovalShutdown, callVars, listVars
  <2>3. \/ events' = events
        \/ events' = Append(events, TurnEvent("started"))
        \/ events' = Append(events, TurnEvent("ended"))
    BY <1>2 DEF StartTurn, EndTurn, UnloadFinishes, RemovalShutdown, Stopped
  <2>4. CASE events' = events
    BY <2>2, <2>4, EventsFrame
  <2> QED
    BY <1>1, <2>1, <2>2, <2>3, <2>4
<1>3. CASE Ask
  <2>1. PICK r \in Requests :
           /\ task[r] = "none" /\ task' = [task EXCEPT ![r] = "event"]
           /\ events' = Append(events, AskEvent(r))
    BY <1>3 DEF Ask
  <2>2. UNCHANGED <<outcome, pending, lst>>
    BY <1>3 DEF Ask, listVars
  <2>3. AskEvent(r) \in Event /\ AskEvent(r).kind = "ask" /\ AskEvent(r).req = r
    BY BoundsAreNat DEF AskEvent, Event, Requests
  <2>4. /\ DOMAIN events' = DOMAIN events \cup {Len(events) + 1}
        /\ events'[Len(events) + 1] = AskEvent(r)
        /\ \A i \in DOMAIN events : events'[i] = events[i]
    BY <1>0, <2>1, <2>3, AppendOf
  <2>5. outcome[r] = "none" /\ r \notin pending
    BY <2>1 DEF TasksAgree
  <2>6. \A i \in DOMAIN events : events[i].kind = "ask" => events[i].req # r
    BY <2>1 DEF EventsAgree
  <2>7. task'[r] = "event" /\ \A q \in Requests \ {r} : task'[q] = task[q]
    BY <1>0, <2>1
  <2>8. lst.pc = "sending" => lst.req \in Requests /\ lst.req # r
    BY <1>0, <2>1 DEF EventsAgree
  <2> QED
    BY <2>2, <2>3, <2>4, <2>5, <2>6, <2>7, <2>8 DEF EventsAgree
<1>4. ASSUME events # <<>>, events' = Tail(events)
      PROVE  /\ 1 \in DOMAIN events /\ Head(events) = events[1]
             /\ \A i \in DOMAIN events' : /\ i \in Nat /\ i + 1 \in DOMAIN events
                                          /\ i + 1 # 1
                                          /\ events'[i] = events[i + 1]
  <2>1. /\ 1 \in DOMAIN events /\ Head(events) = events[1] /\ Tail(events) \in Seq(Event)
        /\ \A i \in DOMAIN Tail(events) : i + 1 \in DOMAIN events /\ Tail(events)[i] = events[i + 1]
    BY <1>0, <1>4, TailOf
  <2>2. DOMAIN Tail(events) \subseteq Nat \ {0}
    BY <2>1, LenProperties
  <2> QED
    BY <1>4, <2>1, <2>2
<1>5. CASE AskClients
  <2>1. /\ events # <<>> /\ events' = Tail(events) /\ Head(events).kind = "ask"
        /\ pending' = pending \cup {Head(events).req}
        /\ UNCHANGED <<task, outcome>>
    BY <1>5 DEF AskClients
  <2>2. Head(events).req \in Requests /\ task[Head(events).req] = "event"
    BY <1>5, AskMoves
  <2>4. lst'.pc = "sending" /\ lst'.req = Head(events).req
    BY <1>5, AskMoves
  <2>5. \A i \in DOMAIN events' : events'[i].kind = "ask" => events'[i].req # Head(events).req
    BY <1>4, <2>1 DEF EventsAgree
  <2> QED
    BY <1>4, <2>1, <2>2, <2>4, <2>5 DEF EventsAgree
<1>6. CASE TurnTransition
  <2>1. /\ events # <<>> /\ events' = Tail(events)
        /\ pending' \subseteq pending
        /\ \A r \in Requests \ pending : outcome'[r] = outcome[r]
        /\ UNCHANGED <<task, lst>>
    BY <1>0, <1>6 DEF TurnTransition, CancelRequests, Deliver, listVars
  <2> QED
    BY <1>4, <2>1 DEF EventsAgree
<1>7. CASE SendRequest \/ SendResolved
  <2>1. lst'.pc = lst.pc /\ lst'.req = lst.req
    BY <1>7, SendMoves DEF Types
  <2>2. UNCHANGED <<events, pending, task, outcome>>
    BY <1>7 DEF SendRequest, SendResolved, coreVars, callVars
  <2> QED
    BY <2>1, <2>2, EventsFrame
<1>8. CASE SpawnTask \/ CompleteResolve
  <2>1. /\ lst'.pc = "select" /\ UNCHANGED <<events, pending, outcome>>
        /\ \A r \in Requests : r # lst.req => task'[r] = task[r]
        /\ lst.pc = "sending" \/ (lst.pc = "resolving" /\ task[lst.req] = "resolve")
    BY <1>0, <1>8 DEF SpawnTask, CompleteResolve, coreVars, Places, TasksAgree
  <2> QED
    BY <2>1, EventsFrame
<1>9. CASE ResolveCommand \/ ResumeCommand \/ TakeSnapshot \/ Replay
  <2>1. UNCHANGED <<events, pending, task, outcome>>
    BY <1>9 DEF ResolveCommand, ResumeCommand, TakeSnapshot, Replay, coreVars, callVars
  <2>2. lst'.pc # "sending" \/ UNCHANGED lst
    <3>1. CASE ResolveCommand \/ ResumeCommand
      BY <3>1, CommandMoves
    <3>2. CASE TakeSnapshot
      BY <3>2, SnapshotMoves
    <3>3. CASE Replay
      BY <3>3, ReplayMoves
    <3> QED
      BY <1>9, <3>1, <3>2, <3>3
  <2> QED
    BY <2>1, <2>2, EventsFrame
<1>10. CASE ListenerCancelled \/ ListenerEnds \/ UnloadCheck \/ UnloadRemoves
  <2>1. UNCHANGED <<events, pending, task, outcome>> /\ lst'.pc # "sending"
    BY <1>0, <1>10 DEF ListenerCancelled, ListenerEnds, UnloadCheck, UnloadRemoves, Gone, coreVars,
       callVars, Places
  <2> QED
    BY <2>1, EventsFrame
<1>11. CASE UnloadCommit
  <2>1. /\ UNCHANGED <<events, task>> /\ lst'.pc # "sending" /\ pending' \subseteq pending
        /\ \A r \in Requests \ pending : outcome'[r] = outcome[r]
    BY <1>0, <1>11 DEF UnloadCommit, CancelRequests, Deliver, coreVars, Places
  <2> QED
    BY <2>1, EventsFrame
<1>12. CASE RemoveThread \/ TeardownRemoves
  <2>1. UNCHANGED <<events, pending, task, outcome, lst>>
    BY <1>12 DEF RemoveThread, TeardownRemoves, coreVars, callVars, listVars
  <2> QED
    BY <2>1, EventsFrame
<1>13. ASSUME NEW rs \in SUBSET pending, NEW what, Deliver(rs, what) \/ UNCHANGED <<pending, outcome>>,
              UNCHANGED <<events, task, lst>>
       PROVE  EventsAgree'
  <2>1. pending' \subseteq pending /\ \A r \in Requests \ pending : outcome'[r] = outcome[r]
    BY <1>0, <1>13 DEF Deliver
  <2> QED
    BY <1>13, <2>1, EventsFrame
<1>14. CASE TeardownCancels
  BY <1>13, <1>14 DEF TeardownCancels, CancelRequests, coreVars, listVars
<1>15. ASSUME NEW c \in Conns, Client(c) PROVE EventsAgree'
  <2>1. ASSUME NEW what \in {"answer", "error"}, Answer(c, what) PROVE EventsAgree'
    <3>1. PICK r \in pending : Deliver({r}, what)
      BY <2>1 DEF Answer
    <3>2. {r} \in SUBSET pending /\ UNCHANGED <<events, task, lst>>
      BY <2>1 DEF Answer, coreVars, listVars
    <3> QED
      BY <1>13, <3>1, <3>2
  <2>2. CASE Unsubscribe(c) \/ Disconnect(c)
    <3>1. Deliver(pending, "dropped") \/ UNCHANGED <<pending, outcome>>
      BY <2>2 DEF Unsubscribe, Disconnect, Teardown, CancelRequests
    <3>2. UNCHANGED <<events, task, lst>>
      BY <2>2 DEF Unsubscribe, Disconnect, coreVars
    <3> QED
      BY <1>13, <3>1, <3>2
  <2>3. CASE ResumeThread(c) \/ Attach(c) \/ Connect(c)
    <3>1. UNCHANGED <<events, pending, task, outcome>> /\ (lst' = lst \/ lst' = At("select"))
      BY <2>3 DEF ResumeThread, Attach, Connect, EnsureListener, coreVars, callVars, listVars
    <3>2. At("select").pc # "sending"
      BY <1>0 DEF Places
    <3> QED
      BY <3>1, <3>2, EventsFrame
  <2> QED
    BY <1>15, <2>1, <2>2, <2>3 DEF Client
<1>16. ASSUME NEW r \in Requests, Task(r) PROVE EventsAgree'
  <2>1. /\ UNCHANGED <<events, pending, outcome, lst>>
        /\ task[r] \in {"await", "resolve", "decide"}
        /\ \A q \in Requests \ {r} : task'[q] = task[q]
    BY <1>0, <1>16 DEF Task, Resolve, Settled, CompletionLost, Decide, coreVars, listVars
  <2>2. lst.pc = "sending" => lst.req \in Requests /\ lst.req # r
    BY <1>0, <2>1 DEF EventsAgree
  <2> QED
    BY <2>1, <2>2, EventsFrame
<1> QED
  BY <1>2, <1>3, <1>5, <1>6, <1>7, <1>8, <1>9, <1>10, <1>11, <1>12, <1>14, <1>15, <1>16
     DEF Next, Session, Listener, Removal

-----------------------------------------------------------------------------
(* The steps that only take callbacks, or drop commands. *)
LEMMA TasksFrame ==
    ASSUME TasksAgree, UNCHANGED <<task, op>>, pending' \subseteq pending,
           \A r \in pending' : outcome'[r] = outcome[r],
           \A r \in Requests : outcome'[r] # "none" => outcome[r] # "none" \/ r \in pending,
           cmds' = cmds \/ cmds' = <<>>,
           lst'.pc = "resolving" => lst.pc = "resolving" /\ lst'.req = lst.req
    PROVE  TasksAgree'
  BY DEF TasksAgree, Queued, Resolving

(* The steps that move one task. *)
LEMMA TasksMove ==
    ASSUME Types, TasksAgree, NEW r \in Requests, r \notin pending, ~Queued(<<"resolve", r>>),
           ~Resolving(r),
           UNCHANGED <<pending, outcome, cmds>>,
           \A q \in Requests \ {r} : task'[q] = task[q] /\ op'[q] = op[q],
           task'[r] # "none", op'[r] # "none" => task'[r] = "done",
           lst' = lst \/ lst'.pc # "resolving"
    PROVE  TasksAgree'
<1>1. lst.pc = "resolving" => lst.req \in Requests
  BY DEF Types
<1>2. pending \subseteq Requests
  BY DEF Types
<1> QED
  BY <1>1, <1>2 DEF TasksAgree, Queued, Resolving

LEMMA TasksStep ==
    ASSUME Types, EventsAgree, TasksAgree, Next PROVE TasksAgree'
<1>0. /\ task \in [Requests -> {"none", "event", "await", "resolve", "decide", "done"}]
      /\ outcome \in [Requests -> {"none", "answer", "error", "transition", "dropped"}]
      /\ op \in [Requests -> {"none", "answer", "denied", "nothing"}]
      /\ \A p \in Places : At(p).pc = p
      /\ cmds \in Seq(Resumes \cup Resolves) /\ subs \in SUBSET Conns
      /\ lst.pc \in {"sending", "resolving"} => lst.req \in Requests
      /\ pending \subseteq Requests
  BY AtPlace DEF Types
<1>1. ASSUME NEW rs \in SUBSET pending, NEW what, Deliver(rs, what) \/ UNCHANGED <<pending, outcome>>,
             UNCHANGED <<task, op>>, cmds' = cmds \/ cmds' = <<>>, lst' = lst \/ lst'.pc # "resolving"
      PROVE  TasksAgree'
  <2>1. /\ pending' \subseteq pending
        /\ \A r \in pending' : outcome'[r] = outcome[r]
        /\ \A r \in Requests : outcome'[r] # "none" => outcome[r] # "none" \/ r \in pending
    BY <1>0, <1>1 DEF Deliver
  <2> QED
    BY <1>1, <2>1, TasksFrame
<1>2. CASE StartTurn \/ EndTurn \/ UnloadFinishes \/ RemovalShutdown \/ RemoveThread
              \/ TeardownRemoves
  <2>1. UNCHANGED <<pending, outcome, task, op, cmds, lst>>
    BY <1>2 DEF StartTurn, EndTurn, UnloadFinishes, RemovalShutdown, RemoveThread, TeardownRemoves,
       callVars, listVars
  <2> QED
    BY <1>1, <2>1
<1>3. CASE Ask
  <2>1. PICK r \in Requests : task[r] = "none" /\ task' = [task EXCEPT ![r] = "event"]
    BY <1>3 DEF Ask
  <2>2. UNCHANGED <<pending, outcome, op, cmds, lst>>
    BY <1>3 DEF Ask, listVars
  <2>3. r \notin pending /\ ~Queued(<<"resolve", r>>) /\ ~Resolving(r) /\ op[r] = "none"
    BY <2>1 DEF TasksAgree, Resolving
  <2>4. task'[r] = "event" /\ \A q \in Requests \ {r} : task'[q] = task[q]
    BY <1>0, <2>1
  <2> QED
    BY <2>2, <2>3, <2>4, TasksMove
<1>4. CASE AskClients
  <2>1. /\ Head(events).req \in Requests /\ task[Head(events).req] = "event"
        /\ outcome[Head(events).req] = "none"
        /\ lst'.pc = "sending"
    BY <1>4, AskMoves
  <2>2. UNCHANGED <<outcome, task, op, cmds>> /\ pending' = pending \cup {Head(events).req}
    BY <1>4 DEF AskClients
  <2> QED
    BY <2>1, <2>2 DEF TasksAgree, Queued, Resolving
<1>5. CASE SendRequest \/ SendResolved
  <2>1. lst'.pc = lst.pc /\ lst'.req = lst.req
    BY <1>5, SendMoves
  <2>2. UNCHANGED <<pending, outcome, task, op, cmds>>
    BY <1>5 DEF SendRequest, SendResolved, callVars
  <2> QED
    BY <2>1, <2>2, TasksFrame
<1>6. CASE SpawnTask
  <2>1. /\ UNCHANGED <<pending, outcome, op, cmds>> /\ lst.req \in Requests
        /\ task[lst.req] = "event" /\ task' = [task EXCEPT ![lst.req] = "await"]
        /\ lst'.pc = "select"
    BY <1>0, <1>6 DEF SpawnTask, EventsAgree, Places
  <2>2. task'[lst.req] = "await" /\ \A q \in Requests \ {lst.req} : task'[q] = task[q]
    BY <1>0, <2>1
  <2> QED
    BY <1>0, <2>1, <2>2 DEF TasksAgree, Queued, Resolving
<1>7. CASE CompleteResolve
  <2>1. /\ UNCHANGED <<pending, outcome, op, cmds>> /\ lst.req \in Requests
        /\ task[lst.req] = "resolve" /\ task' = [task EXCEPT ![lst.req] = "decide"]
        /\ lst.pc = "resolving" /\ lst'.pc = "select"
    BY <1>0, <1>7 DEF CompleteResolve, TasksAgree, Places
  <2>2. task'[lst.req] = "decide" /\ \A q \in Requests \ {lst.req} : task'[q] = task[q]
    BY <1>0, <2>1
  <2>3. ~Queued(<<"resolve", lst.req>>) /\ lst.req \notin pending
    BY <2>1 DEF TasksAgree, Resolving
  <2> QED
    BY <1>0, <2>1, <2>2, <2>3 DEF TasksAgree, Queued, Resolving
<1>8. CASE TurnTransition \/ UnloadCommit \/ TeardownCancels
  <2>1. \E what : Deliver(pending, what) \/ UNCHANGED <<pending, outcome>>
    BY <1>8 DEF TurnTransition, UnloadCommit, TeardownCancels, CancelRequests
  <2>2. UNCHANGED <<task, op, cmds>> /\ (lst' = lst \/ lst'.pc # "resolving")
    BY <1>0, <1>8 DEF TurnTransition, UnloadCommit, TeardownCancels, listVars, Places
  <2> QED
    BY <1>1, <2>1, <2>2
<1>9. CASE ResolveCommand
  <2>1. PICK r \in Requests : /\ cmds[1] = <<"resolve", r>> /\ cmds[1] \in Resolves
                              /\ lst'.pc = "resolving" /\ lst'.req = r
    BY <1>9, CommandMoves
  <2>2. /\ 1 \in DOMAIN cmds
        /\ \A i \in DOMAIN cmds' : i + 1 \in DOMAIN cmds /\ cmds'[i] = cmds[i + 1] /\ i + 1 # 1
        /\ cmds' \in Seq(Resumes \cup Resolves)
    BY <1>9, CommandMoves
  <2>3. UNCHANGED <<pending, outcome, task, op>>
    BY <1>9 DEF ResolveCommand, callVars
  <2>4. task[r] = "resolve"
    BY <2>1, <2>2 DEF TasksAgree, Queued
  <2>5. \A i \in DOMAIN cmds' : cmds'[i] # <<"resolve", r>>
    BY <2>1, <2>2 DEF TasksAgree
  <2>6. \A q \in Requests : Queued(<<"resolve", q>>)' => Queued(<<"resolve", q>>) /\ q # r
    BY <2>2, <2>5 DEF Queued
  <2>7. \A i, j \in DOMAIN cmds' : cmds'[i] \in Resolves /\ cmds'[i] = cmds'[j] => i = j
    <3>1. DOMAIN cmds' \subseteq Nat
      BY <2>2, LenProperties
    <3> QED
      BY <2>2, <3>1 DEF TasksAgree
  <2> QED
    BY <2>1, <2>3, <2>4, <2>6, <2>7 DEF TasksAgree, Resolving
<1>10. CASE ResumeCommand
  <2>1. /\ \A i \in DOMAIN cmds' : i + 1 \in DOMAIN cmds /\ cmds'[i] = cmds[i + 1] /\ i + 1 # 1
        /\ cmds' \in Seq(Resumes \cup Resolves)
        /\ lst' = lst \/ lst'.pc = "resumed"
    BY <1>10, CommandMoves
  <2>2. UNCHANGED <<pending, outcome, task, op>>
    BY <1>10 DEF ResumeCommand, callVars
  <2>3. \A q \in Requests : Queued(<<"resolve", q>>)' => Queued(<<"resolve", q>>)
    BY <2>1 DEF Queued
  <2>4. \A i, j \in DOMAIN cmds' : cmds'[i] \in Resolves /\ cmds'[i] = cmds'[j] => i = j
    <3>1. DOMAIN cmds' \subseteq Nat
      BY <2>1, LenProperties
    <3> QED
      BY <2>1, <3>1 DEF TasksAgree
  <2> QED
    BY <2>1, <2>2, <2>3, <2>4 DEF TasksAgree, Resolving
<1>11. CASE TakeSnapshot \/ Replay
  <2>1. lst'.pc # "resolving"
    BY <1>11, SnapshotMoves, ReplayMoves
  <2>2. UNCHANGED <<pending, outcome, task, op, cmds>>
    BY <1>11 DEF TakeSnapshot, Replay, callVars
  <2> QED
    BY <1>1, <2>1, <2>2
<1>12. CASE ListenerCancelled \/ ListenerEnds \/ UnloadCheck \/ UnloadRemoves
  <2>1. /\ UNCHANGED <<pending, outcome, task, op>> /\ lst'.pc # "resolving"
        /\ cmds' = cmds \/ cmds' = <<>>
    BY <1>0, <1>12 DEF ListenerCancelled, ListenerEnds, UnloadCheck, UnloadRemoves, Gone, callVars,
       Places
  <2> QED
    BY <1>1, <2>1
<1>13. ASSUME NEW c \in Conns, Client(c) PROVE TasksAgree'
  <2>1. ASSUME NEW what \in {"answer", "error"}, Answer(c, what) PROVE TasksAgree'
    <3>1. PICK r \in pending : Deliver({r}, what)
      BY <2>1 DEF Answer
    <3>2. {r} \in SUBSET pending /\ UNCHANGED <<task, op, cmds, lst>>
      BY <2>1 DEF Answer, listVars
    <3> QED
      BY <1>1, <3>1, <3>2
  <2>2. CASE Unsubscribe(c) \/ Disconnect(c)
    <3>1. Deliver(pending, "dropped") \/ UNCHANGED <<pending, outcome>>
      BY <2>2 DEF Unsubscribe, Disconnect, Teardown, CancelRequests
    <3>2. UNCHANGED <<task, op, cmds, lst>>
      BY <2>2 DEF Unsubscribe, Disconnect
    <3> QED
      BY <1>1, <3>1, <3>2
  <2>3. CASE Attach(c) \/ Connect(c)
    <3>1. UNCHANGED <<pending, task, outcome, op, cmds>> /\ (lst' = lst \/ lst' = At("select"))
      BY <2>3 DEF Attach, Connect, EnsureListener, callVars, listVars
    <3>2. At("select").pc # "resolving"
      BY <1>0 DEF Places
    <3> QED
      BY <1>1, <3>1, <3>2
  <2>4. CASE ResumeThread(c)
    <3>1. /\ UNCHANGED <<pending, task, outcome, op>>
          /\ lst' = lst \/ lst' = At("select")
          /\ cmds' = Append(cmds, <<"resume", c>>)
      BY <2>4 DEF ResumeThread, EnsureListener, callVars
    <3>2. At("select").pc # "resolving"
      BY <1>0 DEF Places
    <3>3. /\ <<"resume", c>> \in Resumes \cup Resolves
          /\ <<"resume", c>> \notin Resolves
          /\ \A r : <<"resume", c>> # <<"resolve", r>>
      BY DEF Resumes, Resolves
    <3>4. /\ DOMAIN cmds' = DOMAIN cmds \cup {Len(cmds) + 1}
          /\ cmds'[Len(cmds) + 1] = <<"resume", c>>
          /\ \A i \in DOMAIN cmds : cmds'[i] = cmds[i]
      BY <1>0, <3>1, <3>3, AppendOf
    <3>5. \A q \in Requests : Queued(<<"resolve", q>>)' => Queued(<<"resolve", q>>)
      BY <3>3, <3>4 DEF Queued
    <3>6. \A i, j \in DOMAIN cmds' : cmds'[i] \in Resolves /\ cmds'[i] = cmds'[j] => i = j
      BY <3>3, <3>4 DEF TasksAgree
    <3> QED
      BY <3>1, <3>2, <3>5, <3>6 DEF TasksAgree, Resolving
  <2> QED
    BY <1>13, <2>1, <2>2, <2>3, <2>4 DEF Client
<1>14. ASSUME NEW r \in Requests, Resolve(r) PROVE TasksAgree'
  <2>1. /\ task[r] = "await" /\ outcome[r] # "none" /\ UNCHANGED <<pending, outcome, op, lst>>
        /\ \/ cmds' = Append(cmds, <<"resolve", r>>) /\ task' = [task EXCEPT ![r] = "resolve"]
           \/ cmds' = cmds /\ task' = [task EXCEPT ![r] = "decide"]
    BY <1>14 DEF Resolve, Settled
  <2>2. r \notin pending /\ ~Queued(<<"resolve", r>>) /\ ~Resolving(r) /\ op[r] = "none"
    BY <2>1 DEF TasksAgree, Resolving
  <2>3. task'[r] \in {"resolve", "decide"} /\ \A q \in Requests \ {r} : task'[q] = task[q]
    BY <1>0, <2>1
  <2>4. CASE cmds' = cmds
    BY <2>1, <2>2, <2>3, <2>4, TasksMove
  <2>5. CASE cmds' = Append(cmds, <<"resolve", r>>) /\ task' = [task EXCEPT ![r] = "resolve"]
    <3>1. <<"resolve", r>> \in Resumes \cup Resolves
      BY DEF Resolves
    <3>2. /\ DOMAIN cmds' = DOMAIN cmds \cup {Len(cmds) + 1}
          /\ cmds'[Len(cmds) + 1] = <<"resolve", r>>
          /\ \A i \in DOMAIN cmds : cmds'[i] = cmds[i]
      BY <1>0, <2>5, <3>1, AppendOf
    <3>3. ASSUME NEW q \in Requests, Queued(<<"resolve", q>>)'
          PROVE  Queued(<<"resolve", q>>) \/ q = r
      <4>1. PICK i \in DOMAIN cmds' : cmds'[i] = <<"resolve", q>>
        BY <3>3 DEF Queued
      <4>2. CASE i \in DOMAIN cmds
        BY <3>2, <4>1, <4>2 DEF Queued
      <4>3. CASE i = Len(cmds) + 1
        BY <3>2, <4>1, <4>3
      <4> QED
        BY <3>2, <4>2, <4>3
    <3>4. ASSUME NEW i \in DOMAIN cmds', NEW j \in DOMAIN cmds',
                 cmds'[i] \in Resolves, cmds'[i] = cmds'[j]
          PROVE  i = j
      <4>1. \A k \in DOMAIN cmds : cmds'[k] # cmds'[Len(cmds) + 1]
        BY <2>2, <3>2 DEF Queued
      <4> QED
        BY <3>2, <3>4, <4>1 DEF TasksAgree
    <3>5. task'[r] = "resolve"
      BY <1>0, <2>5
    <3>6. lst.pc = "resolving" => lst.req \in Requests /\ lst.req # r
      BY <1>0, <2>2 DEF Resolving
    <3> QED
      BY <1>0, <2>1, <2>2, <2>3, <3>3, <3>4, <3>5, <3>6 DEF TasksAgree, Resolving
  <2> QED
    BY <2>1, <2>4, <2>5
<1>15. ASSUME NEW r \in Requests, CompletionLost(r) PROVE TasksAgree'
  <2>1. /\ task[r] = "resolve" /\ UNCHANGED <<pending, outcome, op, lst, cmds>>
        /\ task' = [task EXCEPT ![r] = "decide"]
        /\ ~Queued(<<"resolve", r>>) /\ ~Resolving(r)
    BY <1>15 DEF CompletionLost, listVars, Queued, Resolving
  <2>2. r \notin pending /\ op[r] = "none"
    BY <2>1 DEF TasksAgree
  <2>3. task'[r] = "decide" /\ \A q \in Requests \ {r} : task'[q] = task[q]
    BY <1>0, <2>1
  <2> QED
    BY <2>1, <2>2, <2>3, TasksMove
<1>16. ASSUME NEW r \in Requests, Decide(r) PROVE TasksAgree'
  <2>1. /\ task[r] = "decide" /\ UNCHANGED <<pending, outcome, lst, cmds>>
        /\ task' = [task EXCEPT ![r] = "done"]
        /\ \A q \in Requests \ {r} : op'[q] = op[q]
    BY <1>0, <1>16 DEF Decide, listVars
  <2>2. r \notin pending /\ ~Queued(<<"resolve", r>>) /\ ~Resolving(r)
    BY <2>1 DEF TasksAgree, Resolving
  <2>3. task'[r] = "done" /\ \A q \in Requests \ {r} : task'[q] = task[q]
    BY <1>0, <2>1
  <2> QED
    BY <2>1, <2>2, <2>3, TasksMove
<1> QED
  BY <1>2, <1>3, <1>4, <1>5, <1>6, <1>7, <1>8, <1>9, <1>10, <1>11, <1>12, <1>13, <1>14, <1>15,
     <1>16 DEF Next, Session, Listener, Removal, Task

-----------------------------------------------------------------------------
(* A task that has begun to resolve does not go back. *)
LEMMA TaskForward ==
    ASSUME Types, EventsAgree, TasksAgree, Next, NEW r \in Requests,
           task[r] \in {"resolve", "decide", "done"}
    PROVE  task'[r] \in {"resolve", "decide", "done"}
<1>0. task \in [Requests -> {"none", "event", "await", "resolve", "decide", "done"}]
  BY DEF Types
<1>1. CASE Ask
  BY <1>0, <1>1 DEF Ask
<1>2. CASE SpawnTask \/ CompleteResolve
  BY <1>0, <1>2 DEF SpawnTask, CompleteResolve, EventsAgree
<1>3. ASSUME NEW q \in Requests, Task(q) PROVE task'[r] \in {"resolve", "decide", "done"}
  BY <1>0, <1>3 DEF Task, Resolve, Settled, CompletionLost, Decide
<1>4. ASSUME NEW c \in Conns, Client(c) PROVE task' = task
  BY <1>4 DEF Client, Answer, ResumeThread, Attach, Unsubscribe, Disconnect, Connect, callVars
<1>5. CASE StartTurn \/ EndTurn \/ UnloadCheck \/ UnloadFinishes \/ Removal
  BY <1>5 DEF StartTurn, EndTurn, UnloadCheck, UnloadFinishes, Removal, RemoveThread,
     RemovalShutdown, TeardownCancels, TeardownRemoves, callVars
<1>6. CASE Listener /\ ~SpawnTask /\ ~CompleteResolve
  BY <1>6 DEF Listener, AskClients, SendRequest, TurnTransition, ResolveCommand, SendResolved,
     ResumeCommand, TakeSnapshot, Replay, ListenerCancelled, ListenerEnds, UnloadCommit,
     UnloadRemoves, callVars
<1> QED
  BY <1>1, <1>2, <1>3, <1>4, <1>5, <1>6 DEF Next, Session

(* The steps that change what clients show, or begin a replay, and what the  *)
(* other steps leave alone.                                                  *)
ViewStep ==
    \/ SendRequest \/ SendResolved \/ ResumeCommand \/ TakeSnapshot \/ Replay
    \/ \E c \in Conns : Connect(c)

LEMMA ViewFrame ==
    ASSUME Types, EventsAgree, Next, ~ViewStep
    PROVE  /\ UNCHANGED <<shown, closed>> /\ joined' \subseteq joined
           /\ lst' = lst \/ lst'.pc \notin {"resumed", "replaying"}
           /\ ~AskClients => /\ pending' \subseteq pending
                             /\ lst' = lst \/ \A c : Missing(c) = {}
<1>0. \A p \in Places : At(p).pc = p
  BY AtPlace
<1>1. CASE Session \/ UnloadFinishes \/ Removal
  <2>1. /\ UNCHANGED <<shown, closed, lst>> /\ joined' \subseteq joined /\ pending' \subseteq pending
    BY <1>1 DEF Session, StartTurn, Ask, EndTurn, UnloadFinishes, Removal, RemoveThread,
       RemovalShutdown, TeardownCancels, TeardownRemoves, RemoveThreadState, CancelRequests,
       Deliver, connVars, callVars, viewVars, listVars
  <2> QED
    BY <2>1
<1>2. CASE AskClients
  BY <1>2, AskMoves DEF AskClients, connVars, viewVars
<1>3. CASE ResolveCommand
  <2>1. lst.pc = "select" /\ UNCHANGED <<shown, closed, joined, pending>>
    BY <1>3 DEF ResolveCommand, Selecting, connVars, viewVars, callVars
  <2>2. lst'.pc = "resolving"
    BY <1>3, CommandMoves
  <2> QED
    BY <2>1, <2>2 DEF Missing
<1>4. CASE SpawnTask \/ CompleteResolve \/ ListenerCancelled \/ ListenerEnds
  <2>1. /\ lst.pc \in {"sending", "resolving", "select"} /\ (lst.pc = "sending" => lst.to = {})
        /\ UNCHANGED <<shown, closed, joined, pending>>
    BY <1>4 DEF SpawnTask, CompleteResolve, ListenerCancelled, ListenerEnds, Selecting, connVars,
       viewVars, callVars
  <2>2. lst'.pc \in {"select", "gone"}
    BY <1>0, <1>4 DEF SpawnTask, CompleteResolve, ListenerCancelled, ListenerEnds, Gone, Places
  <2> QED
    BY <2>1, <2>2 DEF Missing
<1>5. CASE UnloadCheck \/ UnloadCommit \/ UnloadRemoves
  <2>1. /\ lst.pc \in {"select", "unload", "unloading"}
        /\ UNCHANGED <<shown, closed>> /\ joined' \subseteq joined /\ pending' \subseteq pending
    BY <1>5 DEF UnloadCheck, UnloadCommit, UnloadRemoves, Selecting, RemoveThreadState,
       CancelRequests, Deliver, connVars, viewVars, callVars
  <2>2. lst'.pc \in {"select", "unload", "unloading", "gone"}
    BY <1>0, <1>5 DEF UnloadCheck, UnloadCommit, UnloadRemoves, Gone, Places
  <2> QED
    BY <2>1, <2>2 DEF Missing
<1>6. CASE TurnTransition
  BY <1>6 DEF TurnTransition, CancelRequests, Deliver, connVars, viewVars, listVars
<1>7. ASSUME NEW c \in Conns, Client(c), ~Connect(c)
      PROVE  /\ UNCHANGED <<shown, closed>> /\ joined' \subseteq joined /\ pending' \subseteq pending
             /\ lst' = lst \/ (lst.pc = "gone" /\ lst'.pc = "select")
  <2>1. CASE \E what \in {"answer", "error"} : Answer(c, what)
    BY <2>1 DEF Answer, Deliver, connVars, viewVars, listVars
  <2>2. CASE ResumeThread(c) \/ Attach(c)
    <3>1. lst' = lst \/ (lst.pc = "gone" /\ lst' = At("select"))
      BY <2>2 DEF ResumeThread, Attach, EnsureListener
    <3>2. At("select").pc = "select"
      BY <1>0 DEF Places
    <3> QED
      BY <2>2, <3>1, <3>2 DEF ResumeThread, Attach, connVars, viewVars, callVars
  <2>3. CASE Unsubscribe(c) \/ Disconnect(c)
    BY <2>3 DEF Unsubscribe, Disconnect, Teardown, CancelRequests, Deliver, RemoveThreadState,
       viewVars
  <2> QED
    BY <1>7, <2>1, <2>2, <2>3 DEF Client
<1>8. ASSUME NEW r \in Requests, Task(r) PROVE UNCHANGED <<shown, closed, joined, pending, lst>>
  BY <1>8 DEF Task, Resolve, CompletionLost, Decide, connVars, viewVars, listVars
<1>9. \A c : lst.pc = "gone" => Missing(c) = {}
  BY DEF Missing
<1> QED
  BY <1>1, <1>2, <1>3, <1>4, <1>5, <1>6, <1>7, <1>8, <1>9 DEF Next, Listener, ViewStep

LEMMA ClosedStep ==
    ASSUME Types, EventsAgree, TasksAgree, ClosedAgree, Next PROVE ClosedAgree'
<1>0. /\ closed \in [Conns -> SUBSET Requests]
      /\ lst.pc \in {"sending", "resolving"} => lst.req \in Requests
  BY DEF Types
<1>1. \A r \in Requests : task[r] \in {"resolve", "decide", "done"}
                            => task'[r] \in {"resolve", "decide", "done"}
  BY TaskForward
<1>2. CASE ~ViewStep
  <2>1. closed' = closed /\ (lst' = lst \/ lst'.pc # "replaying")
    BY <1>2, ViewFrame
  <2> QED
    BY <1>0, <1>1, <2>1 DEF ClosedAgree
<1>3. CASE SendRequest
  <2>1. closed' = closed /\ lst'.pc = lst.pc /\ lst.pc = "sending"
    BY <1>3, SendMoves DEF SendRequest
  <2> QED
    BY <1>0, <1>1, <2>1 DEF ClosedAgree
<1>4. CASE SendResolved
  <2>1. PICK c \in Conns : closed' = [closed EXCEPT ![c] = @ \cup {lst.req}] /\ lst'.pc = lst.pc
    BY <1>4, SendMoves
  <2>2. lst.pc = "resolving" /\ task[lst.req] = "resolve" /\ lst.req \in Requests
    BY <1>0, <1>4 DEF SendResolved, TasksAgree
  <2>3. \A d \in Conns : closed'[d] \subseteq closed[d] \cup {lst.req}
    BY <1>0, <2>1
  <2> QED
    BY <1>0, <1>1, <2>1, <2>2, <2>3 DEF ClosedAgree
<1>5. CASE ResumeCommand
  <2>1. closed' = closed /\ (lst' = lst \/ lst'.pc = "resumed")
    BY <1>5, CommandMoves DEF viewVars
  <2> QED
    BY <1>0, <1>1, <2>1 DEF ClosedAgree
<1>6. CASE TakeSnapshot
  <2>1. /\ closed' = closed /\ lst'.conn = lst.conn /\ lst.conn \in Conns
        /\ \A i \in DOMAIN lst'.replay : lst'.replay[i] \in pending
    BY <1>6, SnapshotMoves DEF TakeSnapshot, viewVars, Types
  <2>2. \A r \in pending, c \in Conns : r \notin closed[c]
    BY DEF TasksAgree, ClosedAgree
  <2> QED
    BY <1>0, <1>1, <2>1, <2>2 DEF ClosedAgree
<1>7. CASE Replay
  <2>1. /\ closed' = closed /\ lst.pc = "replaying"
        /\ \/ lst'.pc = "select"
           \/ /\ lst'.conn = lst.conn
              /\ \A i \in DOMAIN lst'.replay :
                    i + 1 \in DOMAIN lst.replay /\ lst'.replay[i] = lst.replay[i + 1]
    BY <1>7, ReplayMoves DEF Replay
  <2> QED
    BY <1>0, <1>1, <2>1 DEF ClosedAgree
<1>8. ASSUME NEW c \in Conns, Connect(c) PROVE ClosedAgree'
  <2>1. closed' = [closed EXCEPT ![c] = {}] /\ lst' = lst
    BY <1>8 DEF Connect, listVars
  <2>2. \A d \in Conns : closed'[d] \subseteq closed[d]
    BY <1>0, <2>1
  <2>3. lst.pc = "replaying" => lst.conn \in Conns
    BY DEF Types
  <2> QED
    BY <1>0, <1>1, <2>1, <2>2, <2>3 DEF ClosedAgree
<1> QED
  BY <1>2, <1>3, <1>4, <1>5, <1>6, <1>7, <1>8 DEF ViewStep

LEMMA ResolvedStep ==
    ASSUME Types, EventsAgree, TasksAgree, ClosedAgree, ResolvedIsFinal, Next PROVE ResolvedIsFinal'
<1>0. /\ closed \in [Conns -> SUBSET Requests] /\ shown \in [Conns -> SUBSET Requests]
      /\ lst.pc \in {"sending", "resolving"} => lst.req \in Requests
  BY DEF Types
<1>1. CASE ~ViewStep
  BY <1>1, ViewFrame DEF ResolvedIsFinal
<1>2. CASE SendRequest
  <2>1. PICK c \in Conns : closed' = closed /\ shown' = [shown EXCEPT ![c] = @ \cup {lst.req}]
    BY <1>2, SendMoves
  <2>2. lst.req \in Requests /\ task[lst.req] = "event"
    BY <1>0, <1>2 DEF SendRequest, EventsAgree
  <2>3. lst.req \notin closed[c]
    BY <2>2 DEF ClosedAgree
  <2> QED
    BY <1>0, <2>1, <2>3 DEF ResolvedIsFinal
<1>3. CASE SendResolved
  <2>1. PICK c \in Conns : /\ shown' = [shown EXCEPT ![c] = @ \ {lst.req}]
                           /\ closed' = [closed EXCEPT ![c] = @ \cup {lst.req}]
    BY <1>3, SendMoves
  <2> QED
    BY <1>0, <2>1 DEF ResolvedIsFinal
<1>4. CASE ResumeCommand
  <2>1. /\ closed' = closed
        /\ shown' = shown \/ \E c \in Conns : shown' = [shown EXCEPT ![c] = {}]
    BY <1>4, CommandMoves DEF viewVars
  <2> QED
    BY <1>0, <2>1 DEF ResolvedIsFinal
<1>5. CASE TakeSnapshot
  BY <1>5 DEF TakeSnapshot, viewVars, ResolvedIsFinal
<1>6. CASE Replay
  <2>1. /\ closed' = closed /\ lst.conn \in Conns
        /\ \/ shown' = shown
           \/ /\ 1 \in DOMAIN lst.replay
              /\ shown' = [shown EXCEPT ![lst.conn] = @ \cup {lst.replay[1]}]
    BY <1>6, ReplayMoves DEF Replay
  <2>2. 1 \in DOMAIN lst.replay => lst.replay[1] \notin closed[lst.conn]
    BY <1>6 DEF ClosedAgree, Replay
  <2> QED
    BY <1>0, <2>1, <2>2 DEF ResolvedIsFinal
<1>7. ASSUME NEW c \in Conns, Connect(c) PROVE ResolvedIsFinal'
  BY <1>0, <1>7 DEF Connect, ResolvedIsFinal
<1> QED
  BY <1>1, <1>2, <1>3, <1>4, <1>5, <1>6, <1>7 DEF ViewStep

LEMMA ShownStep ==
    ASSUME Types, SubscribersAreLive, EventsAgree, TasksAgree, ShownOrMissing, Next
    PROVE  ShownOrMissing'
<1>0. /\ shown \in [Conns -> SUBSET Requests] /\ joined \subseteq subs /\ subs \subseteq Conns
      /\ pending \subseteq Requests
  BY DEF Types
<1>1. CASE AskClients
  <2>1. /\ UNCHANGED <<shown, joined>> /\ lst.pc = "select"
        /\ pending' = pending \cup {Head(events).req}
    BY <1>1 DEF AskClients, Selecting, connVars, viewVars
  <2>2. lst'.pc = "sending" /\ lst'.req = Head(events).req /\ lst'.to = subs
    BY <1>1, AskMoves
  <2> QED
    BY <1>0, <2>1, <2>2 DEF ShownOrMissing, Missing
<1>2. CASE ~ViewStep /\ ~AskClients
  <2>1. /\ shown' = shown /\ joined' \subseteq joined /\ pending' \subseteq pending
        /\ lst' = lst \/ \A c : Missing(c) = {}
    BY <1>2, ViewFrame
  <2> QED
    BY <2>1 DEF ShownOrMissing, Missing
<1>3. CASE SendRequest
  <2>1. PICK c \in lst.to : /\ c \in Conns /\ shown' = [shown EXCEPT ![c] = @ \cup {lst.req}]
                            /\ lst'.pc = lst.pc /\ lst'.req = lst.req /\ lst'.to = lst.to \ {c}
    BY <1>3, SendMoves
  <2>2. lst.pc = "sending" /\ UNCHANGED <<joined, pending>>
    BY <1>3 DEF SendRequest, connVars, callVars
  <2>3. shown'[c] = shown[c] \cup {lst.req} /\ \A d \in Conns \ {c} : shown'[d] = shown[d]
    BY <1>0, <2>1
  <2> QED
    BY <1>0, <2>1, <2>2, <2>3 DEF ShownOrMissing, Missing
<1>4. CASE SendResolved
  <2>1. PICK c \in lst.to : /\ c \in Conns /\ shown' = [shown EXCEPT ![c] = @ \ {lst.req}]
                            /\ lst'.pc = lst.pc
    BY <1>4, SendMoves
  <2>2. lst.pc = "resolving" /\ UNCHANGED <<joined, pending>>
    BY <1>4 DEF SendResolved, connVars, callVars
  <2>3. shown'[c] = shown[c] \ {lst.req} /\ \A d \in Conns \ {c} : shown'[d] = shown[d]
    BY <1>0, <2>1
  <2>4. lst.req \notin pending
    BY <2>2 DEF TasksAgree
  <2> QED
    BY <1>0, <2>1, <2>2, <2>3, <2>4 DEF ShownOrMissing, Missing
<1>5. CASE ResumeCommand
  <2>1. lst.pc = "select" /\ UNCHANGED pending
    BY <1>5 DEF ResumeCommand, Selecting, callVars
  <2>2. PICK c \in Conns :
           \/ UNCHANGED <<connVars, lst, viewVars>>
           \/ /\ joined' = joined \cup {c} /\ shown' = [shown EXCEPT ![c] = {}]
              /\ lst'.pc = "resumed" /\ lst'.conn = c
    BY <1>5, CommandMoves
  <2>3. CASE UNCHANGED <<connVars, lst, viewVars>>
    BY <2>1, <2>3 DEF ShownOrMissing, Missing, connVars, viewVars
  <2>4. CASE /\ joined' = joined \cup {c} /\ shown' = [shown EXCEPT ![c] = {}]
             /\ lst'.pc = "resumed" /\ lst'.conn = c
    <3>1. \A d \in Conns \ {c} : shown'[d] = shown[d]
      BY <1>0, <2>4
    <3> QED
      BY <1>0, <2>1, <2>4, <3>1 DEF ShownOrMissing, Missing
  <2> QED
    BY <2>2, <2>3, <2>4
<1>6. CASE TakeSnapshot
  <2>1. /\ lst'.pc = "replaying" /\ lst'.conn = lst.conn
        /\ {lst'.replay[i] : i \in DOMAIN lst'.replay} = pending
    BY <1>6, SnapshotMoves
  <2>2. lst.pc = "resumed" /\ UNCHANGED <<joined, pending, shown>>
    BY <1>6 DEF TakeSnapshot, connVars, callVars, viewVars
  <2> QED
    BY <2>1, <2>2 DEF ShownOrMissing, Missing
<1>7. CASE Replay
  <2>1. lst.pc = "replaying" /\ UNCHANGED <<joined, pending>> /\ lst.conn \in Conns
    BY <1>7, ReplayMoves DEF Replay, connVars, callVars
  <2>2. CASE lst'.pc = "select" /\ shown' = shown /\ DOMAIN lst.replay = {}
    BY <2>1, <2>2 DEF ShownOrMissing, Missing
  <2>3. CASE /\ lst'.pc = "replaying" /\ lst'.conn = lst.conn
             /\ shown' = [shown EXCEPT ![lst.conn] = @ \cup {lst.replay[1]}]
             /\ \A i \in DOMAIN lst.replay : i # 1 =>
                   \E j \in DOMAIN lst'.replay : lst'.replay[j] = lst.replay[i]
    <3>1. /\ shown'[lst.conn] = shown[lst.conn] \cup {lst.replay[1]}
          /\ \A d \in Conns \ {lst.conn} : shown'[d] = shown[d]
      BY <1>0, <2>1, <2>3
    <3>2. {lst.replay[i] : i \in DOMAIN lst.replay}
             \subseteq {lst.replay[1]} \cup {lst'.replay[j] : j \in DOMAIN lst'.replay}
      BY <2>3
    <3> QED
      BY <1>0, <2>1, <2>3, <3>1, <3>2 DEF ShownOrMissing, Missing
  <2> QED
    BY <1>7, <2>2, <2>3, ReplayMoves
<1>8. ASSUME NEW c \in Conns, Connect(c) PROVE ShownOrMissing'
  <2>1. /\ c \notin joined /\ UNCHANGED <<joined, pending, lst>>
        /\ shown' = [shown EXCEPT ![c] = {}]
    BY <1>0, <1>8 DEF Connect, callVars, listVars, SubscribersAreLive
  <2>2. \A d \in joined : shown'[d] = shown[d]
    BY <1>0, <2>1
  <2> QED
    BY <2>1, <2>2 DEF ShownOrMissing, Missing
<1> QED
  BY <1>1, <1>2, <1>3, <1>4, <1>5, <1>6, <1>7, <1>8 DEF ViewStep

-----------------------------------------------------------------------------
(* A thread that was unloaded stays so; until then nothing stops its core   *)
(* or cancels its listener.                                                 *)
LEMMA LoadedBefore ==
    ASSUME Life, Next, loaded'
    PROVE  /\ loaded /\ removal = "none" /\ core # "stopped" /\ ~cancelled
           /\ removal' = "none" /\ core' # "stopped" /\ ~cancelled'
           /\ ~Removal /\ ~ListenerCancelled /\ ~ListenerEnds
<1>1. loaded
  BY DEF Next, Session, StartTurn, Ask, EndTurn, Listener, AskClients, SendRequest, SpawnTask,
     TurnTransition, ResolveCommand, SendResolved, CompleteResolve, ResumeCommand, TakeSnapshot,
     Replay, ListenerCancelled, ListenerEnds, UnloadCommit, UnloadRemoves, UnloadCheck,
     UnloadFinishes, Removal, RemoveThread, RemovalShutdown, TeardownCancels, TeardownRemoves,
     Client, Answer, ResumeThread, Attach, Unsubscribe, Disconnect, Connect, Task, Resolve,
     CompletionLost, Decide, lifeVars
<1>2. removal = "none" /\ core # "stopped" /\ ~cancelled
  BY <1>1 DEF Life
<1>3. ~Removal /\ ~ListenerCancelled /\ ~ListenerEnds
  BY <1>2 DEF Removal, RemoveThread, RemovalShutdown, TeardownCancels, TeardownRemoves,
     ListenerCancelled, ListenerEnds
<1>4. CASE Session
  BY <1>1, <1>2, <1>3, <1>4 DEF Session, StartTurn, Ask, EndTurn, listVars, lifeVars
<1>5. CASE Listener
  BY <1>1, <1>2, <1>3, <1>5 DEF Listener, AskClients, SendRequest, SpawnTask, TurnTransition,
     ResolveCommand, SendResolved, CompleteResolve, ResumeCommand, TakeSnapshot, Replay,
     UnloadCommit, UnloadRemoves, Gone, listVars, coreVars, lifeVars
<1>6. CASE UnloadCheck \/ UnloadFinishes
  BY <1>1, <1>2, <1>3, <1>6 DEF UnloadCheck, UnloadFinishes, listVars, coreVars, lifeVars
<1>7. ASSUME NEW c \in Conns, Client(c) PROVE UNCHANGED <<removal, core, cancelled>>
  <2>1. CASE \E what \in {"answer", "error"} : Answer(c, what)
    BY <1>2, <2>1 DEF Answer, listVars, coreVars, lifeVars
  <2>2. CASE ResumeThread(c) \/ Attach(c) \/ Connect(c)
    BY <1>2, <2>2 DEF ResumeThread, Attach, Connect, listVars, coreVars, lifeVars
  <2>3. CASE Unsubscribe(c) \/ Disconnect(c)
    BY <1>1, <1>2, <2>3 DEF Unsubscribe, Disconnect, coreVars
  <2> QED
    BY <1>7, <2>1, <2>2, <2>3 DEF Client
<1>8. ASSUME NEW r \in Requests, Task(r) PROVE UNCHANGED <<removal, core, cancelled>>
  BY <1>2, <1>8 DEF Task, Resolve, CompletionLost, Decide, listVars, coreVars, lifeVars
<1> QED
  BY <1>1, <1>2, <1>3, <1>4, <1>5, <1>6, <1>7, <1>8 DEF Next

LEMMA LifeStep ==
    ASSUME Types, EventsAgree, Life, Next PROVE Life'
<1>1. SUFFICES ASSUME loaded'
               PROVE  (tx' <=> lst'.pc # "gone") /\ (lst'.pc = "gone" => joined' = {})
  BY LoadedBefore DEF Life
<1>0. /\ loaded /\ ~Removal /\ ~ListenerCancelled /\ ~ListenerEnds
      /\ tx <=> lst.pc # "gone"
      /\ lst.pc = "gone" => joined = {}
      /\ \A p \in Places : At(p).pc = p
  BY <1>1, LoadedBefore, AtPlace DEF Life
<1>2. ASSUME tx' = tx, lst'.pc = "gone" <=> lst.pc = "gone", joined' \subseteq joined
      PROVE  (tx' <=> lst'.pc # "gone") /\ (lst'.pc = "gone" => joined' = {})
  BY <1>0, <1>2
<1>3. CASE Session \/ UnloadFinishes
  BY <1>2, <1>3 DEF Session, StartTurn, Ask, EndTurn, UnloadFinishes, connVars, listVars
<1>4. CASE AskClients \/ SendRequest \/ SendResolved \/ ResolveCommand \/ TakeSnapshot \/ Replay
  <2>1. UNCHANGED <<tx, joined>> /\ lst.pc # "gone"
    BY <1>4 DEF AskClients, SendRequest, SendResolved, ResolveCommand, TakeSnapshot, Replay,
       Selecting, connVars
  <2>2. lst'.pc # "gone"
    BY <1>4, <2>1, AskMoves, SendMoves, CommandMoves, SnapshotMoves, ReplayMoves
  <2> QED
    BY <1>2, <2>1, <2>2
<1>5. CASE ResumeCommand
  <2>1. tx' = tx /\ lst.pc = "select"
    BY <1>5 DEF ResumeCommand, Selecting
  <2>2. lst' = lst \/ lst'.pc = "resumed"
    BY <1>5, CommandMoves
  <2> QED
    BY <1>0, <2>1, <2>2
<1>6. CASE SpawnTask \/ CompleteResolve \/ TurnTransition \/ UnloadCheck \/ UnloadCommit
  <2>1. /\ UNCHANGED <<tx, joined>> /\ lst.pc # "gone" /\ lst'.pc # "gone"
    BY <1>0, <1>6 DEF SpawnTask, CompleteResolve, TurnTransition, UnloadCheck, UnloadCommit,
       Selecting, connVars, listVars, Places
  <2> QED
    BY <1>2, <2>1
<1>7. CASE UnloadRemoves
  BY <1>0, <1>7 DEF UnloadRemoves, RemoveThreadState, Gone, Places
<1>8. ASSUME NEW c \in Conns, Client(c)
      PROVE  (tx' <=> lst'.pc # "gone") /\ (lst'.pc = "gone" => joined' = {})
  <2>1. CASE ResumeThread(c) \/ Attach(c)
    <3>1. joined' = joined /\ EnsureListener
      BY <2>1 DEF ResumeThread, Attach, connVars
    <3> QED
      BY <1>0, <3>1 DEF EnsureListener, Places
  <2>2. CASE ~ResumeThread(c) /\ ~Attach(c)
    <3>1. UNCHANGED <<tx, lst>> /\ joined' \subseteq joined
      BY <1>0, <1>8, <2>2 DEF Client, Answer, Unsubscribe, Disconnect, Connect, connVars, listVars
    <3> QED
      BY <1>2, <3>1
  <2> QED
    BY <2>1, <2>2
<1>9. ASSUME NEW r \in Requests, Task(r) PROVE UNCHANGED <<tx, lst, joined>>
  BY <1>9 DEF Task, Resolve, CompletionLost, Decide, listVars, connVars
<1> QED
  BY <1>0, <1>2, <1>3, <1>4, <1>5, <1>6, <1>7, <1>8, <1>9 DEF Next, Listener

(* The steps that show nothing new and take back no command of a request    *)
(* that is shown.                                                           *)
LEMMA OpenFrame ==
    ASSUME Types, ShownIsOpen, loaded, joined' \subseteq joined,
           \A c \in joined' : shown'[c] \subseteq shown[c],
           \A r \in Requests : Open(r) => Open(r)',
           \/ lst' = lst
           \/ lst'.pc # "replaying" /\ (lst.pc # "resolving" \/ lst.to = {})
    PROVE  ShownIsOpen'
<1>0. /\ joined \subseteq Conns /\ shown \in [Conns -> SUBSET Requests]
      /\ lst.replay \in Seq(Requests)
  BY DEF Types, Lst
<1>1. ASSUME NEW c \in joined', NEW r \in shown'[c]
      PROVE  Open(r)' \/ (Resolving(r)' /\ c \in lst'.to)
  <2>1. r \in Requests /\ (Open(r) \/ (Resolving(r) /\ c \in lst.to))
    BY <1>0, <1>1 DEF ShownIsOpen
  <2>2. Resolving(r) /\ c \in lst.to => lst' = lst
    BY DEF Resolving
  <2> QED
    BY <2>1, <2>2 DEF Resolving
<1>2. ASSUME lst'.pc = "replaying", NEW i \in DOMAIN lst'.replay, NEW r, r = lst'.replay[i]
      PROVE  Open(r)'
  <2>1. lst' = lst /\ r \in Requests /\ Open(r)
    BY <1>0, <1>2 DEF ShownIsOpen
  <2> QED
    BY <2>1
<1>3. lst'.pc = "replaying" => \A i \in DOMAIN lst'.replay : Open(lst.replay[i])'
  BY <1>2 DEF Open, Queued
<1> QED
  BY <1>1, <1>3 DEF ShownIsOpen

LEMMA OpenStep ==
    ASSUME Types, SubscribersAreLive, EventsAgree, TasksAgree, Life, ShownIsOpen, Next
    PROVE  ShownIsOpen'
<1>1. SUFFICES ASSUME loaded' PROVE ShownIsOpen'
  BY DEF ShownIsOpen
<1>0. /\ loaded /\ ~Removal /\ ~ListenerCancelled /\ ~ListenerEnds
      /\ \A p \in Places : At(p).pc = p
      /\ joined \subseteq subs /\ subs \subseteq Conns /\ shown \in [Conns -> SUBSET Requests]
      /\ task \in [Requests -> {"none", "event", "await", "resolve", "decide", "done"}]
      /\ cmds \in Seq(Resumes \cup Resolves) /\ pending \subseteq Requests
      /\ lst.pc \in {"sending", "resolving"} => lst.req \in Requests
  BY <1>1, LoadedBefore, AtPlace DEF Types
<1>2. ASSUME task' = task, cmds' = cmds PROVE \A r \in Requests : Open(r) => Open(r)'
  BY <1>2 DEF Open, Queued
<1>3. ASSUME NEW r \in Requests, cmds' = cmds, ~Open(r) \/ task'[r] \in {"event", "await"},
             \A q \in Requests \ {r} : task'[q] = task[q]
      PROVE  \A q \in Requests : Open(q) => Open(q)'
  BY <1>3 DEF Open, Queued
<1>4. CASE StartTurn \/ EndTurn \/ AskClients \/ TurnTransition \/ UnloadFinishes
              \/ UnloadCheck \/ UnloadCommit
  <2>1. UNCHANGED <<joined, shown, task, cmds>>
    BY <1>4 DEF StartTurn, EndTurn, AskClients, TurnTransition, UnloadFinishes, UnloadCheck,
       UnloadCommit, connVars, callVars, viewVars, listVars
  <2>2. lst' = lst \/ (lst.pc \in {"select", "unload"} /\ lst'.pc # "replaying")
    <3>1. CASE AskClients
      BY <3>1, AskMoves DEF AskClients, Selecting
    <3>2. CASE ~AskClients
      BY <1>0, <1>4, <3>2 DEF StartTurn, EndTurn, TurnTransition, UnloadFinishes, UnloadCheck,
         UnloadCommit, Selecting, listVars, Places
    <3> QED
      BY <3>1, <3>2
  <2> QED
    BY <1>0, <1>2, <2>1, <2>2, OpenFrame
<1>5. CASE Ask
  <2>1. PICK r \in Requests : task' = [task EXCEPT ![r] = "event"]
    BY <1>5 DEF Ask
  <2>2. UNCHANGED <<joined, shown, cmds, lst>>
    BY <1>5 DEF Ask, connVars, viewVars, listVars
  <2>3. task'[r] = "event" /\ \A q \in Requests \ {r} : task'[q] = task[q]
    BY <1>0, <2>1
  <2>4. \A q \in Requests : Open(q) => Open(q)'
    BY <1>3, <2>2, <2>3
  <2> QED
    BY <1>0, <2>2, <2>4, OpenFrame
<1>6. CASE SpawnTask \/ CompleteResolve
  <2>1. /\ UNCHANGED <<joined, shown, cmds>> /\ lst.req \in Requests /\ lst.to = {}
        /\ lst'.pc = "select"
        /\ \/ task' = [task EXCEPT ![lst.req] = "await"]
           \/ Resolving(lst.req) /\ task' = [task EXCEPT ![lst.req] = "decide"]
    BY <1>0, <1>6 DEF SpawnTask, CompleteResolve, connVars, viewVars, Resolving, Places
  <2>2. Resolving(lst.req) => ~Open(lst.req)
    BY <2>1 DEF Open, TasksAgree, Resolving
  <2>3. /\ ~Open(lst.req) \/ task'[lst.req] \in {"event", "await"}
        /\ \A q \in Requests \ {lst.req} : task'[q] = task[q]
    BY <1>0, <2>1, <2>2
  <2>4. \A q \in Requests : Open(q) => Open(q)'
    BY <1>3, <2>1, <2>3
  <2> QED
    BY <1>0, <2>1, <2>4, OpenFrame
<1>7. CASE ResolveCommand
  <2>1. UNCHANGED <<joined, shown, task>> /\ lst.pc = "select"
    BY <1>7 DEF ResolveCommand, Selecting, connVars, callVars, viewVars
  <2>2. PICK r \in Requests :
           /\ cmds[1] = <<"resolve", r>>
           /\ lst'.pc = "resolving" /\ lst'.req = r /\ lst'.to = subs
           /\ \A i \in DOMAIN cmds : i # 1 => \E j \in DOMAIN cmds' : cmds'[j] = cmds[i]
    BY <1>7, CommandMoves
  <2>3. ASSUME NEW q \in Requests, q # r, Open(q) PROVE Open(q)'
    <3>1. <<"resolve", q>> # cmds[1]
      BY <2>2, <2>3
    <3> QED
      BY <2>1, <2>2, <2>3, <3>1 DEF Open, Queued
  <2>4. ASSUME NEW c \in joined', NEW q \in shown'[c] PROVE Open(q)' \/ (Resolving(q)' /\ c \in lst'.to)
    <3>1. q \in Requests /\ c \in subs /\ Open(q)
      BY <1>0, <2>1, <2>4 DEF ShownIsOpen, Resolving
    <3> QED
      BY <2>2, <2>3, <3>1 DEF Resolving
  <2> QED
    BY <2>2, <2>4 DEF ShownIsOpen
<1>8. CASE SendRequest
  <2>1. PICK c \in Conns : /\ shown' = [shown EXCEPT ![c] = @ \cup {lst.req}] /\ lst'.pc = lst.pc
    BY <1>8, SendMoves
  <2>2. UNCHANGED <<joined, task, cmds>> /\ lst.pc = "sending" /\ task[lst.req] = "event"
    BY <1>8 DEF SendRequest, connVars, callVars, EventsAgree
  <2>3. \A d \in Conns : shown'[d] \subseteq shown[d] \cup {lst.req}
    BY <1>0, <2>1
  <2>4. lst.req \in Requests /\ \A q : q = lst.req => Open(q)'
    BY <1>0, <2>2 DEF Open
  <2>5. ASSUME NEW d \in joined', NEW q \in shown'[d] PROVE Open(q)'
    <3>1. q = lst.req \/ (q \in Requests /\ Open(q))
      BY <1>0, <2>2, <2>3, <2>5 DEF ShownIsOpen, Resolving
    <3> QED
      BY <1>2, <2>2, <2>4, <3>1 DEF Open
  <2> QED
    BY <2>1, <2>2, <2>5 DEF ShownIsOpen
<1>9. CASE SendResolved
  <2>1. PICK c \in Conns : /\ shown' = [shown EXCEPT ![c] = @ \ {lst.req}]
                           /\ lst'.pc = lst.pc /\ lst'.req = lst.req /\ lst'.to = lst.to \ {c}
    BY <1>9, SendMoves
  <2>2. UNCHANGED <<joined, task, cmds>> /\ lst.pc = "resolving"
    BY <1>9 DEF SendResolved, connVars, callVars
  <2>3. shown'[c] = shown[c] \ {lst.req} /\ \A d \in Conns \ {c} : shown'[d] = shown[d]
    BY <1>0, <2>1
  <2>5. ASSUME NEW d \in joined', NEW q \in shown'[d]
        PROVE  Open(q)' \/ (Resolving(q)' /\ d \in lst'.to)
    <3>1. q \in Requests /\ q \in shown[d] /\ (d = c => q # lst.req) /\ d \in joined
      BY <1>0, <2>2, <2>3, <2>5
    <3>2. Open(q) \/ (Resolving(q) /\ d \in lst.to /\ d # c)
      BY <1>0, <3>1 DEF ShownIsOpen, Resolving
    <3> QED
      BY <1>2, <2>1, <2>2, <3>1, <3>2 DEF Resolving
  <2> QED
    BY <2>1, <2>2, <2>5 DEF ShownIsOpen
<1>10. CASE ResumeCommand
  <2>1. UNCHANGED task /\ lst.pc = "select"
    BY <1>10 DEF ResumeCommand, Selecting, callVars
  <2>2. PICK c \in Conns :
           /\ cmds[1] \notin Resolves
           /\ \A i \in DOMAIN cmds : i # 1 => \E j \in DOMAIN cmds' : cmds'[j] = cmds[i]
           /\ \/ UNCHANGED <<connVars, lst, viewVars>>
              \/ /\ joined' = joined \cup {c} /\ shown' = [shown EXCEPT ![c] = {}]
                 /\ lst'.pc = "resumed"
    BY <1>10, CommandMoves
  <2>3. ASSUME NEW q \in Requests, Open(q) PROVE Open(q)'
    <3>1. <<"resolve", q>> # cmds[1]
      BY <2>2 DEF Resolves
    <3> QED
      BY <2>1, <2>2, <2>3, <3>1 DEF Open, Queued
  <2>4. CASE UNCHANGED <<connVars, lst, viewVars>>
    <3>1. UNCHANGED <<joined, shown, lst>>
      BY <2>4 DEF connVars, viewVars
    <3> QED
      BY <1>0, <2>3, <3>1, OpenFrame
  <2>5. CASE joined' = joined \cup {c} /\ shown' = [shown EXCEPT ![c] = {}] /\ lst'.pc = "resumed"
    <3>1. shown'[c] = {} /\ \A d \in Conns \ {c} : shown'[d] = shown[d]
      BY <1>0, <2>5
    <3>2. ASSUME NEW d \in joined', NEW q \in shown'[d] PROVE Open(q)'
      <4>1. d \in joined /\ q \in shown[d] /\ q \in Requests
        BY <1>0, <2>5, <3>1, <3>2
      <4>2. Open(q)
        BY <1>0, <2>1, <4>1 DEF ShownIsOpen, Resolving
      <4> QED
        BY <2>3, <4>1, <4>2
    <3> QED
      BY <2>5, <3>2 DEF ShownIsOpen
  <2> QED
    BY <2>2, <2>4, <2>5
<1>11. CASE TakeSnapshot
  <2>1. /\ lst'.pc = "replaying" /\ {lst'.replay[i] : i \in DOMAIN lst'.replay} = pending
    BY <1>11, SnapshotMoves
  <2>2. lst.pc = "resumed" /\ UNCHANGED <<joined, pending, shown, task, cmds>>
    BY <1>11 DEF TakeSnapshot, connVars, callVars, viewVars
  <2>3. \A q \in pending : Open(q)'
    BY <2>2 DEF TasksAgree, Open
  <2>4. ASSUME NEW c \in joined', NEW q \in shown'[c] PROVE Open(q)'
    <3>1. q \in Requests /\ Open(q)
      BY <1>0, <2>2, <2>4 DEF ShownIsOpen, Resolving
    <3> QED
      BY <1>2, <2>2, <3>1
  <2> QED
    BY <2>1, <2>3, <2>4 DEF ShownIsOpen
<1>12. CASE Replay
  <2>1. lst.pc = "replaying" /\ UNCHANGED <<joined, task, cmds>> /\ lst.conn \in Conns
    BY <1>12, ReplayMoves DEF Replay, connVars, callVars
  <2>2. /\ lst.replay \in Seq(Requests)
        /\ \A i \in DOMAIN lst.replay : lst.replay[i] \in Requests /\ Open(lst.replay[i])
    BY <1>0, <2>1 DEF ShownIsOpen, Types, Lst
  <2>3. \A q : (\E i \in DOMAIN lst.replay : q = lst.replay[i]) => Open(q)'
    BY <1>2, <2>1, <2>2
  <2>4. \/ lst'.pc = "select" /\ shown' = shown
        \/ /\ 1 \in DOMAIN lst.replay
           /\ shown' = [shown EXCEPT ![lst.conn] = @ \cup {lst.replay[1]}]
           /\ \A i \in DOMAIN lst'.replay :
                 i + 1 \in DOMAIN lst.replay /\ lst'.replay[i] = lst.replay[i + 1]
    BY <1>12, ReplayMoves
  <2>5. ASSUME NEW d \in joined', NEW q \in shown'[d] PROVE Open(q)'
    <3>1. (1 \in DOMAIN lst.replay /\ q = lst.replay[1]) \/ q \in shown[d]
      BY <1>0, <2>1, <2>4, <2>5
    <3>2. CASE q \in shown[d]
      <4>1. q \in Requests /\ Open(q)
        BY <1>0, <2>1, <2>5, <3>2 DEF ShownIsOpen, Resolving
      <4> QED
        BY <1>2, <2>1, <4>1
    <3> QED
      BY <2>3, <3>1, <3>2
  <2>6. lst'.pc = "replaying" => \A i \in DOMAIN lst'.replay : Open(lst.replay[i])'
    <3>1. ASSUME NEW i \in DOMAIN lst'.replay, NEW q, q = lst'.replay[i], lst'.pc = "replaying"
          PROVE  Open(q)'
      BY <2>3, <2>4, <3>1
    <3> QED
      BY <3>1 DEF Open, Queued
  <2> QED
    BY <2>5, <2>6 DEF ShownIsOpen
<1>13. CASE UnloadRemoves
  <2>1. joined' = {} /\ lst'.pc = "gone"
    BY <1>0, <1>13 DEF UnloadRemoves, RemoveThreadState, Gone, Places
  <2> QED
    BY <2>1 DEF ShownIsOpen
<1>14. ASSUME NEW c \in Conns, Client(c) PROVE ShownIsOpen'
  <2>1. CASE ResumeThread(c)
    <3>1. UNCHANGED <<joined, shown, task>> /\ cmds' = Append(cmds, <<"resume", c>>)
      BY <2>1 DEF ResumeThread, connVars, callVars, viewVars
    <3>2. <<"resume", c>> \in Resumes \cup Resolves
      BY DEF Resumes
    <3>3. \A i \in DOMAIN cmds : i \in DOMAIN cmds' /\ cmds'[i] = cmds[i]
      BY <1>0, <3>1, <3>2, AppendOf
    <3>4. \A q \in Requests : Open(q) => Open(q)'
      BY <3>1, <3>3 DEF Open, Queued
    <3>5. lst' = lst \/ (lst.pc = "gone" /\ lst' = At("select"))
      BY <2>1 DEF ResumeThread, EnsureListener
    <3>6. At("select").pc = "select"
      BY <1>0 DEF Places
    <3> QED
      BY <1>0, <3>1, <3>4, <3>5, <3>6, OpenFrame
  <2>2. CASE ~ResumeThread(c)
    <3>1. UNCHANGED <<task, cmds>> /\ joined' \subseteq joined
      BY <1>0, <1>14, <2>2 DEF Client, Answer, Attach, Unsubscribe, Disconnect, Connect, connVars,
         callVars, listVars
    <3>2. \A d \in joined : shown'[d] \subseteq shown[d]
      <4>1. CASE Connect(c)
        BY <1>0, <4>1 DEF Connect, SubscribersAreLive
      <4>2. CASE ~Connect(c)
        BY <1>14, <2>2, <4>2 DEF Client, Answer, Attach, Unsubscribe, Disconnect, viewVars
      <4> QED
        BY <4>1, <4>2
    <3>3. lst' = lst \/ (lst.pc = "gone" /\ lst'.pc = "select")
      <4>1. CASE Attach(c)
        BY <1>0, <4>1 DEF Attach, EnsureListener, Places
      <4>2. CASE ~Attach(c)
        BY <1>14, <2>2, <4>2 DEF Client, Answer, Unsubscribe, Disconnect, Connect, listVars
      <4> QED
        BY <4>1, <4>2
    <3>4. \A q \in Requests : Open(q) => Open(q)'
      BY <1>2, <3>1
    <3>5. \A d \in joined' : shown'[d] \subseteq shown[d]
      BY <3>1, <3>2
    <3> QED
      BY <1>0, <3>1, <3>3, <3>4, <3>5, OpenFrame
  <2> QED
    BY <2>1, <2>2
<1>15. ASSUME NEW r \in Requests, Resolve(r) PROVE ShownIsOpen'
  <2>1. UNCHANGED <<joined, shown, lst>>
    BY <1>15 DEF Resolve, connVars, viewVars
  <2>2. CASE tx
    <3>1. /\ cmds' = Append(cmds, <<"resolve", r>>) /\ task' = [task EXCEPT ![r] = "resolve"]
          /\ <<"resolve", r>> \in Resumes \cup Resolves
      BY <1>15, <2>2 DEF Resolve, Resolves
    <3>2. /\ \A i \in DOMAIN cmds : i \in DOMAIN cmds' /\ cmds'[i] = cmds[i]
          /\ Len(cmds) + 1 \in DOMAIN cmds' /\ cmds'[Len(cmds) + 1] = <<"resolve", r>>
      BY <1>0, <3>1, AppendOf
    <3>3. \A q \in Requests \ {r} : task'[q] = task[q]
      BY <1>0, <3>1
    <3>4. \A q \in Requests : Open(q) => Open(q)'
      BY <3>2, <3>3 DEF Open, Queued
    <3> QED
      BY <1>0, <2>1, <3>4, OpenFrame
  <2>3. CASE ~tx
    <3>1. joined' = {} /\ lst'.pc = "gone"
      BY <1>0, <2>1, <2>3 DEF Life
    <3> QED
      BY <3>1 DEF ShownIsOpen
  <2> QED
    BY <2>2, <2>3
<1>16. ASSUME NEW r \in Requests, CompletionLost(r) \/ Decide(r) PROVE ShownIsOpen'
  <2>1. UNCHANGED <<joined, shown, lst, cmds>>
    BY <1>16 DEF CompletionLost, Decide, connVars, viewVars, listVars
  <2>2. ~Open(r)
    BY <1>16 DEF CompletionLost, Decide, Open, Queued, TasksAgree
  <2>3. \A q \in Requests \ {r} : task'[q] = task[q]
    BY <1>0, <1>16 DEF CompletionLost, Decide
  <2>4. \A q \in Requests : Open(q) => Open(q)'
    BY <1>3, <2>1, <2>2, <2>3
  <2> QED
    BY <1>0, <2>1, <2>4, OpenFrame
<1> QED
  BY <1>0, <1>4, <1>5, <1>6, <1>7, <1>8, <1>9, <1>10, <1>11, <1>12, <1>13, <1>14, <1>15, <1>16
     DEF Next, Session, Listener, Task

-----------------------------------------------------------------------------
LEMMA InitIInv == ASSUME Init PROVE IInv
<1> USE BoundsAreNat, StarterIsConn DEF Init
<1>1. lst \in Lst /\ lst.pc = "select"
  BY AtPlace DEF Places
<1>2. Types
  BY <1>1 DEF Types
<1>3. SubscribersAreLive
  BY DEF SubscribersAreLive
<1>4. EventsAgree
  BY <1>1 DEF EventsAgree
<1>5. TasksAgree
  BY <1>1 DEF TasksAgree, Queued, Resolving
<1>6. ClosedAgree
  BY <1>1 DEF ClosedAgree
<1>7. ShownOrMissing
  BY DEF ShownOrMissing
<1>8. Life
  BY <1>1 DEF Life
<1>9. ShownIsOpen
  BY <1>1 DEF ShownIsOpen
<1>10. ResolvedIsFinal
  BY DEF ResolvedIsFinal
<1> QED
  BY <1>2, <1>3, <1>4, <1>5, <1>6, <1>7, <1>8, <1>9, <1>10 DEF IInv

LEMMA StepIInv == ASSUME IInv, [Next]_vars PROVE IInv'
<1>1. CASE Next
  <2>1. /\ Types /\ SubscribersAreLive /\ EventsAgree /\ TasksAgree /\ ClosedAgree
        /\ ShownOrMissing /\ Life /\ ShownIsOpen /\ ResolvedIsFinal
    BY DEF IInv
  <2>2. Types' /\ SubscribersAreLive' /\ EventsAgree' /\ TasksAgree'
    BY <1>1, <2>1, TypesStep, SubscribersStep, EventsStep, TasksStep
  <2>3. ClosedAgree' /\ ShownOrMissing' /\ Life' /\ ShownIsOpen' /\ ResolvedIsFinal'
    BY <1>1, <2>1, ClosedStep, ShownStep, LifeStep, OpenStep, ResolvedStep
  <2> QED
    BY <2>2, <2>3 DEF IInv
<1>2. CASE UNCHANGED vars
  <2>1. UNCHANGED <<live, subs, joined, pending, outcome, task, op, shown, closed>>
    BY <1>2 DEF vars, connVars, callVars, viewVars
  <2>2. UNCHANGED <<cmds, lst, tx, cancelled, events, core, turns, active, loaded, unloading, removal>>
    BY <1>2 DEF vars, listVars, coreVars, lifeVars
  <2>3. Types' /\ SubscribersAreLive' /\ EventsAgree' /\ TasksAgree' /\ ClosedAgree'
    BY <2>1, <2>2 DEF IInv, Types, SubscribersAreLive, EventsAgree, TasksAgree, ClosedAgree, Queued,
       Resolving
  <2>4. ShownOrMissing' /\ Life' /\ ShownIsOpen' /\ ResolvedIsFinal'
    BY <2>1, <2>2 DEF IInv, ShownOrMissing, Missing, Life, ShownIsOpen, Open, Queued, Resolving,
       ResolvedIsFinal
  <2> QED
    BY <2>3, <2>4 DEF IInv
<1> QED
  BY <1>1, <1>2

(* IInv is an invariant of the app-server's requests, for every number of   *)
(* connections, requests, turns and resumes.                                *)
THEOREM IInvHolds == Spec => []IInv
  BY InitIInv, StepIInv, PTL DEF Spec

(* Only open connections are subscribed to the thread, and a thread that is *)
(* being unloaded has no subscriber: a resume or an attach never falls into *)
(* the window of unload_thread_without_subscribers.                         *)
THEOREM SubscribersAreLiveHolds == Spec => []SubscribersAreLive
<1>1. IInv => SubscribersAreLive
  BY DEF IInv
<1> QED
  BY <1>1, IInvHolds, PTL

(* No client is shown a request after it was told that it is resolved:      *)
(* ClosedAgree keeps closed requests out of every replay and every send.    *)
THEOREM ResolvedIsFinalHolds == Spec => []ResolvedIsFinal
<1>1. IInv => ResolvedIsFinal
  BY DEF IInv
<1> QED
  BY <1>1, IInvHolds, PTL

(* Between two handlers of the listener every joined client shows all that  *)
(* is pending: what ShownOrMissing allows to be missing is then empty.      *)
THEOREM PendingIsShownHolds == Spec => []PendingIsShown
<1>1. IInv => PendingIsShown
  BY DEF IInv, ShownOrMissing, Missing, PendingIsShown
<1> QED
  BY <1>1, IInvHolds, PTL

(* While the thread is loaded, a decision reaches the session only after    *)
(* every joined client stopped showing the request: a decided request is    *)
(* done, and what a client shows is open or being resolved.                 *)
THEOREM DecidedIsClosedHolds == Spec => []DecidedIsClosed
<1>1. ASSUME IInv PROVE DecidedIsClosed
  <2>1. \A r \in Requests : op[r] # "none" => ~Open(r) /\ ~Resolving(r)
    BY <1>1 DEF IInv, TasksAgree, Open, Resolving
  <2> QED
    BY <1>1, <2>1 DEF IInv, ShownIsOpen, DecidedIsClosed
<1> QED
  BY <1>1, IInvHolds, PTL
=============================================================================
