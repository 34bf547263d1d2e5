--------------------------- MODULE ToolCallsProofs ---------------------------
(***************************************************************************)
(* The safety properties of ToolCalls, for every set of calls, whatever    *)
(* tools they are of, and every number of requests.                        *)
(***************************************************************************)
EXTENDS ToolCalls, SequenceTheorems, FiniteSetTheorems, WellFoundedInduction, TLAPS

Types ==
    /\ history \in Seq(Items) /\ phase \in Phases /\ request \in Nat
    /\ in_flight \in Seq(Calls) /\ madeIn \in [Calls -> Nat]
    /\ task \in [Calls -> TaskStates] /\ result \in [Calls -> Results]
    /\ reached \in [Calls -> BOOLEAN] /\ future \in [Calls -> Futures]
    /\ answer \in [Calls -> Answers]
    /\ told \in [Calls -> Seq({"start", "finish", "aborted"})]

Flying(c) == \E a \in DOMAIN in_flight : in_flight[a] = c
Is(i, kind, c) == history[i].item = kind /\ history[i].call = c

(* A call the model has not made has left no trace. *)
Untouched ==
    /\ phase # "idle" => request # 0
    /\ \A c \in Calls : madeIn[c] = 0 =>
          /\ task[c] = "none" /\ future[c] = "none" /\ answer[c] = "none" /\ told[c] = <<>>
          /\ ~Flying(c) /\ \A i \in DOMAIN history : history[i].call # c

(* The task is over, and the model has an output or the turn an error. *)
Settled(c) ==
    /\ Finished(c)
    /\ (\E i \in DOMAIN history : Is(i, "output", c)) \/ result[c] \in {"fatal", "panic"}

(* in_flight holds the calls of the running request that are not settled,  *)
(* each once and without an output; only their futures are being polled.   *)
FlightAgrees ==
    /\ \A a, b \in DOMAIN in_flight : in_flight[a] = in_flight[b] => a = b
    /\ phase = "idle" => \A c \in Calls : ~Flying(c)
    /\ \A c \in Calls :
         /\ madeIn[c] <= request
         /\ Flying(c) =>
              /\ Dispatched(c) /\ \A i \in DOMAIN history : ~Is(i, "output", c)
              /\ phase # "killed" => madeIn[c] = request /\ future[c] # "none"
         /\ future[c] \notin {"none", "resolved"} => Flying(c) /\ phase # "killed" /\ answer[c] = "none"
         /\ Dispatched(c) /\ madeIn[c] = request /\ phase # "killed" => Flying(c) \/ Settled(c)

(* A future that resolved has the answer of a task that is over. *)
ResultsAgree ==
    \A c \in Calls :
        /\ task[c] \in {"claim", "notify", "returning", "done"} => result[c] # "none"
        /\ future[c] \in {"tell", "resolved"} => Finished(c)
        /\ future[c] = "resolved" => answer[c] # "none"
        /\ answer[c] = "fatal" => Finished(c) /\ result[c] \in {"fatal", "panic"}

(* Whoever claimed terminal_outcome_reached is the only one to report. *)
Terminal(c) == \E i \in DOMAIN told[c] : told[c][i] # "start"
OutcomeAgrees ==
    \A c \in Waits :
        /\ future[c] \notin {"abort", "reap"}
        /\ Terminal(c) => reached[c] /\ task[c] # "notify" /\ future[c] \notin {"teardown", "tell"}
        /\ task[c] = "notify" => reached[c] /\ future[c] \notin {"teardown", "tell"}
        /\ future[c] \in {"teardown", "tell"} => reached[c]
        /\ \A i, j \in DOMAIN told[c] : told[c][i] # "start" /\ told[c][j] # "start" => i = j

(* The extensions hear of an abort exactly when the future resolves to it, *)
(* and the output says what the future resolved to.                        *)
ToldAgrees ==
    /\ \A c \in Calls : (\E i \in DOMAIN told[c] : told[c][i] = "aborted") <=> answer[c] = "aborted"
    /\ \A i \in DOMAIN history : history[i].item = "output" =>
          (history[i].body = "aborted" <=> answer[history[i].call] = "aborted")

(* Calls are in the history once; the futures are in their order, behind   *)
(* every dispatched call that has its output.                              *)
Before(c, d) == \A p, q \in DOMAIN history : Is(p, "call", c) /\ Is(q, "call", d) => p < q
OrderAgrees ==
    /\ \A a, b \in DOMAIN in_flight : a < b => Before(in_flight[a], in_flight[b])
    /\ \A c, d \in Calls : Dispatched(c) /\ Flying(d) =>
          \A i \in DOMAIN history : Is(i, "output", c) => Before(c, d)
    /\ \A c, d \in Calls : Dispatched(c) /\ Dispatched(d) =>
          \A i, j \in DOMAIN history :
              Is(i, "output", c) /\ Is(j, "output", d) /\ i < j => c # d /\ Before(c, d)

(* The inductive invariant. *)
IInv ==
    /\ Types /\ Untouched /\ FlightAgrees /\ ResultsAgree /\ OutcomeAgrees /\ ToldAgrees /\ OrderAgrees

-----------------------------------------------------------------------------
(* The sequence t is s with x behind it, at place e. *)
GrownBy(s, t, x, e) ==
    /\ e \in DOMAIN t /\ e \notin DOMAIN s /\ t[e] = x
    /\ \A i \in DOMAIN s : i \in DOMAIN t /\ t[i] = s[i] /\ i < e /\ ~(e < i)
    /\ \A i \in DOMAIN t : i = e \/ i \in DOMAIN s
    /\ ~(e < e)

LEMMA AppendGrows ==
    ASSUME NEW S, NEW s \in Seq(S), NEW x \in S
    PROVE  Append(s, x) \in Seq(S) /\ \E e : GrownBy(s, Append(s, x), x, e)
<1> DEFINE n == Len(s)  t == Append(s, x)
<1>1. /\ n \in Nat /\ DOMAIN s = 1 .. n /\ t \in Seq(S) /\ Len(t) = n + 1
      /\ (\A i \in 1 .. n : t[i] = s[i]) /\ t[n + 1] = x
  BY AppendProperties, LenProperties
<1>2. DOMAIN t = 1 .. (n + 1)
  BY <1>1, LenProperties
<1> HIDE DEF n, t
<1>3. GrownBy(s, t, x, n + 1)
  BY <1>1, <1>2 DEF GrownBy
<1> QED
  BY <1>1, <1>3 DEF t

LEMMA TailShifts ==
    ASSUME NEW S, NEW s \in Seq(S), s # <<>>
    PROVE  /\ Head(s) \in S /\ Tail(s) \in Seq(S) /\ 1 \in DOMAIN s /\ s[1] = Head(s)
           /\ \A a \in DOMAIN Tail(s) : a + 1 \in DOMAIN s /\ Tail(s)[a] = s[a + 1] /\ 1 < a + 1 /\ a + 1 # 1
           /\ \A a \in DOMAIN s : a = 1 \/ \E b \in DOMAIN Tail(s) : Tail(s)[b] = s[a]
           /\ \A a, b \in DOMAIN Tail(s) : (a < b => a + 1 < b + 1) /\ (a + 1 = b + 1 => a = b)
<1> DEFINE n == Len(s)  t == Tail(s)
<1>1. /\ n \in Nat \ {0} /\ DOMAIN s = 1 .. n /\ t \in Seq(S) /\ Len(t) = n - 1
      /\ (\A i \in 1 .. (n - 1) : t[i] = s[i + 1]) /\ Head(s) \in S /\ s[1] = Head(s)
  BY EmptySeq, HeadTailProperties, LenProperties
<1>2. DOMAIN t = 1 .. (n - 1)
  BY <1>1, LenProperties
<1> HIDE DEF n, t
<1>3. ASSUME NEW a \in DOMAIN s, a # 1 PROVE \E b \in DOMAIN t : t[b] = s[a]
  <2>1. a - 1 \in 1 .. (n - 1) /\ (a - 1) + 1 = a
    BY <1>1, <1>3
  <2> QED
    BY <1>1, <1>2, <2>1
<1>4. \A a \in DOMAIN t : a + 1 \in DOMAIN s /\ t[a] = s[a + 1] /\ 1 < a + 1 /\ a + 1 # 1
  BY <1>1, <1>2
<1>5. \A a, b \in DOMAIN t : (a < b => a + 1 < b + 1) /\ (a + 1 = b + 1 => a = b)
  BY <1>1, <1>2
<1>6. 1 \in DOMAIN s
  BY <1>1
<1> QED
  BY <1>1, <1>3, <1>4, <1>5, <1>6 DEF t

LEMMA ItemTypes ==
    ASSUME NEW c \in Calls, NEW b \in Answers
    PROVE  /\ Call(c) \in Items /\ Output(c, b) \in Items /\ Note(c) \in Items
           /\ Call(c).item = "call" /\ Call(c).call = c
           /\ Output(c, b).item = "output" /\ Output(c, b).call = c /\ Output(c, b).body = b
           /\ Note(c).item = "note" /\ Note(c).call = c
BY DEF Items, Call, Output, Note, Answers

-----------------------------------------------------------------------------
(* What a step of a call's task may do. *)
LateStates == {"claim", "notify", "returning", "done"}
TaskEffect(c) ==
    /\ UNCHANGED <<phase, request, in_flight, madeIn, future, answer>>
    /\ history' = history \/ history' = Append(history, Note(c))
    /\ task' \in [Calls -> TaskStates] /\ result' \in [Calls -> Results] /\ reached' \in [Calls -> BOOLEAN]
    /\ task[c] \notin {"none", "done", "cancelled"} /\ task'[c] # "none"
    /\ \A d \in Calls \ {c} :
          task'[d] = task[d] /\ result'[d] = result[d] /\ told'[d] = told[d] /\ reached'[d] = reached[d]
    /\ task'[c] \in LateStates => result'[c] # "none" \/ (task[c] \in LateStates /\ result'[c] = result[c])
    /\ reached[c] => reached'[c]
    /\ task'[c] = "notify" => ~reached[c] /\ reached'[c] /\ told' = told
    /\ \/ told' = told
       \/ task[c] # "notify" /\ told' = [told EXCEPT ![c] = Append(@, "start")]
       \/ task[c] = "notify" /\ told' = [told EXCEPT ![c] = Append(@, "finish")]

LEMMA TaskSteps ==
    ASSUME Types, NEW c \in Calls, TaskStep(c) \/ HandlerReturns(c) \/ HandlerPanics(c)
    PROVE  TaskEffect(c)
<1>0. /\ task \in [Calls -> TaskStates] /\ result \in [Calls -> Results] /\ reached \in [Calls -> BOOLEAN]
      /\ told \in [Calls -> Seq({"start", "finish", "aborted"})]
  BY DEF Types
<1> USE DEF turn, waiting, Goes, Returns, TaskStates, Results, LateStates
<1>1. CASE Acquire(c)
  BY <1>0, <1>1 DEF Acquire, TaskEffect
<1>2. CASE RejectCall(c)
  BY <1>0, <1>2 DEF RejectCall, TaskEffect
<1>3. CASE NotifyStart(c)
  BY <1>0, <1>3 DEF NotifyStart, TaskEffect
<1>4. CASE PreToolUse(c)
  BY <1>0, <1>4 DEF PreToolUse, TaskEffect
<1>5. CASE ClaimFinish(c)
  BY <1>0, <1>5 DEF ClaimFinish, TaskEffect
<1>6. CASE NotifyFinish(c)
  BY <1>0, <1>6 DEF NotifyFinish, TaskEffect
<1>7. CASE TaskReturns(c)
  BY <1>0, <1>7 DEF TaskReturns, TaskEffect
<1>8. CASE TaskCancelled(c)
  BY <1>0, <1>8 DEF TaskCancelled, TaskEffect, Holds, InDispatch
<1>9. CASE HandlerReturns(c)
  BY <1>0, <1>9 DEF HandlerReturns, TaskEffect
<1>10. CASE HandlerPanics(c)
  BY <1>0, <1>10 DEF HandlerPanics, TaskEffect
<1> QED
  BY <1>1, <1>2, <1>3, <1>4, <1>5, <1>6, <1>7, <1>8, <1>9, <1>10 DEF TaskStep

(* What a poll of a call's future may do. *)
Moved(c) ==
    /\ UNCHANGED <<answer, told>> /\ future'[c] # "resolved"
    /\ future'[c] = "tell" => Finished(c) /\ future[c] \in {"reap", "teardown"}
    /\ future'[c] = "teardown" => ~reached[c] /\ reached'[c]
    /\ future'[c] = "abort" => c \notin Waits
    /\ future'[c] = "reap" => future[c] = "abort"
Took(c) ==
    /\ UNCHANGED told /\ future'[c] = "resolved" /\ Finished(c)
    /\ answer' = [answer EXCEPT ![c] = IF result[c] = "panic" THEN "fatal" ELSE result[c]]
    /\ task[c] = "done" \/ result[c] = "panic"
Aborted(c) ==
    /\ future[c] = "tell" /\ future'[c] = "resolved"
    /\ answer' = [answer EXCEPT ![c] = "aborted"]
    /\ told' = [told EXCEPT ![c] = Append(@, "aborted")]
FutureEffect(c) ==
    /\ UNCHANGED <<history, phase, request, in_flight, madeIn, task, result>>
    /\ phase = "draining" /\ Flying(c) /\ future[c] \notin {"none", "resolved"} /\ future'[c] # "none"
    /\ future' \in [Calls -> Futures] /\ reached' \in [Calls -> BOOLEAN]
    /\ \A d \in Calls \ {c} : future'[d] = future[d] /\ reached'[d] = reached[d]
    /\ reached[c] => reached'[c]
    /\ Moved(c) \/ Took(c) \/ Aborted(c)

LEMMA FutureSteps ==
    ASSUME Types, NEW c \in Calls, FutureStep(c) PROVE FutureEffect(c)
<1>0. /\ task \in [Calls -> TaskStates] /\ reached \in [Calls -> BOOLEAN]
      /\ future \in [Calls -> Futures] /\ answer \in [Calls -> Answers]
  BY DEF Types
<1>1. /\ UNCHANGED <<history, phase, request, in_flight, madeIn, task, result>>
      /\ phase = "draining" /\ Flying(c) /\ future[c] \notin {"none", "resolved"}
  <2>1. \A s \in Futures : Polled(c, s) => phase = "draining" /\ Flying(c) /\ future[c] = s
    BY DEF Polled, Flying, Range
  <2> QED
    BY <2>1 DEF FutureStep, TakeResult, SeesCancel, ClaimAbort, AbortHandle, Reap, NotifyAborted,
                turn, ofTasks, Futures
<1> USE DEF Resolves, Moves, Futures, Polled, FutureEffect
<1>2. CASE TakeResult(c)
  BY <1>0, <1>1, <1>2 DEF TakeResult, Took, Finished
<1>3. CASE SeesCancel(c)
  BY <1>0, <1>1, <1>3 DEF SeesCancel, Moved
<1>4. CASE ClaimAbort(c)
  BY <1>0, <1>1, <1>4 DEF ClaimAbort, Moved
<1>5. CASE AbortHandle(c)
  BY <1>0, <1>1, <1>5 DEF AbortHandle, Moved
<1>6. CASE Reap(c)
  BY <1>0, <1>1, <1>6 DEF Reap, Moved, Took
<1>7. CASE NotifyAborted(c)
  BY <1>0, <1>1, <1>7 DEF NotifyAborted, Aborted
<1> QED
  BY <1>2, <1>3, <1>4, <1>5, <1>6, <1>7 DEF FutureStep

-----------------------------------------------------------------------------
(* Of two items behind one another. *)
LEMMA TwoBehind ==
    ASSUME NEW S, NEW s \in Seq(S), NEW x \in S, NEW y \in S
    PROVE  s \o <<x, y>> = Append(Append(s, x), y)
<1>1. Append(s, x) = s \o <<x>> /\ Append(s, x) \in Seq(S)
  BY AppendIsConcat, AppendProperties
<1> DEFINE a == <<x>>  b == <<y>>  t == Append(s, x)
<1>2. a \in Seq(S) /\ b \in Seq(S)
  OBVIOUS
<1>3. a \o b = <<x, y>>
  <2>1. a \o b \in Seq(S) /\ Len(a \o b) = 2 /\ (a \o b)[1] = x /\ (a \o b)[2] = y
    BY <1>2, ConcatProperties
  <2>2. <<x, y>> \in Seq(S) /\ Len(<<x, y>>) = 2 /\ <<x, y>>[1] = x /\ <<x, y>>[2] = y
    OBVIOUS
  <2> DEFINE u == a \o b  v == <<x, y>>
  <2>3. \A i \in 1 .. 2 : i = 1 \/ i = 2
    OBVIOUS
  <2> HIDE DEF u, v
  <2>4. u \in Seq(S) /\ v \in Seq(S) /\ Len(u) = 2 /\ Len(v) = 2 /\ \A i \in 1 .. 2 : u[i] = v[i]
    BY <2>1, <2>2, <2>3 DEF u, v
  <2>5. u = v
    BY <2>4, SeqEqual
  <2> QED
    BY <2>5 DEF u, v
<1>4. Append(t, y) = t \o b /\ t = s \o a
  BY <1>1, AppendIsConcat
<1> HIDE DEF a, b, t
<1>5. (s \o a) \o b = s \o (a \o b)
  BY <1>2, ConcatAssociative
<1> QED
  BY <1>3, <1>4, <1>5 DEF t

(* What the arrival of an item that needs no task does. *)
RecordsOnly(c) ==
    /\ c \in Calls /\ phase = "streaming" /\ madeIn[c] = 0 /\ madeIn' = [madeIn EXCEPT ![c] = request]
    /\ UNCHANGED <<phase, request, in_flight, task, result, reached, future, answer, told>>
    /\ history' \in Seq(Items)
    /\ \A i \in DOMAIN history : i \in DOMAIN history' /\ history'[i] = history[i]
    /\ \A i \in DOMAIN history' : i \in DOMAIN history \/
          (history'[i].call = c /\ history'[i].body # "aborted")

LEMMA RecordSteps ==
    ASSUME Types, NEW c \in Calls, MalformedCall(c) \/ LocalShellCall(c) PROVE RecordsOnly(c)
<1>0. history \in Seq(Items)
  BY DEF Types
<1>1. Call(c) \in Items /\ Output(c, "error") \in Items /\ Call(c).call = c /\ Output(c, "error").call = c
      /\ Call(c).body # "aborted" /\ Output(c, "error").body # "aborted"
  BY DEF Items, Call, Output, Answers
<1> DEFINE x == Call(c)  y == Output(c, "error")
<1>2. /\ c \in Calls /\ phase = "streaming" /\ madeIn[c] = 0 /\ madeIn' = [madeIn EXCEPT ![c] = request]
      /\ UNCHANGED <<phase, request, in_flight, task, result, reached, future, answer, told>>
  BY DEF MalformedCall, LocalShellCall, Emits, waiting
<1>3. history' = history \o <<x, y>> \/ history' = Append(history, x)
  BY DEF MalformedCall, LocalShellCall
<1>4. x \in Items /\ y \in Items /\ x.call = c /\ y.call = c /\ x.body # "aborted" /\ y.body # "aborted"
  BY <1>1
<1> HIDE DEF x, y
<1>5. PICK e : GrownBy(history, Append(history, x), x, e) /\ Append(history, x) \in Seq(Items)
  BY <1>0, <1>4, AppendGrows
<1> DEFINE h == Append(history, x)
<1>6. h \in Seq(Items) /\ GrownBy(history, h, x, e)
  BY <1>5
<1> HIDE DEF h
<1>7. PICK f : GrownBy(h, Append(h, y), y, f) /\ Append(h, y) \in Seq(Items)
  BY <1>4, <1>6, AppendGrows
<1>8. history' = Append(h, y) \/ history' = h
  BY <1>0, <1>3, <1>4, TwoBehind DEF h
<1>9. CASE history' = h
  BY <1>2, <1>4, <1>6, <1>9 DEF RecordsOnly, GrownBy
<1>10. CASE history' = Append(h, y)
  <2> DEFINE g == Append(h, y)
  <2>1. g \in Seq(Items) /\ GrownBy(h, g, y, f) /\ history' = g
    BY <1>7, <1>10
  <2> HIDE DEF g
  <2> QED
    BY <1>2, <1>4, <1>6, <2>1 DEF RecordsOnly, GrownBy
<1> QED
  BY <1>8, <1>9, <1>10

-----------------------------------------------------------------------------
(* The steps that matter, by what they do. *)
QuietStep == StartRequest \/ StreamEnds \/ RequestReturns \/ CancelTurn \/ KillTurn \/ UNCHANGED vars

LEMMA StepKinds ==
    ASSUME Types, [Next]_vars
    PROVE  \/ QuietStep \/ DrainOne
           \/ \E c \in Calls : ToolCall(c) \/ RecordsOnly(c) \/ TaskEffect(c) \/ FutureEffect(c)
BY TaskSteps, FutureSteps, RecordSteps DEF Next, QuietStep, TurnStep, Stopped

LEMMA ToldType ==
    ASSUME NEW S, NEW f \in [Calls -> Seq(S)], NEW c \in Calls, NEW x \in S
    PROVE  [f EXCEPT ![c] = Append(@, x)] \in [Calls -> Seq(S)]
<1>1. Append(f[c], x) \in Seq(S)
  BY AppendProperties
<1> QED
  BY <1>1

LEMMA TypesStep == ASSUME Types, ResultsAgree, [Next]_vars PROVE Types'
<1>0. /\ history \in Seq(Items) /\ phase \in Phases /\ request \in Nat
      /\ in_flight \in Seq(Calls) /\ madeIn \in [Calls -> Nat]
      /\ task \in [Calls -> TaskStates] /\ result \in [Calls -> Results]
      /\ reached \in [Calls -> BOOLEAN] /\ future \in [Calls -> Futures]
      /\ answer \in [Calls -> Answers] /\ told \in [Calls -> Seq({"start", "finish", "aborted"})]
  BY DEF Types
<1>a. \A c \in Calls, x \in {"start", "finish", "aborted"} :
         [told EXCEPT ![c] = Append(@, x)] \in [Calls -> Seq({"start", "finish", "aborted"})]
  <2> DEFINE S == {"start", "finish", "aborted"}
  <2>1. told \in [Calls -> Seq(S)]
    BY <1>0
  <2> HIDE DEF S
  <2>2. \A c \in Calls, x \in S : [told EXCEPT ![c] = Append(@, x)] \in [Calls -> Seq(S)]
    BY <2>1, ToldType
  <2> QED
    BY <2>2 DEF S
<1>1. CASE StartRequest
  BY <1>0, <1>1 DEF StartRequest, waiting, Types, Phases
<1>2. CASE StreamEnds \/ RequestReturns \/ CancelTurn \/ UNCHANGED vars
  BY <1>0, <1>2 DEF StreamEnds, RequestReturns, CancelTurn, vars, waiting, Types, Phases
<1>3. CASE KillTurn
  <2>1. future' \in [Calls -> Futures]
    BY <1>0, <1>3 DEF KillTurn, Futures
  <2> QED
    BY <1>0, <1>3, <2>1 DEF KillTurn, Types, Phases
<1>4. CASE DrainOne
  <2> DEFINE c == Head(in_flight)
  <2>1. c \in Calls /\ Tail(in_flight) \in Seq(Calls)
    BY <1>0, <1>4, TailShifts DEF DrainOne
  <2>2. history' \in Seq(Items)
    <3>1. Output(c, answer[c]) \in Items
      BY <1>0, <2>1, ItemTypes
    <3> QED
      BY <1>0, <1>4, <3>1, AppendGrows DEF DrainOne
  <2> QED
    BY <1>0, <1>4, <2>1, <2>2 DEF DrainOne, waiting, Types
<1>5. ASSUME NEW c \in Calls, ToolCall(c) PROVE Types'
  <2>1. history' \in Seq(Items)
    <3>1. Call(c) \in Items
      BY DEF Items, Call, Answers
    <3> QED
      BY <1>0, <1>5, <3>1, AppendGrows DEF ToolCall
  <2>2. in_flight' \in Seq(Calls)
    BY <1>0, <1>5, AppendGrows DEF ToolCall
  <2>3. madeIn' \in [Calls -> Nat] /\ task' \in [Calls -> TaskStates] /\ future' \in [Calls -> Futures]
    BY <1>0, <1>5 DEF ToolCall, Emits, TaskStates, Futures
  <2> QED
    BY <1>0, <1>5, <2>1, <2>2, <2>3 DEF ToolCall, Emits, Types
<1>6. ASSUME NEW c \in Calls, RecordsOnly(c) PROVE Types'
  <2>1. madeIn' \in [Calls -> Nat]
    BY <1>0, <1>6 DEF RecordsOnly
  <2> QED
    BY <1>0, <1>6, <2>1 DEF RecordsOnly, Types
<1>7. ASSUME NEW c \in Calls, TaskEffect(c) PROVE Types'
  <2>1. history' \in Seq(Items)
    <3>1. Note(c) \in Items
      BY DEF Items, Note, Answers
    <3>2. Append(history, Note(c)) \in Seq(Items)
      BY <1>0, <3>1, AppendProperties
    <3> QED
      BY <1>0, <1>7, <3>2 DEF TaskEffect
  <2>2. told' \in [Calls -> Seq({"start", "finish", "aborted"})]
    BY <1>0, <1>7, <1>a DEF TaskEffect
  <2> QED
    BY <1>0, <1>7, <2>1, <2>2 DEF TaskEffect, Types
<1>8. ASSUME NEW c \in Calls, FutureEffect(c) PROVE Types'
  <2>1. told' \in [Calls -> Seq({"start", "finish", "aborted"})]
    BY <1>0, <1>8, <1>a DEF FutureEffect, Moved, Took, Aborted
  <2>2. answer' \in [Calls -> Answers]
    BY <1>0, <1>8 DEF FutureEffect, Moved, Took, Aborted, Results, Answers
  <2> QED
    BY <1>0, <1>8, <2>1, <2>2 DEF FutureEffect, Types
<1> QED
  BY <1>1, <1>2, <1>3, <1>4, <1>5, <1>6, <1>7, <1>8, StepKinds DEF QuietStep

-----------------------------------------------------------------------------
(* The history keeps its items, and what is new is of call c. *)
Extends(c) ==
    /\ \A i \in DOMAIN history : i \in DOMAIN history' /\ history'[i] = history[i]
    /\ \A i \in DOMAIN history' : i \in DOMAIN history \/ history'[i].call = c

LEMMA NoteExtends ==
    ASSUME Types, NEW c \in Calls, TaskEffect(c)
    PROVE  Extends(c) /\ \A i \in DOMAIN history' : i \in DOMAIN history \/ history'[i].item = "note"
<1>1. CASE history' = history
  BY <1>1 DEF Extends
<1>2. CASE history' = Append(history, Note(c))
  <2> DEFINE x == Note(c)  h == Append(history, x)
  <2>1. x \in Items /\ x.call = c /\ x.item = "note"
    BY DEF Items, Note, Answers
  <2> HIDE DEF x
  <2>2. PICK e : GrownBy(history, h, x, e)
    BY <2>1, AppendGrows DEF Types
  <2>3. history' = h
    BY <1>2 DEF x
  <2> HIDE DEF h
  <2> QED
    BY <2>1, <2>2, <2>3 DEF GrownBy, Extends
<1> QED
  BY <1>1, <1>2 DEF TaskEffect

(* The output of the first future, or nothing, is recorded. *)
LEMMA DrainExtends ==
    ASSUME Types, DrainOne
    PROVE  LET c == Head(in_flight) IN
           /\ c \in Calls /\ Flying(c) /\ in_flight[1] = c /\ 1 \in DOMAIN in_flight /\ Extends(c)
           /\ \A i \in DOMAIN history' : i \in DOMAIN history
                \/ (history'[i].item = "output" /\ history'[i].body = answer[c])
           /\ \A i, j \in DOMAIN history' : i \in DOMAIN history /\ j \notin DOMAIN history => i < j
           /\ \A i, j \in DOMAIN history' : i \notin DOMAIN history => ~(i < j)
           /\ answer[c] = "fatal" \/ \E i \in DOMAIN history' : history'[i].item = "output" /\ history'[i].call = c
<1> DEFINE c == Head(in_flight)  x == Output(c, answer[c])  h == Append(history, x)
<1>1. c \in Calls /\ in_flight[1] = c /\ 1 \in DOMAIN in_flight /\ answer[c] \in Answers /\ history \in Seq(Items)
  BY TailShifts DEF DrainOne, Types
<1>2. Flying(c)
  BY <1>1 DEF Flying
<1>3. x \in Items /\ x.call = c /\ x.item = "output" /\ x.body = answer[c]
  BY <1>1, ItemTypes
<1>4. CASE answer[c] = "fatal"
  <2>1. history' = history
    BY <1>4 DEF DrainOne
  <2> QED
    BY <1>1, <1>2, <1>4, <2>1 DEF Extends
<1>5. CASE answer[c] # "fatal"
  <2>1. history' = h
    BY <1>5 DEF DrainOne
  <2> HIDE DEF x, c
  <2>2. PICK e : GrownBy(history, h, x, e)
    BY <1>1, <1>3, AppendGrows
  <2> HIDE DEF h
  <2>3. Extends(c) /\ history'[e].item = "output" /\ history'[e].call = c /\ e \in DOMAIN history'
    BY <1>3, <2>1, <2>2 DEF Extends, GrownBy
  <2>4. \A i \in DOMAIN history' : i \in DOMAIN history
                \/ (history'[i].item = "output" /\ history'[i].body = answer[c])
    BY <1>3, <2>1, <2>2 DEF GrownBy
  <2>5. /\ \A i, j \in DOMAIN history' : i \in DOMAIN history /\ j \notin DOMAIN history => i < j
        /\ \A i, j \in DOMAIN history' : i \notin DOMAIN history => ~(i < j)
    BY <2>1, <2>2 DEF GrownBy
  <2> QED
    BY <1>1, <1>2, <2>3, <2>4, <2>5 DEF c
<1> QED
  BY <1>4, <1>5

(* Who stays in flight when the first future is taken. *)
LEMMA DrainFlight ==
    ASSUME Types, FlightAgrees, DrainOne
    PROVE  \A d \in Calls : Flying(d)' <=> Flying(d) /\ d # Head(in_flight)
<1>0. in_flight \in Seq(Calls) /\ in_flight # <<>> /\ in_flight' = Tail(in_flight)
  BY DEF Types, DrainOne
<1>1. \A a \in DOMAIN Tail(in_flight) : a + 1 \in DOMAIN in_flight /\ Tail(in_flight)[a] = in_flight[a + 1] /\ a + 1 # 1
  BY <1>0, TailShifts
<1>2. \A a \in DOMAIN in_flight : a = 1 \/ \E b \in DOMAIN Tail(in_flight) : Tail(in_flight)[b] = in_flight[a]
  BY <1>0, TailShifts
<1>3. in_flight[1] = Head(in_flight) /\ 1 \in DOMAIN in_flight
  BY <1>0, TailShifts
<1>4. \A a, b \in DOMAIN in_flight : in_flight[a] = in_flight[b] => a = b
  BY DEF FlightAgrees
<1>5. ASSUME NEW d \in Calls, Flying(d)' PROVE Flying(d) /\ d # Head(in_flight)
  BY <1>0, <1>1, <1>3, <1>4, <1>5 DEF Flying
<1>6. ASSUME NEW d \in Calls, Flying(d), d # Head(in_flight) PROVE Flying(d)'
  BY <1>0, <1>2, <1>3, <1>6 DEF Flying
<1> QED
  BY <1>5, <1>6

(* The new call comes last, in the history and in flight. *)
LEMMA ToolCallExtends ==
    ASSUME Types, Untouched, NEW c \in Calls, ToolCall(c)
    PROVE  /\ \E e : GrownBy(history, history', Call(c), e)
           /\ \E f : GrownBy(in_flight, in_flight', c, f)
           /\ \A d \in Calls : Flying(d)' <=> Flying(d) \/ d = c
           /\ ~Flying(c) /\ Extends(c)
           /\ \A i \in DOMAIN history' : i \in DOMAIN history \/ history'[i].item = "call"
<1> DEFINE x == Call(c)
<1>1. x \in Items /\ history' = Append(history, x) /\ in_flight' = Append(in_flight, c)
      /\ x.call = c /\ x.item = "call"
  BY DEF Items, Call, Answers, ToolCall
<1> HIDE DEF x
<1>2. PICK e : GrownBy(history, history', x, e)
  BY <1>1, AppendGrows DEF Types
<1>3. PICK f : GrownBy(in_flight, in_flight', c, f)
  BY <1>1, AppendGrows DEF Types
<1>4. ~Flying(c)
  BY DEF Untouched, ToolCall, Emits
<1>5. \A d \in Calls : Flying(d)' <=> Flying(d) \/ d = c
  BY <1>3 DEF Flying, GrownBy
<1>6. Extends(c) /\ \A i \in DOMAIN history' : i \in DOMAIN history \/ history'[i].item = "call"
  BY <1>1, <1>2 DEF Extends, GrownBy
<1> QED
  BY <1>2, <1>3, <1>4, <1>5, <1>6 DEF x

LEMMA UntouchedStep ==
    ASSUME Types, Untouched, FlightAgrees, [Next]_vars PROVE Untouched'
<1>0. /\ request \in Nat /\ madeIn \in [Calls -> Nat] /\ future \in [Calls -> Futures]
      /\ task \in [Calls -> TaskStates] /\ answer \in [Calls -> Answers]
  BY DEF Types
<1>1. CASE QuietStep
  <2>1. UNCHANGED <<history, madeIn, task, answer, told>>
    BY <1>1 DEF QuietStep, StartRequest, StreamEnds, RequestReturns, CancelTurn, KillTurn, vars, waiting
  <2>2. \A c \in Calls : Flying(c)' => Flying(c)
    <3>1. in_flight' = in_flight \/ in_flight' = <<>>
      BY <1>1 DEF QuietStep, StartRequest, StreamEnds, RequestReturns, CancelTurn, KillTurn, vars
    <3> QED
      BY <3>1 DEF Flying
  <2>3. \A c \in Calls : future[c] = "none" => future'[c] = "none"
    BY <1>0, <1>1 DEF QuietStep, StartRequest, StreamEnds, RequestReturns, CancelTurn, KillTurn, vars, waiting
  <2>4. phase' # "idle" => request' # 0
    BY <1>0, <1>1 DEF QuietStep, StartRequest, StreamEnds, RequestReturns, CancelTurn, KillTurn, vars, Untouched
  <2> QED
    BY <2>1, <2>2, <2>3, <2>4 DEF Untouched
<1>2. CASE DrainOne
  <2>1. UNCHANGED <<phase, request, madeIn, task, future, answer, told>>
    BY <1>2 DEF DrainOne, waiting
  <2>2. PICK c \in Calls : Flying(c) /\ Extends(c)
    BY <1>2, DrainExtends
  <2>3. \A d \in Calls : Flying(d)' => Flying(d)
    BY <1>2, DrainFlight
  <2> QED
    BY <2>1, <2>2, <2>3 DEF Untouched, Extends
<1>3. ASSUME NEW c \in Calls, ToolCall(c) PROVE Untouched'
  <2>1. /\ phase = "streaming" /\ UNCHANGED <<phase, request, answer, told>>
        /\ madeIn'[c] = request /\ \A d \in Calls \ {c} :
              madeIn'[d] = madeIn[d] /\ task'[d] = task[d] /\ future'[d] = future[d]
    BY <1>0, <1>3 DEF ToolCall, Emits
  <2>2. Extends(c) /\ \A d \in Calls : Flying(d)' <=> Flying(d) \/ d = c
    BY <1>3, ToolCallExtends
  <2> QED
    BY <2>1, <2>2 DEF Untouched, Extends
<1>4. ASSUME NEW c \in Calls, RecordsOnly(c) PROVE Untouched'
  <2>1. /\ phase = "streaming" /\ UNCHANGED <<phase, request, in_flight, task, future, answer, told>>
        /\ madeIn'[c] = request /\ \A d \in Calls \ {c} : madeIn'[d] = madeIn[d]
    BY <1>0, <1>4 DEF RecordsOnly
  <2> QED
    BY <1>4, <2>1 DEF Untouched, RecordsOnly, Flying
<1>5. ASSUME NEW c \in Calls, TaskEffect(c) PROVE Untouched'
  <2>1. /\ UNCHANGED <<phase, request, in_flight, madeIn, future, answer>> /\ task[c] # "none"
        /\ \A d \in Calls \ {c} : task'[d] = task[d] /\ told'[d] = told[d]
    BY <1>5 DEF TaskEffect
  <2>2. Extends(c)
    BY <1>5, NoteExtends
  <2> QED
    BY <2>1, <2>2 DEF Untouched, Extends, Flying
<1>6. ASSUME NEW c \in Calls, FutureEffect(c) PROVE Untouched'
  <2>1. /\ UNCHANGED <<history, phase, request, in_flight, madeIn, task>> /\ Flying(c)
        /\ \A d \in Calls \ {c} : future'[d] = future[d]
    BY <1>6 DEF FutureEffect
  <2>2. \A d \in Calls \ {c} : told'[d] = told[d] /\ answer'[d] = answer[d]
    BY <1>0, <1>6 DEF FutureEffect, Moved, Took, Aborted, Types
  <2> QED
    BY <2>1, <2>2 DEF Untouched, Flying
<1> QED
  BY <1>1, <1>2, <1>3, <1>4, <1>5, <1>6, StepKinds

-----------------------------------------------------------------------------
LEMMA ResultsStep ==
    ASSUME Types, Untouched, FlightAgrees, ResultsAgree, [Next]_vars PROVE ResultsAgree'
<1>0. /\ future \in [Calls -> Futures] /\ task \in [Calls -> TaskStates] /\ answer \in [Calls -> Answers]
      /\ result \in [Calls -> Results]
  BY DEF Types
<1>1. CASE QuietStep
  <2>1. UNCHANGED <<task, result, answer>>
    BY <1>1 DEF QuietStep, StartRequest, StreamEnds, RequestReturns, CancelTurn, KillTurn, vars, waiting
  <2>2. \A c \in Calls : future'[c] = future[c] \/ future'[c] = "none"
    BY <1>0, <1>1 DEF QuietStep, StartRequest, StreamEnds, RequestReturns, CancelTurn, KillTurn, vars, waiting
  <2> QED
    BY <2>1, <2>2 DEF ResultsAgree, Finished
<1>2. CASE DrainOne
  BY <1>2 DEF DrainOne, waiting, ResultsAgree, Finished
<1>3. ASSUME NEW c \in Calls, ToolCall(c) PROVE ResultsAgree'
  <2>1. /\ UNCHANGED <<result, answer>> /\ answer[c] = "none" /\ task'[c] = "queued" /\ future'[c] = "select"
        /\ \A d \in Calls \ {c} : task'[d] = task[d] /\ future'[d] = future[d]
    BY <1>0, <1>3 DEF ToolCall, Emits, Untouched
  <2> QED
    BY <2>1 DEF ResultsAgree, Finished
<1>4. ASSUME NEW c \in Calls, RecordsOnly(c) PROVE ResultsAgree'
  BY <1>4 DEF RecordsOnly, ResultsAgree, Finished
<1>5. ASSUME NEW c \in Calls, TaskEffect(c) PROVE ResultsAgree'
  <2>1. /\ UNCHANGED <<future, answer>> /\ ~Finished(c)
        /\ \A d \in Calls \ {c} : task'[d] = task[d] /\ result'[d] = result[d]
    BY <1>5 DEF TaskEffect, Finished
  <2>2. task'[c] \in LateStates => result'[c] # "none"
    BY <1>5 DEF TaskEffect, LateStates, ResultsAgree
  <2> QED
    BY <2>1, <2>2 DEF ResultsAgree, Finished, LateStates
<1>6. ASSUME NEW c \in Calls, FutureEffect(c) PROVE ResultsAgree'
  <2>1. /\ UNCHANGED <<task, result>> /\ answer[c] = "none"
        /\ \A d \in Calls \ {c} : future'[d] = future[d]
    BY <1>6 DEF FutureEffect, FlightAgrees
  <2>2. CASE Moved(c)
    BY <2>1, <2>2 DEF Moved, ResultsAgree, Finished
  <2>3. CASE Took(c)
    <3>1. \A d \in Calls \ {c} : answer'[d] = answer[d]
      BY <1>0, <2>3 DEF Took
    <3>2. answer'[c] # "none" /\ Finished(c) /\ (answer'[c] = "fatal" => result[c] \in {"fatal", "panic"})
      BY <1>0, <2>3 DEF Took, ResultsAgree
    <3> QED
      BY <2>1, <3>1, <3>2 DEF ResultsAgree, Finished
  <2>4. CASE Aborted(c)
    <3>1. (\A d \in Calls \ {c} : answer'[d] = answer[d]) /\ answer'[c] = "aborted" /\ Finished(c)
      BY <1>0, <2>4 DEF Aborted, ResultsAgree
    <3> QED
      BY <2>1, <3>1 DEF ResultsAgree, Finished
  <2> QED
    BY <1>6, <2>2, <2>3, <2>4 DEF FutureEffect
<1> QED
  BY <1>1, <1>2, <1>3, <1>4, <1>5, <1>6, StepKinds

(* A report appended behind the others. *)
LEMMA ToldGrows ==
    ASSUME Types, NEW c \in Calls, NEW x \in {"start", "finish", "aborted"},
           told' = [told EXCEPT ![c] = Append(@, x)]
    PROVE  (\A d \in Calls \ {c} : told'[d] = told[d]) /\ \E e : GrownBy(told[c], told'[c], x, e)
<1>1. told'[c] = Append(told[c], x) /\ \A d \in Calls \ {c} : told'[d] = told[d]
  BY DEF Types
<1>2. \E e : GrownBy(told[c], Append(told[c], x), x, e)
  BY AppendGrows DEF Types
<1> QED
  BY <1>1, <1>2

LEMMA OutcomeStep ==
    ASSUME Types, Untouched, FlightAgrees, ResultsAgree, OutcomeAgrees, [Next]_vars PROVE OutcomeAgrees'
<1> USE ToolCallsAssumption
<1>0. /\ future \in [Calls -> Futures] /\ task \in [Calls -> TaskStates] /\ reached \in [Calls -> BOOLEAN]
      /\ Waits \subseteq Calls
  BY DEF Types
<1>1. CASE QuietStep
  <2>1. UNCHANGED <<task, reached, told>>
    BY <1>1 DEF QuietStep, StartRequest, StreamEnds, RequestReturns, CancelTurn, KillTurn, vars, waiting
  <2>2. \A c \in Calls : future'[c] = future[c] \/ future'[c] = "none"
    BY <1>0, <1>1 DEF QuietStep, StartRequest, StreamEnds, RequestReturns, CancelTurn, KillTurn, vars, waiting
  <2> QED
    BY <1>0, <2>1, <2>2 DEF OutcomeAgrees, Terminal
<1>2. CASE DrainOne
  BY <1>2 DEF DrainOne, waiting, OutcomeAgrees, Terminal
<1>3. ASSUME NEW c \in Calls, ToolCall(c) PROVE OutcomeAgrees'
  <2>1. /\ UNCHANGED <<reached, told>> /\ told[c] = <<>> /\ task'[c] = "queued" /\ future'[c] = "select"
        /\ \A d \in Calls \ {c} : task'[d] = task[d] /\ future'[d] = future[d]
    BY <1>0, <1>3 DEF ToolCall, Emits, Untouched
  <2> QED
    BY <1>0, <2>1 DEF OutcomeAgrees, Terminal
<1>4. ASSUME NEW c \in Calls, RecordsOnly(c) PROVE OutcomeAgrees'
  BY <1>4 DEF RecordsOnly, OutcomeAgrees, Terminal
<1>5. ASSUME NEW c \in Calls, TaskEffect(c) PROVE OutcomeAgrees'
  <2>1. /\ UNCHANGED future /\ (reached[c] => reached'[c])
        /\ \A d \in Calls \ {c} : task'[d] = task[d] /\ told'[d] = told[d] /\ reached'[d] = reached[d]
    BY <1>5 DEF TaskEffect
  <2>2. CASE told' = told
    <3>1. task'[c] = "notify" => ~reached[c] /\ reached'[c]
      BY <1>5 DEF TaskEffect
    <3> QED
      BY <1>0, <2>1, <2>2, <3>1 DEF OutcomeAgrees, Terminal
  <2>3. CASE told' # told
    <3>1. PICK x \in {"start", "finish"} : told' = [told EXCEPT ![c] = Append(@, x)] /\ (x = "finish" => task[c] = "notify")
      BY <1>5, <2>3 DEF TaskEffect
    <3>2. task'[c] # "notify"
      BY <1>5, <2>3 DEF TaskEffect
    <3>3. PICK e : GrownBy(told[c], told'[c], x, e)
      BY <3>1, ToldGrows
    <3>4. \A i \in DOMAIN told'[c] : told'[c][i] # "start" =>
              (i \in DOMAIN told[c] /\ told[c][i] # "start") \/ (i = e /\ x = "finish")
      BY <3>3 DEF GrownBy
    <3>5. ASSUME c \in Waits
          PROVE  /\ Terminal(c)' => reached'[c] /\ task'[c] # "notify" /\ future'[c] \notin {"teardown", "tell"}
                 /\ \A i, j \in DOMAIN told'[c] : told'[c][i] # "start" /\ told'[c][j] # "start" => i = j
      BY <2>1, <3>1, <3>2, <3>4, <3>5 DEF OutcomeAgrees, Terminal
    <3>6. ASSUME NEW d \in Waits, d # c
          PROVE  /\ Terminal(d)' => reached'[d] /\ task'[d] # "notify" /\ future'[d] \notin {"teardown", "tell"}
                 /\ \A i, j \in DOMAIN told'[d] : told'[d][i] # "start" /\ told'[d][j] # "start" => i = j
      BY <1>0, <2>1, <3>6 DEF OutcomeAgrees, Terminal
    <3>7. \A d \in Waits :
            /\ future'[d] \notin {"abort", "reap"}
            /\ task'[d] = "notify" => reached'[d] /\ future'[d] \notin {"teardown", "tell"}
            /\ future'[d] \in {"teardown", "tell"} => reached'[d]
      BY <1>0, <2>1, <3>2 DEF OutcomeAgrees
    <3> QED
      BY <3>5, <3>6, <3>7 DEF OutcomeAgrees
  <2> QED
    BY <2>2, <2>3
<1>6. ASSUME NEW c \in Calls, FutureEffect(c) PROVE OutcomeAgrees'
  <2>1. /\ UNCHANGED task /\ (reached[c] => reached'[c])
        /\ \A d \in Calls \ {c} : future'[d] = future[d] /\ reached'[d] = reached[d]
    BY <1>6 DEF FutureEffect
  <2>2. CASE Moved(c)
    <3>1. told' = told /\ (c \in Waits => future'[c] \notin {"abort", "reap"})
      BY <2>2 DEF Moved, OutcomeAgrees
    <3>2. c \in Waits /\ future'[c] = "tell" => reached[c] /\ ~Terminal(c) /\ task[c] # "notify"
      BY <2>2 DEF Moved, OutcomeAgrees
    <3>3. c \in Waits /\ future'[c] = "teardown" => reached'[c] /\ ~Terminal(c) /\ task[c] # "notify"
      BY <2>2 DEF Moved, OutcomeAgrees
    <3>4. \A d \in Calls : Terminal(d)' <=> Terminal(d)
      BY <3>1 DEF Terminal
    <3> QED
      BY <1>0, <2>1, <3>1, <3>2, <3>3, <3>4 DEF OutcomeAgrees
  <2>3. CASE Took(c)
    BY <1>0, <2>1, <2>3 DEF Took, OutcomeAgrees, Terminal
  <2>4. CASE Aborted(c)
    <3>1. PICK e : GrownBy(told[c], told'[c], "aborted", e)
      BY <2>4, ToldGrows DEF Aborted
    <3>2. future[c] = "tell" /\ future'[c] = "resolved" /\ \A d \in Calls \ {c} : told'[d] = told[d]
      BY <2>4, ToldGrows DEF Aborted
    <3>3. \A i \in DOMAIN told'[c] : (i \in DOMAIN told[c] /\ told'[c][i] = told[c][i]) \/ i = e
      BY <3>1 DEF GrownBy
    <3>4. ASSUME c \in Waits
          PROVE  /\ reached'[c] /\ task'[c] # "notify"
                 /\ \A i, j \in DOMAIN told'[c] : told'[c][i] # "start" /\ told'[c][j] # "start" => i = j
      BY <2>1, <3>2, <3>3, <3>4 DEF OutcomeAgrees, Terminal
    <3>5. ASSUME NEW d \in Waits, d # c
          PROVE  /\ Terminal(d)' => reached'[d] /\ task'[d] # "notify" /\ future'[d] \notin {"teardown", "tell"}
                 /\ \A i, j \in DOMAIN told'[d] : told'[d][i] # "start" /\ told'[d][j] # "start" => i = j
      BY <1>0, <2>1, <3>2, <3>5 DEF OutcomeAgrees, Terminal
    <3>6. \A d \in Waits :
            /\ future'[d] \notin {"abort", "reap"}
            /\ task'[d] = "notify" => reached'[d] /\ future'[d] \notin {"teardown", "tell"}
            /\ future'[d] \in {"teardown", "tell"} => reached'[d]
      BY <1>0, <2>1, <3>2 DEF OutcomeAgrees
    <3> QED
      BY <3>2, <3>4, <3>5, <3>6 DEF OutcomeAgrees
  <2> QED
    BY <1>6, <2>2, <2>3, <2>4 DEF FutureEffect
<1> QED
  BY <1>1, <1>2, <1>3, <1>4, <1>5, <1>6, StepKinds

LEMMA ToldStep ==
    ASSUME Types, Untouched, FlightAgrees, ToldAgrees, [Next]_vars PROVE ToldAgrees'
<1>0. answer \in [Calls -> Answers] /\ result \in [Calls -> Results] /\ history \in Seq(Items)
      /\ \A i \in DOMAIN history : history[i].call \in Calls
  <2>1. \A i \in DOMAIN history : history[i] \in Items
    BY ElementOfSeq, LenProperties DEF Types
  <2> QED
    BY <2>1 DEF Types, Items
<1>1. CASE QuietStep
  BY <1>1 DEF QuietStep, StartRequest, StreamEnds, RequestReturns, CancelTurn, KillTurn, vars, waiting, ToldAgrees
<1>2. CASE DrainOne
  <2>1. UNCHANGED <<answer, told>>
    BY <1>2 DEF DrainOne, waiting
  <2> DEFINE c == Head(in_flight)
  <2>2. \A i \in DOMAIN history' : (i \in DOMAIN history /\ history'[i] = history[i])
            \/ (history'[i].call = c /\ history'[i].body = answer[c])
    BY <1>2, DrainExtends DEF Extends
  <2> QED
    BY <2>1, <2>2 DEF ToldAgrees
<1>3. ASSUME NEW c \in Calls, ToolCall(c) PROVE ToldAgrees'
  <2>1. UNCHANGED <<answer, told>>
    BY <1>3 DEF ToolCall
  <2>2. \A i \in DOMAIN history' : (i \in DOMAIN history /\ history'[i] = history[i]) \/ history'[i].item = "call"
    BY <1>3, ToolCallExtends DEF Extends
  <2> QED
    BY <2>1, <2>2 DEF ToldAgrees
<1>4. ASSUME NEW c \in Calls, RecordsOnly(c) PROVE ToldAgrees'
  <2>1. UNCHANGED <<answer, told>> /\ answer[c] = "none"
    BY <1>4 DEF RecordsOnly, Untouched
  <2>2. \A i \in DOMAIN history' : (i \in DOMAIN history /\ history'[i] = history[i])
            \/ (history'[i].call = c /\ history'[i].body # "aborted")
    BY <1>4 DEF RecordsOnly
  <2> QED
    BY <2>1, <2>2 DEF ToldAgrees
<1>5. ASSUME NEW c \in Calls, TaskEffect(c) PROVE ToldAgrees'
  <2>1. UNCHANGED answer /\ \A d \in Calls \ {c} : told'[d] = told[d]
    BY <1>5 DEF TaskEffect
  <2>2. \A i \in DOMAIN history' : (i \in DOMAIN history /\ history'[i] = history[i]) \/ history'[i].item = "note"
    BY <1>5, NoteExtends DEF Extends
  <2>3. (\E i \in DOMAIN told'[c] : told'[c][i] = "aborted") <=> (\E i \in DOMAIN told[c] : told[c][i] = "aborted")
    <3>1. CASE told' = told
      BY <3>1
    <3>2. CASE told' # told
      <4>1. PICK x \in {"start", "finish"} : told' = [told EXCEPT ![c] = Append(@, x)]
        BY <1>5, <3>2 DEF TaskEffect
      <4>2. PICK e : GrownBy(told[c], told'[c], x, e)
        BY <4>1, ToldGrows
      <4> QED
        BY <4>2 DEF GrownBy
    <3> QED
      BY <3>1, <3>2
  <2> QED
    BY <2>1, <2>2, <2>3 DEF ToldAgrees
<1>6. ASSUME NEW c \in Calls, FutureEffect(c) PROVE ToldAgrees'
  <2>1. UNCHANGED history /\ Flying(c) /\ answer[c] = "none" /\ \A i \in DOMAIN history : ~Is(i, "output", c)
    BY <1>6 DEF FutureEffect, FlightAgrees
  <2>2. ~\E i \in DOMAIN told[c] : told[c][i] = "aborted"
    BY <2>1 DEF ToldAgrees
  <2>3. CASE Moved(c)
    BY <2>1, <2>3 DEF Moved, ToldAgrees
  <2>4. CASE Took(c)
    <3>1. answer'[c] # "aborted" /\ told' = told /\ \A d \in Calls \ {c} : answer'[d] = answer[d]
      BY <1>0, <2>4 DEF Took, Results
    <3> QED
      BY <1>0, <2>1, <2>2, <3>1 DEF ToldAgrees, Is
  <2>5. CASE Aborted(c)
    <3>1. answer'[c] = "aborted" /\ \A d \in Calls \ {c} : answer'[d] = answer[d]
      BY <1>0, <2>5 DEF Aborted
    <3>2. (\A d \in Calls \ {c} : told'[d] = told[d]) /\ \E i \in DOMAIN told'[c] : told'[c][i] = "aborted"
      BY <2>5, ToldGrows DEF Aborted, GrownBy
    <3> QED
      BY <1>0, <2>1, <3>1, <3>2 DEF ToldAgrees, Is
  <2> QED
    BY <1>6, <2>3, <2>4, <2>5 DEF FutureEffect
<1> QED
  BY <1>1, <1>2, <1>3, <1>4, <1>5, <1>6, StepKinds

-----------------------------------------------------------------------------
(* A settled call stays settled while its task and its items are kept. *)
LEMMA SettledStays ==
    ASSUME NEW c, NEW d, Extends(c), task'[d] = task[d], result'[d] = result[d], Settled(d)
    PROVE  Settled(d)'
BY DEF Settled, Finished, Extends, Is

LEMMA FlightStep ==
    ASSUME Types, Untouched, FlightAgrees, ResultsAgree, [Next]_vars PROVE FlightAgrees'
<1>0. /\ request \in Nat /\ madeIn \in [Calls -> Nat] /\ future \in [Calls -> Futures] /\ phase \in Phases
      /\ task \in [Calls -> TaskStates] /\ answer \in [Calls -> Answers] /\ in_flight \in Seq(Calls)
  BY DEF Types
<1>1. CASE StartRequest
  <2>1. /\ request' = request + 1 /\ phase' = "streaming" /\ phase \in {"idle", "killed"}
        /\ UNCHANGED <<madeIn, task, future, answer>> /\ in_flight' = <<>>
    BY <1>1 DEF StartRequest, waiting
  <2>2. (\A c \in Calls : ~Flying(c)') /\ DOMAIN in_flight' = {}
    BY <2>1 DEF Flying
  <2>3. \A c \in Calls : madeIn[c] <= request' /\ madeIn[c] # request'
    BY <1>0, <2>1 DEF FlightAgrees
  <2>4. \A c \in Calls : future[c] \in {"none", "resolved"}
    BY <2>1 DEF FlightAgrees
  <2> QED
    BY <2>1, <2>2, <2>3, <2>4 DEF FlightAgrees
<1>2. CASE StreamEnds \/ CancelTurn \/ UNCHANGED vars
  <2>1. /\ UNCHANGED <<history, request, in_flight, madeIn, task, result, future, answer>>
        /\ phase' = phase \/ (phase = "streaming" /\ phase' = "draining")
    BY <1>2 DEF StreamEnds, CancelTurn, vars, waiting
  <2> QED
    BY <2>1 DEF FlightAgrees, Flying, Dispatched, Settled, Finished, Is
<1>3. CASE RequestReturns
  <2>1. /\ UNCHANGED <<history, request, in_flight, madeIn, task, result, future, answer>>
        /\ phase = "draining" /\ phase' = "idle" /\ DOMAIN in_flight = {}
    BY <1>3 DEF RequestReturns, waiting
  <2> QED
    BY <2>1 DEF FlightAgrees, Flying, Dispatched, Settled, Finished, Is
<1>4. CASE KillTurn
  <2>1. /\ UNCHANGED <<history, request, in_flight, madeIn, task, result, answer>> /\ phase' = "killed"
    BY <1>4 DEF KillTurn
  <2>2. \A c \in Calls : future'[c] = IF Flying(c) THEN "none" ELSE future[c]
    BY <1>0, <1>4 DEF KillTurn, Flying, Range
  <2>3. \A c \in Calls : future'[c] \in {"none", "resolved"}
    BY <2>2 DEF FlightAgrees
  <2>4. \A c \in Calls : Flying(c)' <=> Flying(c)
    BY <2>1 DEF Flying
  <2> QED
    BY <2>1, <2>3, <2>4 DEF FlightAgrees, Dispatched, Is
<1>5. CASE DrainOne
  <2>0. PICK c \in Calls : c = Head(in_flight)
    BY <1>5, DrainExtends
  <2>1. /\ UNCHANGED <<phase, request, madeIn, task, result, future, answer>> /\ phase = "draining"
        /\ future[c] = "resolved" /\ in_flight # <<>> /\ in_flight' = Tail(in_flight)
    BY <1>5, <2>0 DEF DrainOne, waiting
  <2>2. /\ c \in Calls /\ Extends(c)
        /\ answer[c] = "fatal" \/ \E i \in DOMAIN history' : history'[i].item = "output" /\ history'[i].call = c
    BY <1>5, <2>0, DrainExtends
  <2>3. \A d \in Calls : Flying(d)' <=> Flying(d) /\ d # c
    BY <1>5, <2>0, DrainFlight
  <2>4. Settled(c)'
    BY <2>1, <2>2 DEF Settled, Finished, ResultsAgree, Is
  <2>5. \A d \in Calls : Settled(d) => Settled(d)'
    BY <2>1, <2>2, SettledStays
  <2>6. \A d \in Calls : Flying(d)' => \A i \in DOMAIN history' : ~(history'[i].item = "output" /\ history'[i].call = d)
    BY <2>2, <2>3 DEF FlightAgrees, Extends, Is
  <2>7. \A a, b \in DOMAIN in_flight' : in_flight'[a] = in_flight'[b] => a = b
    <3>1. \A a \in DOMAIN Tail(in_flight) : a + 1 \in DOMAIN in_flight /\ Tail(in_flight)[a] = in_flight[a + 1]
      BY <1>0, <2>1, TailShifts
    <3>2. \A a, b \in DOMAIN Tail(in_flight) : a + 1 = b + 1 => a = b
      BY <1>0, <2>1, TailShifts
    <3>3. \A a, b \in DOMAIN in_flight : in_flight[a] = in_flight[b] => a = b
      BY DEF FlightAgrees
    <3> QED
      BY <2>1, <3>1, <3>2, <3>3
  <2>8. ASSUME NEW d \in Calls
        PROVE  /\ madeIn'[d] <= request'
               /\ Flying(d)' =>
                    /\ Dispatched(d)' /\ \A i \in DOMAIN history' : ~(history'[i].item = "output" /\ history'[i].call = d)
                    /\ phase' # "killed" => madeIn'[d] = request' /\ future'[d] # "none"
               /\ future'[d] \notin {"none", "resolved"} => Flying(d)' /\ phase' # "killed" /\ answer'[d] = "none"
               /\ Dispatched(d)' /\ madeIn'[d] = request' /\ phase' # "killed" => Flying(d)' \/ Settled(d)'
    BY <2>1, <2>3, <2>4, <2>5, <2>6 DEF FlightAgrees, Dispatched
  <2> QED
    BY <2>1, <2>7, <2>8 DEF FlightAgrees, Is
<1>6. ASSUME NEW c \in Calls, ToolCall(c) PROVE FlightAgrees'
  <2>1. /\ phase = "streaming" /\ UNCHANGED <<phase, request, answer, result>> /\ madeIn[c] = 0
        /\ madeIn'[c] = request /\ task'[c] = "queued" /\ future'[c] = "select"
        /\ \A d \in Calls \ {c} : madeIn'[d] = madeIn[d] /\ task'[d] = task[d] /\ future'[d] = future[d]
    BY <1>0, <1>6 DEF ToolCall, Emits
  <2>2. /\ Extends(c) /\ ~Flying(c) /\ \A d \in Calls : Flying(d)' <=> Flying(d) \/ d = c
        /\ \A i \in DOMAIN history' : i \in DOMAIN history \/ history'[i].item = "call"
    BY <1>6, ToolCallExtends
  <2>3. answer[c] = "none" /\ \A i \in DOMAIN history : history[i].call # c
    BY <2>1 DEF Untouched
  <2>4. \A d \in Calls \ {c} : Settled(d) => Settled(d)'
    BY <2>1, <2>2, SettledStays
  <2>5. \A a, b \in DOMAIN in_flight' : in_flight'[a] = in_flight'[b] => a = b
    <3>1. PICK f : GrownBy(in_flight, in_flight', c, f)
      BY <1>6, ToolCallExtends
    <3>2. \A a, b \in DOMAIN in_flight : in_flight[a] = in_flight[b] => a = b
      BY DEF FlightAgrees
    <3>3. \A a \in DOMAIN in_flight : in_flight[a] # c
      BY <2>2 DEF Flying
    <3> QED
      BY <3>1, <3>2, <3>3 DEF GrownBy
  <2>6. \A d \in Calls : Flying(d)' => \A i \in DOMAIN history' : ~(history'[i].item = "output" /\ history'[i].call = d)
    BY <2>2, <2>3 DEF FlightAgrees, Extends, Is
  <2>7. ASSUME NEW d \in Calls
        PROVE  /\ madeIn'[d] <= request'
               /\ Flying(d)' =>
                    /\ Dispatched(d)' /\ \A i \in DOMAIN history' : ~(history'[i].item = "output" /\ history'[i].call = d)
                    /\ phase' # "killed" => madeIn'[d] = request' /\ future'[d] # "none"
               /\ future'[d] \notin {"none", "resolved"} => Flying(d)' /\ phase' # "killed" /\ answer'[d] = "none"
               /\ Dispatched(d)' /\ madeIn'[d] = request' /\ phase' # "killed" => Flying(d)' \/ Settled(d)'
    <3>1. CASE d = c
      BY <1>0, <2>1, <2>2, <2>3, <2>6, <3>1 DEF Dispatched
    <3>2. CASE d # c
      BY <2>1, <2>2, <2>4, <2>6, <3>2 DEF FlightAgrees, Dispatched
    <3> QED
      BY <3>1, <3>2
  <2> QED
    BY <2>1, <2>5, <2>7 DEF FlightAgrees, Is
<1>7. ASSUME NEW c \in Calls, RecordsOnly(c) PROVE FlightAgrees'
  <2>1. /\ phase = "streaming" /\ UNCHANGED <<phase, request, in_flight, task, result, future, answer>> /\ madeIn[c] = 0
        /\ madeIn'[c] = request /\ (\A d \in Calls \ {c} : madeIn'[d] = madeIn[d]) /\ Extends(c)
    BY <1>0, <1>7 DEF RecordsOnly, Extends
  <2>2. ~Flying(c) /\ task[c] = "none" /\ future[c] = "none" /\ \A d \in Calls : Flying(d)' <=> Flying(d)
    BY <2>1 DEF Untouched, Flying
  <2>3. \A d \in Calls : Settled(d) => Settled(d)'
    BY <2>1, SettledStays
  <2>4. \A d \in Calls : Flying(d)' => \A i \in DOMAIN history' : ~(history'[i].item = "output" /\ history'[i].call = d)
    BY <2>1, <2>2 DEF FlightAgrees, Extends, Is
  <2>5. ASSUME NEW d \in Calls
        PROVE  /\ madeIn'[d] <= request'
               /\ Flying(d)' =>
                    /\ Dispatched(d)' /\ \A i \in DOMAIN history' : ~(history'[i].item = "output" /\ history'[i].call = d)
                    /\ phase' # "killed" => madeIn'[d] = request' /\ future'[d] # "none"
               /\ future'[d] \notin {"none", "resolved"} => Flying(d)' /\ phase' # "killed" /\ answer'[d] = "none"
               /\ Dispatched(d)' /\ madeIn'[d] = request' /\ phase' # "killed" => Flying(d)' \/ Settled(d)'
    <3>1. CASE d = c
      BY <1>0, <2>1, <2>2, <3>1 DEF Dispatched
    <3>2. CASE d # c
      BY <2>1, <2>2, <2>3, <2>4, <3>2 DEF FlightAgrees, Dispatched
    <3> QED
      BY <3>1, <3>2
  <2> QED
    BY <2>1, <2>5 DEF FlightAgrees, Is
<1>8. ASSUME NEW c \in Calls, TaskEffect(c) PROVE FlightAgrees'
  <2>1. /\ UNCHANGED <<phase, request, in_flight, madeIn, future, answer>> /\ ~Finished(c)
        /\ Dispatched(c) /\ Dispatched(c)'
        /\ \A d \in Calls \ {c} : task'[d] = task[d] /\ result'[d] = result[d]
    BY <1>8 DEF TaskEffect, Finished, Dispatched
  <2>2. Extends(c) /\ \A i \in DOMAIN history' : i \in DOMAIN history \/ history'[i].item = "note"
    BY <1>8, NoteExtends
  <2>3. \A d \in Calls : Settled(d) => Settled(d)'
    BY <2>1, <2>2, SettledStays DEF Settled
  <2>4. \A d \in Calls : Flying(d)' <=> Flying(d)
    BY <2>1 DEF Flying
  <2>5. \A d \in Calls : Flying(d)' => \A i \in DOMAIN history' : ~(history'[i].item = "output" /\ history'[i].call = d)
    BY <2>2, <2>4 DEF FlightAgrees, Extends, Is
  <2>6. \A d \in Calls : Dispatched(d)' <=> Dispatched(d)
    BY <2>1 DEF Dispatched
  <2> QED
    BY <2>1, <2>3, <2>4, <2>5, <2>6 DEF FlightAgrees, Is
<1>9. ASSUME NEW c \in Calls, FutureEffect(c) PROVE FlightAgrees'
  <2>1. /\ UNCHANGED <<history, phase, request, in_flight, madeIn, task, result>> /\ Flying(c) /\ phase = "draining"
        /\ future'[c] # "none" /\ future[c] \notin {"none", "resolved"}
        /\ \A d \in Calls \ {c} : future'[d] = future[d]
    BY <1>9 DEF FutureEffect
  <2>2. (\A d \in Calls \ {c} : answer'[d] = answer[d]) /\ (future'[c] # "resolved" => answer'[c] = answer[c])
    BY <1>0, <1>9 DEF FutureEffect, Moved, Took, Aborted
  <2>3. \A d \in Calls : (Flying(d)' <=> Flying(d)) /\ (Settled(d)' <=> Settled(d)) /\ (Dispatched(d)' <=> Dispatched(d))
    BY <2>1 DEF Flying, Settled, Finished, Dispatched, Is
  <2>4. ASSUME NEW d \in Calls
        PROVE  /\ Flying(d)' /\ phase' # "killed" => madeIn'[d] = request' /\ future'[d] # "none"
               /\ future'[d] \notin {"none", "resolved"} => Flying(d)' /\ phase' # "killed" /\ answer'[d] = "none"
    BY <2>1, <2>2, <2>3 DEF FlightAgrees
  <2> QED
    BY <2>1, <2>3, <2>4 DEF FlightAgrees, Is
<1> QED
  BY <1>1, <1>2, <1>3, <1>4, <1>5, <1>6, <1>7, <1>8, <1>9, StepKinds DEF QuietStep

-----------------------------------------------------------------------------
(* Items that are notes, or of calls without a task, do not touch the order. *)
LEMMA OrderKept ==
    ASSUME OrderAgrees, UNCHANGED in_flight, Untouched, FlightAgrees, in_flight \in Seq(Calls),
           \A i \in DOMAIN history : i \in DOMAIN history' /\ history'[i] = history[i],
           \A i \in DOMAIN history' :
              i \in DOMAIN history \/ history'[i].item = "note" \/ ~Dispatched(history'[i].call),
           \A c \in Calls : Dispatched(c)' <=> Dispatched(c)
    PROVE  OrderAgrees'
<1>1. \A a \in DOMAIN in_flight : in_flight[a] \in Calls /\ Flying(in_flight[a])
  BY ElementOfSeq, LenProperties DEF Flying
<1>2. \A c \in Calls : Flying(c)' <=> Flying(c)
  BY DEF Flying
<1>3. \A c \in Calls : Flying(c) => Dispatched(c)
  BY DEF FlightAgrees
<1>4. \A c \in Calls, i \in DOMAIN history' : Dispatched(c) /\ history'[i].item # "note" /\ history'[i].call = c =>
          i \in DOMAIN history /\ history'[i] = history[i]
  OBVIOUS
<1>5. ASSUME NEW c \in Calls, NEW d \in Calls, Dispatched(c), Dispatched(d), Before(c, d) PROVE Before(c, d)'
  BY <1>4, <1>5 DEF Before, Is
<1>6. \A a, b \in DOMAIN in_flight' : a < b => Before(in_flight[a], in_flight[b])'
  <2>1. SUFFICES ASSUME NEW a \in DOMAIN in_flight, NEW b \in DOMAIN in_flight, a < b
                 PROVE  Before(in_flight[a], in_flight[b])'
    OBVIOUS
  <2>2. PICK c \in Calls : c = in_flight[a]
    BY <1>1
  <2>3. PICK d \in Calls : d = in_flight[b]
    BY <1>1
  <2>4. Before(c, d) /\ Dispatched(c) /\ Dispatched(d)
    BY <1>1, <1>3, <2>1, <2>2, <2>3 DEF OrderAgrees
  <2>5. Before(c, d)'
    BY <1>5, <2>4
  <2> QED
    BY <2>2, <2>3, <2>5 DEF Before, Is
<1>7. ASSUME NEW c \in Calls, NEW d \in Calls, Dispatched(c)', Flying(d)',
             NEW i \in DOMAIN history', Is(i, "output", c)'
      PROVE  Before(c, d)'
  <2>1. Is(i, "output", c) /\ i \in DOMAIN history /\ Dispatched(c) /\ Dispatched(d)
    BY <1>2, <1>3, <1>4, <1>7 DEF Is
  <2> QED
    BY <1>2, <1>5, <1>7, <2>1 DEF OrderAgrees
<1>8. ASSUME NEW c \in Calls, NEW d \in Calls, Dispatched(c)', Dispatched(d)',
             NEW i \in DOMAIN history', NEW j \in DOMAIN history',
             Is(i, "output", c)', Is(j, "output", d)', i < j
      PROVE  c # d /\ Before(c, d)'
  <2>1. /\ Is(i, "output", c) /\ i \in DOMAIN history /\ Is(j, "output", d) /\ j \in DOMAIN history
        /\ Dispatched(c) /\ Dispatched(d)
    BY <1>4, <1>8 DEF Is
  <2> QED
    BY <1>5, <1>8, <2>1 DEF OrderAgrees
<1> QED
  BY <1>6, <1>7, <1>8 DEF OrderAgrees

LEMMA OrderStep ==
    ASSUME Types, Untouched, FlightAgrees, OrderAgrees, [Next]_vars PROVE OrderAgrees'
<1>0. /\ in_flight \in Seq(Calls) /\ task \in [Calls -> TaskStates]
      /\ \A a \in DOMAIN in_flight : in_flight[a] \in Calls /\ Flying(in_flight[a])
  BY ElementOfSeq, LenProperties DEF Types, Flying
<1>1. CASE QuietStep
  <2>1. UNCHANGED <<history, task>> /\ (in_flight' = in_flight \/ DOMAIN in_flight' = {})
    BY <1>1 DEF QuietStep, StartRequest, StreamEnds, RequestReturns, CancelTurn, KillTurn, vars
  <2> QED
    BY <2>1 DEF OrderAgrees, Flying, Dispatched, Before, Is
<1>2. ASSUME NEW c \in Calls, RecordsOnly(c) PROVE OrderAgrees'
  <2>1. /\ UNCHANGED <<in_flight, task>> /\ ~Dispatched(c)
        /\ \A i \in DOMAIN history : i \in DOMAIN history' /\ history'[i] = history[i]
        /\ \A i \in DOMAIN history' : i \in DOMAIN history \/ history'[i].call = c
    BY <1>2 DEF RecordsOnly, Untouched, Dispatched
  <2>2. \A d \in Calls : Dispatched(d)' <=> Dispatched(d)
    BY <2>1 DEF Dispatched
  <2> QED
    BY <1>0, <2>1, <2>2, OrderKept
<1>3. ASSUME NEW c \in Calls, TaskEffect(c) PROVE OrderAgrees'
  <2>1. UNCHANGED in_flight /\ \A d \in Calls : Dispatched(d)' <=> Dispatched(d)
    BY <1>3 DEF TaskEffect, Dispatched
  <2>2. /\ \A i \in DOMAIN history : i \in DOMAIN history' /\ history'[i] = history[i]
        /\ \A i \in DOMAIN history' : i \in DOMAIN history \/ history'[i].item = "note"
    BY <1>3, NoteExtends DEF Extends
  <2> QED
    BY <1>0, <2>1, <2>2, OrderKept
<1>4. ASSUME NEW c \in Calls, FutureEffect(c) PROVE OrderAgrees'
  BY <1>4 DEF FutureEffect, OrderAgrees, Flying, Dispatched, Before, Is
<1>5. ASSUME NEW c \in Calls, ToolCall(c) PROVE OrderAgrees'
  <2>1. task'[c] = "queued" /\ (\A d \in Calls \ {c} : task'[d] = task[d]) /\ madeIn[c] = 0
    BY <1>0, <1>5 DEF ToolCall, Emits
  <2>2. PICK e : GrownBy(history, history', Call(c), e)
    BY <1>5, ToolCallExtends
  <2>3. PICK f : GrownBy(in_flight, in_flight', c, f)
    BY <1>5, ToolCallExtends
  <2>4. ~Flying(c) /\ (\A d \in Calls : Flying(d)' <=> Flying(d) \/ d = c) /\ \A i \in DOMAIN history : history[i].call # c
    BY <1>5, <2>1, ToolCallExtends DEF Untouched
  <2>5. Call(c).item = "call" /\ Call(c).call = c
    BY DEF Call
  <2>6. \A d \in Calls, i \in DOMAIN history' :
            /\ Is(i, "output", d)' => i \in DOMAIN history /\ Is(i, "output", d) /\ d # c
            /\ Is(i, "call", d)' => \/ i \in DOMAIN history /\ Is(i, "call", d) /\ d # c
                                    \/ i = e /\ d = c
    BY <2>2, <2>4, <2>5 DEF GrownBy, Is
  <2>7. \A i \in DOMAIN history : i < e
    BY <2>2 DEF GrownBy
  <2>8. \A d \in Calls \ {c} : Dispatched(d)' <=> Dispatched(d)
    BY <2>1 DEF Dispatched
  <2>9. ASSUME NEW d \in Calls, d # c PROVE Before(d, c)'
    BY <2>6, <2>7, <2>9 DEF Before, Is
  <2>10. ASSUME NEW d \in Calls, NEW g \in Calls, d # c, g # c, Before(d, g) PROVE Before(d, g)'
    BY <2>6, <2>10 DEF Before, Is
  <2>11. ASSUME NEW a \in DOMAIN in_flight', NEW b \in DOMAIN in_flight', a < b
         PROVE  Before(in_flight[a], in_flight[b])'
    <3>1. a \in DOMAIN in_flight /\ in_flight'[a] = in_flight[a]
      BY <2>3, <2>11 DEF GrownBy
    <3>2. PICK d \in Calls : d = in_flight[a] /\ d # c
      BY <1>0, <2>4, <3>1
    <3>3. CASE b \in DOMAIN in_flight
      <4>1. PICK g \in Calls : g = in_flight[b] /\ g # c /\ in_flight'[b] = g
        BY <1>0, <2>3, <2>4, <3>3 DEF GrownBy
      <4>2. Before(d, g)'
        BY <2>10, <2>11, <3>1, <3>2, <3>3, <4>1 DEF OrderAgrees
      <4> QED
        BY <3>1, <3>2, <4>1, <4>2 DEF Before, Is
    <3>4. CASE b \notin DOMAIN in_flight
      <4>1. in_flight'[b] = c
        BY <2>3, <3>4 DEF GrownBy
      <4> QED
        BY <2>9, <3>1, <3>2, <4>1 DEF Before, Is
    <3> QED
      BY <3>3, <3>4
  <2>12. ASSUME NEW d \in Calls, NEW g \in Calls, Dispatched(d)', Flying(g)',
                NEW i \in DOMAIN history', Is(i, "output", d)'
         PROVE  Before(d, g)'
    <3>1. i \in DOMAIN history /\ Is(i, "output", d) /\ d # c /\ Dispatched(d)
      BY <2>6, <2>8, <2>12
    <3>2. CASE g = c
      BY <2>9, <3>1, <3>2
    <3>3. CASE g # c
      BY <2>4, <2>10, <2>12, <3>1, <3>3 DEF OrderAgrees
    <3> QED
      BY <3>2, <3>3
  <2>13. ASSUME NEW d \in Calls, NEW g \in Calls, Dispatched(d)', Dispatched(g)',
                NEW i \in DOMAIN history', NEW j \in DOMAIN history',
                Is(i, "output", d)', Is(j, "output", g)', i < j
         PROVE  d # g /\ Before(d, g)'
    <3>1. /\ i \in DOMAIN history /\ Is(i, "output", d) /\ d # c /\ Dispatched(d)
          /\ j \in DOMAIN history /\ Is(j, "output", g) /\ g # c /\ Dispatched(g)
      BY <2>6, <2>8, <2>13
    <3> QED
      BY <2>10, <2>13, <3>1 DEF OrderAgrees
  <2>14. \A a, b \in DOMAIN in_flight' : a < b => Before(in_flight[a], in_flight[b])'
    BY <2>11
  <2> QED
    BY <2>12, <2>13, <2>14 DEF OrderAgrees
<1>6. CASE DrainOne
  <2>0. PICK c \in Calls : c = Head(in_flight)
    BY <1>6, DrainExtends
  <2>1. UNCHANGED task /\ in_flight # <<>> /\ in_flight' = Tail(in_flight)
    BY <1>6 DEF DrainOne
  <2>2. /\ Flying(c) /\ in_flight[1] = c /\ 1 \in DOMAIN in_flight /\ Extends(c)
        /\ \A i \in DOMAIN history' : i \in DOMAIN history \/ history'[i].item = "output"
        /\ \A i, j \in DOMAIN history' : i \notin DOMAIN history => ~(i < j)
    BY <1>6, <2>0, DrainExtends
  <2>3. \A d \in Calls : Flying(d)' <=> Flying(d) /\ d # c
    BY <1>6, <2>0, DrainFlight
  <2>4. \A d \in Calls, i \in DOMAIN history' :
            /\ Is(i, "call", d)' => i \in DOMAIN history /\ Is(i, "call", d)
            /\ Is(i, "output", d)' => (i \in DOMAIN history /\ Is(i, "output", d)) \/ (i \notin DOMAIN history /\ d = c)
    BY <2>2 DEF Extends, Is
  <2>5. \A i \in DOMAIN history : ~Is(i, "output", c)
    BY <2>2 DEF FlightAgrees
  <2>6. \A d \in Calls : Dispatched(d)' <=> Dispatched(d)
    BY <2>1 DEF Dispatched
  <2>7. ASSUME NEW d \in Calls, NEW g \in Calls, Before(d, g) PROVE Before(d, g)'
    BY <2>4, <2>7 DEF Before, Is
  <2>8. /\ \A a \in DOMAIN Tail(in_flight) : a + 1 \in DOMAIN in_flight /\ Tail(in_flight)[a] = in_flight[a + 1] /\ 1 < a + 1
        /\ \A a, b \in DOMAIN Tail(in_flight) : a < b => a + 1 < b + 1
    BY <1>0, <2>1, TailShifts
  <2>9. \A a, b \in DOMAIN in_flight' : a < b => Before(in_flight[a], in_flight[b])'
    <3>1. SUFFICES ASSUME NEW a \in DOMAIN in_flight', NEW b \in DOMAIN in_flight', a < b
                   PROVE  Before(in_flight[a], in_flight[b])'
      OBVIOUS
    <3>2. PICK d \in Calls : d = in_flight[a + 1] /\ in_flight'[a] = d /\ a + 1 \in DOMAIN in_flight
      BY <1>0, <2>1, <2>8
    <3>3. PICK g \in Calls : g = in_flight[b + 1] /\ in_flight'[b] = g /\ b + 1 \in DOMAIN in_flight
      BY <1>0, <2>1, <2>8
    <3>4. a + 1 < b + 1
      BY <2>1, <2>8, <3>1
    <3>5. Before(d, g)
      BY <3>2, <3>3, <3>4 DEF OrderAgrees
    <3>6. Before(d, g)'
      BY <2>7, <3>5
    <3> QED
      BY <3>2, <3>3, <3>6 DEF Before, Is
  <2>10. ASSUME NEW g \in Calls, Flying(g)' PROVE Before(c, g)
    <3>1. PICK b \in DOMAIN in_flight' : in_flight'[b] = g
      BY <2>10 DEF Flying
    <3>2. b + 1 \in DOMAIN in_flight /\ g = in_flight[b + 1] /\ 1 < b + 1
      BY <2>1, <2>8, <3>1
    <3> QED
      BY <2>2, <3>2 DEF OrderAgrees
  <2>11. ASSUME NEW d \in Calls, NEW g \in Calls, Dispatched(d)', Flying(g)',
                NEW i \in DOMAIN history', Is(i, "output", d)'
         PROVE  Before(d, g)'
    <3>1. CASE d = c
      BY <2>7, <2>10, <2>11, <3>1
    <3>2. CASE d # c
      <4>1. Before(d, g)
        BY <2>3, <2>4, <2>6, <2>11, <3>2 DEF OrderAgrees
      <4> QED
        BY <2>7, <4>1
    <3> QED
      BY <3>1, <3>2
  <2>12. ASSUME NEW d \in Calls, NEW g \in Calls, Dispatched(d)', Dispatched(g)',
                NEW i \in DOMAIN history', NEW j \in DOMAIN history',
                Is(i, "output", d)', Is(j, "output", g)', i < j
         PROVE  d # g /\ Before(d, g)'
    <3>1. i \in DOMAIN history /\ Is(i, "output", d) /\ d # c /\ Dispatched(d) /\ Dispatched(g)
      BY <2>2, <2>4, <2>5, <2>6, <2>12
    <3>2. CASE j \in DOMAIN history
      <4>1. Is(j, "output", g)
        BY <2>4, <2>12, <3>2
      <4>2. d # g /\ Before(d, g)
        BY <2>12, <3>1, <3>2, <4>1 DEF OrderAgrees
      <4> QED
        BY <2>7, <4>2
    <3>3. CASE j \notin DOMAIN history
      <4>1. g = c
        BY <2>4, <2>12, <3>3
      <4>2. Before(d, g)
        BY <2>2, <3>1, <4>1 DEF OrderAgrees
      <4> QED
        BY <2>7, <3>1, <4>1, <4>2
    <3> QED
      BY <3>2, <3>3
  <2> QED
    BY <2>9, <2>11, <2>12 DEF OrderAgrees
<1> QED
  BY <1>1, <1>2, <1>3, <1>4, <1>5, <1>6, StepKinds

-----------------------------------------------------------------------------
LEMMA InitIInv == Init => IInv
<1> USE ToolCallsAssumption
<1> SUFFICES ASSUME Init PROVE IInv
  OBVIOUS
<1>0. DOMAIN history = {} /\ DOMAIN in_flight = {} /\ \A c \in Calls : DOMAIN told[c] = {}
  BY DEF Init
<1>1. Types
  BY DEF Init, Types, Phases, TaskStates, Results, Futures, Answers
<1>2. Untouched
  BY <1>0 DEF Init, Untouched, Flying
<1>3. FlightAgrees
  BY <1>0 DEF Init, FlightAgrees, Flying, Dispatched
<1>4. ResultsAgree
  BY DEF Init, ResultsAgree
<1>5. OutcomeAgrees
  BY <1>0 DEF Init, OutcomeAgrees, Terminal
<1>6. ToldAgrees
  BY <1>0 DEF Init, ToldAgrees
<1>7. OrderAgrees
  BY <1>0 DEF Init, OrderAgrees
<1> QED
  BY <1>1, <1>2, <1>3, <1>4, <1>5, <1>6, <1>7 DEF IInv

LEMMA StepIInv == IInv /\ [Next]_vars => IInv'
BY TypesStep, UntouchedStep, FlightStep, ResultsStep, OutcomeStep, ToldStep, OrderStep DEF IInv

(* Every reachable state satisfies the inductive invariant. *)
THEOREM IInvHolds == Spec => []IInv
BY InitIInv, StepIInv, PTL DEF Spec

(* When run_sampling_request has returned, no task of its calls runs and   *)
(* each call has its output or failed fatally: a call of the request that  *)
(* is not in flight is settled, and a request returns with none in flight. *)
THEOREM RequestLeavesNothingHolds == Spec => []RequestLeavesNothing
<1>1. IInv => RequestLeavesNothing
  <2>1. SUFFICES ASSUME IInv, phase = "idle", NEW c \in Calls, Dispatched(c), madeIn[c] = request
                 PROVE  Finished(c) /\ (HasOutput(history, c) \/ result[c] \in {"fatal", "panic"})
    BY DEF RequestLeavesNothing
  <2>2. Settled(c)
    BY <2>1 DEF IInv, FlightAgrees
  <2>3. ASSUME NEW i \in DOMAIN history, Is(i, "output", c) PROVE HasOutput(history, c)
    <3>1. history[i] \in Items
      BY <2>1, <2>3, ElementOfSeq, LenProperties DEF IInv, Types
    <3>2. history[i] = [item |-> "output", call |-> c, body |-> history[i].body]
      BY <2>3, <3>1 DEF Items, Is
    <3> QED
      BY <3>2 DEF HasOutput, Output
  <2> QED
    BY <2>2, <2>3 DEF Settled
<1> QED
  BY <1>1, IInvHolds, PTL

(* The swap on terminal_outcome_reached lets one of task and future report *)
(* the end of a call that waits for runtime cancellation, and the model is *)
(* told of an abort exactly when the lifecycle contributors are.           *)
THEOREM OutcomeToldOnceHolds == Spec => []OutcomeToldOnce
<1>1. IInv => OutcomeToldOnce
  <2> SUFFICES ASSUME IInv PROVE OutcomeToldOnce
    OBVIOUS
  <2>1. \A i \in DOMAIN history : history[i].call \in Calls
    <3>1. \A i \in DOMAIN history : history[i] \in Items
      BY ElementOfSeq, LenProperties DEF IInv, Types
    <3> QED
      BY <3>1 DEF Items
  <2>2. \A i \in DOMAIN history : history[i].item = "output" =>
            (history[i].body = "aborted" <=> "aborted" \in Range(told[history[i].call]))
    BY <2>1 DEF IInv, ToldAgrees, Range
  <2> QED
    BY <2>2 DEF OutcomeToldOnce, IInv, OutcomeAgrees
<1> QED
  BY <1>1, IInvHolds, PTL

(* drain_in_flight: outputs enter the history once and in call order.      *)
THEOREM OutputsInCallOrderHolds == Spec => []OutputsInCallOrder
<1>1. IInv => OutputsInCallOrder
  BY DEF IInv, OrderAgrees, OutputsInCallOrder, Before, Is
<1> QED
  BY <1>1, IInvHolds, PTL

-----------------------------------------------------------------------------
(* A non-empty set of naturals has a least element. *)
LEMMA LeastNat ==
    ASSUME NEW T, T \subseteq Nat, T # {}
    PROVE  \E x \in T : \A y \in T : x <= y
<1> DEFINE R == OpToRel(<, Nat)
<1>1. IsWellFoundedOn(R, Nat)
  BY NatLessThanWellFounded
<1>2. \A x, y \in Nat : x < y => <<x, y>> \in R
  BY DEF OpToRel
<1> HIDE DEF R
<1>3. PICK x \in T : \A y \in T : ~ (<<y, x>> \in R)
  BY <1>1, WFMin
<1>4. ASSUME NEW y \in T PROVE x <= y
  <2>1. x \in Nat /\ y \in Nat /\ ~(y < x)
    BY <1>2, <1>3
  <2> QED
    BY <2>1
<1> QED
  BY <1>4

(* The sequence ss flattened up to each place, as FlattenSeq computes it. *)
IsFlat(f, ss, n) == f = [i \in 1 .. n |-> IF i = 1 THEN ss[i] ELSE f[i - 1] \o ss[i]]

(* Of the lengths without one, the least would extend the one before it. *)
LEMMA FlatExists ==
    ASSUME NEW ss, NEW m \in Nat PROVE \E f : IsFlat(f, ss, m)
<1> DEFINE Bad == {n \in Nat : ~\E f : IsFlat(f, ss, n)}
<1>1. SUFFICES ASSUME Bad # {} PROVE FALSE
  OBVIOUS
<1>2. PICK n \in Bad : \A k \in Bad : n <= k
  BY <1>1, LeastNat
<1>3. CASE n = 0
  <2>1. 1 .. 0 = {}
    OBVIOUS
  <2>2. IsFlat([i \in 1 .. 0 |-> ss[i]], ss, 0)
    BY <2>1 DEF IsFlat
  <2> QED
    BY <1>2, <1>3, <2>2
<1>4. CASE n # 0
  <2>1. n - 1 \in Nat /\ n - 1 \notin Bad
    BY <1>2, <1>4
  <2>2. PICK f : IsFlat(f, ss, n - 1)
    BY <2>1
  <2> DEFINE last == IF n = 1 THEN ss[n] ELSE f[n - 1] \o ss[n]
             g == [k \in 1 .. n |-> IF k = n THEN last ELSE f[k]]
  <2>3. \A k \in 1 .. n : g[k] = IF k = n THEN last ELSE f[k]
    OBVIOUS
  <2>4. /\ \A k \in 1 .. n : k # 1 => k - 1 \in 1 .. n /\ k - 1 # n
        /\ \A k \in 1 .. n : k # n => k \in 1 .. (n - 1)
    BY <2>1
  <2>5. \A k \in 1 .. (n - 1) : f[k] = IF k = 1 THEN ss[k] ELSE f[k - 1] \o ss[k]
    BY <2>2 DEF IsFlat
  <2> HIDE DEF g
  <2>6. \A k \in 1 .. n : g[k] = IF k = 1 THEN ss[k] ELSE g[k - 1] \o ss[k]
    BY <1>4, <2>3, <2>4, <2>5
  <2>7. g = [k \in 1 .. n |-> g[k]]
    BY DEF g
  <2>8. IsFlat(g, ss, n)
    BY <2>6, <2>7 DEF IsFlat
  <2> QED
    BY <1>2, <2>8
<1> QED
  BY <1>3, <1>4

LEMMA FlattenIs ==
    ASSUME NEW S, NEW ss \in Seq(S), ss # <<>>
    PROVE  /\ Len(ss) \in Nat \ {0}
           /\ \E f : IsFlat(f, ss, Len(ss)) /\ FlattenSeq(ss) = f[Len(ss)]
<1>1. Len(ss) \in Nat \ {0}
  BY EmptySeq
<1> DEFINE f == CHOOSE g : IsFlat(g, ss, Len(ss))
<1>2. IsFlat(f, ss, Len(ss))
  BY <1>1, FlatExists
<1>3. FlattenSeq(ss) = f[Len(ss)]
  BY <1>1 DEF FlattenSeq, IsFlat
<1> QED
  BY <1>1, <1>2, <1>3

-----------------------------------------------------------------------------
(* The calls with an item of a kind in h, and in its first n items. *)
Of(h, kind) == {h[i].call : i \in {j \in DOMAIN h : h[j].item = kind}}
Upto(h, n, kind) == {h[i].call : i \in {j \in 1 .. n : h[j].item = kind}}

(* Each call and each output is there once, an output behind its call. *)
Coherent(h) ==
    /\ h \in Seq(Items)
    /\ \A i \in DOMAIN h : h[i].item = "call" => h[i] = Call(h[i].call)
    /\ \A i, j \in DOMAIN h :
          h[i].item = h[j].item /\ h[i].item # "note" /\ h[i].call = h[j].call => i = j
    /\ \A j \in DOMAIN h : h[j].item = "output" =>
          \E i \in DOMAIN h : i < j /\ h[i].item = "call" /\ h[i].call = h[j].call

(* An item that may come next: a note, a new call, the output of a call. *)
Fits(h, x) ==
    \/ x.item = "note"
    \/ x.item = "call" /\ x = Call(x.call) /\ x.call \notin Of(h, "call")
    \/ x.item = "output" /\ x.call \in Of(h, "call") /\ x.call \notin Of(h, "output")

LEMMA OfEmpty == Coherent(<<>>) /\ \A k : Of(<<>>, k) = {}
<1>1. DOMAIN <<>> = {} /\ <<>> \in Seq(Items)
  OBVIOUS
<1>2. \A k : Of(<<>>, k) = {}
  BY <1>1 DEF Of
<1>3. Coherent(<<>>)
  BY <1>1 DEF Coherent
<1> QED
  BY <1>2, <1>3

LEMMA OutputOfCall ==
    ASSUME NEW h, Coherent(h) PROVE Of(h, "output") \subseteq Of(h, "call")
BY DEF Coherent, Of

LEMMA CoherentGrows ==
    ASSUME NEW h, Coherent(h), NEW x \in Items, Fits(h, x)
    PROVE  /\ Coherent(Append(h, x))
           /\ \A k : Of(Append(h, x), k) = Of(h, k) \cup (IF x.item = k THEN {x.call} ELSE {})
<1> DEFINE t == Append(h, x)
<1>1. PICK e : t \in Seq(Items) /\ GrownBy(h, t, x, e)
  BY AppendGrows DEF Coherent
<1>2. Of(h, "output") \subseteq Of(h, "call")
  BY OutputOfCall
<1> HIDE DEF t
<1>3. ASSUME NEW k PROVE Of(t, k) = Of(h, k) \cup (IF x.item = k THEN {x.call} ELSE {})
  BY <1>1 DEF Of, GrownBy
<1>4. \A i \in DOMAIN t : t[i].item = "call" => t[i] = Call(t[i].call)
  BY <1>1 DEF GrownBy, Fits, Coherent
<1>5. ASSUME NEW i \in DOMAIN t, NEW j \in DOMAIN t, t[i].item = t[j].item, t[i].item # "note",
             t[i].call = t[j].call
      PROVE  i = j
  <2>1. \A y \in DOMAIN h : ~(h[y].item = x.item /\ h[y].call = x.call /\ x.item # "note")
    BY DEF Fits, Of
  <2> QED
    BY <1>1, <1>5, <2>1 DEF GrownBy, Coherent
<1>6. ASSUME NEW j \in DOMAIN t, t[j].item = "output"
      PROVE  \E i \in DOMAIN t : i < j /\ t[i].item = "call" /\ t[i].call = t[j].call
  <2>1. CASE j \in DOMAIN h
    <3>1. PICK i \in DOMAIN h : i < j /\ h[i].item = "call" /\ h[i].call = h[j].call
      BY <1>1, <1>6, <2>1 DEF GrownBy, Coherent
    <3> QED
      BY <1>1, <2>1, <3>1 DEF GrownBy
  <2>2. CASE j = e
    <3>1. PICK i \in DOMAIN h : h[i].item = "call" /\ h[i].call = x.call
      BY <1>1, <1>6, <2>2 DEF GrownBy, Fits, Of
    <3> QED
      BY <1>1, <2>2, <3>1 DEF GrownBy
  <2> QED
    BY <1>1, <2>1, <2>2 DEF GrownBy
<1>7. Coherent(t)
  BY <1>1, <1>4, <1>5, <1>6 DEF Coherent
<1> QED
  BY <1>3, <1>7 DEF t

(* What HasOutput and HasCall look for. *)
LEMMA HasIs ==
    ASSUME NEW h, Coherent(h), NEW c \in Calls
    PROVE  (HasOutput(h, c) <=> c \in Of(h, "output")) /\ (HasCall(h, c) <=> c \in Of(h, "call"))
<1>1. \A i \in DOMAIN h : h[i] \in Items
  BY ElementOfSeq, LenProperties DEF Coherent
<1>2. ASSUME NEW i \in DOMAIN h
      PROVE  h[i].item = "output" /\ h[i].call = c <=> h[i] = Output(c, h[i].body)
  <2>1. h[i] \in Items
    BY <1>1
  <2>2. h[i] = [item |-> h[i].item, call |-> h[i].call, body |-> h[i].body]
    BY <2>1 DEF Items
  <2> QED
    BY <2>2 DEF Output
<1>3. ASSUME NEW i \in DOMAIN h PROVE h[i].item = "call" /\ h[i].call = c <=> h[i] = Call(c)
  BY DEF Coherent, Call
<1>4. HasOutput(h, c) <=> c \in Of(h, "output")
  BY <1>2 DEF HasOutput, Of
<1>5. HasCall(h, c) <=> c \in Of(h, "call")
  BY <1>3 DEF HasCall, Of
<1> QED
  BY <1>4, <1>5

-----------------------------------------------------------------------------
(* What ensure_call_outputs_present has made of the first n items of h. *)
Made(h, s, n) ==
    /\ Coherent(s)
    /\ Of(s, "call") = Upto(h, n, "call")
    /\ Of(s, "output") = Upto(h, n, "output") \cup (Upto(h, n, "call") \ Of(h, "output"))

Part(h, i) ==
    IF h[i].item = "call" /\ ~HasOutput(h, h[i].call)
    THEN <<h[i], Output(h[i].call, "aborted")>>
    ELSE <<h[i]>>

LEMMA UptoNext ==
    ASSUME NEW h, NEW n \in Nat \ {0}
    PROVE  \A k : Upto(h, n, k) = Upto(h, n - 1, k) \cup (IF h[n].item = k THEN {h[n].call} ELSE {})
<1>1. 1 .. n = (1 .. (n - 1)) \cup {n}
  OBVIOUS
<1> QED
  BY <1>1 DEF Upto

LEMMA MadeNext ==
    ASSUME NEW h, Coherent(h), NEW n \in 1 .. Len(h), NEW s, Made(h, s, n - 1)
    PROVE  Made(h, s \o Part(h, n), n)
<1>0. h \in Seq(Items) /\ Len(h) \in Nat /\ DOMAIN h = 1 .. Len(h) /\ n \in Nat \ {0} /\ n \in DOMAIN h
  BY LenProperties DEF Coherent
<1> DEFINE x == h[n]
           y == Output(x.call, "aborted")
<1>1. x \in Items /\ x.call \in Calls /\ x.item \in {"call", "output", "note"}
  <2>1. x \in Items
    BY <1>0, ElementOfSeq
  <2> HIDE DEF x
  <2> QED
    BY <2>1 DEF Items
<1>2. y \in Items /\ y.item = "output" /\ y.call = x.call
  BY <1>1, ItemTypes DEF Answers
<1>3. HasOutput(h, x.call) <=> x.call \in Of(h, "output")
  BY <1>1, HasIs
<1>4. \A k : Upto(h, n, k) = Upto(h, n - 1, k) \cup (IF x.item = k THEN {x.call} ELSE {})
  BY <1>0, UptoNext
<1>5. \A k : Upto(h, n, k) \subseteq Of(h, k) /\ Upto(h, n - 1, k) \subseteq Of(h, k)
  BY <1>0 DEF Upto, Of
<1>6. x.item # "note" => x.call \notin Upto(h, n - 1, x.item)
  <2>1. ASSUME NEW i \in 1 .. (n - 1), h[i].item = x.item, x.item # "note", h[i].call = x.call PROVE FALSE
    <3>1. i \in DOMAIN h /\ i # n
      BY <1>0
    <3> QED
      BY <1>0, <2>1, <3>1 DEF Coherent
  <2> QED
    BY <2>1 DEF Upto
<1>7. x.item = "output" => x.call \in Upto(h, n - 1, "call")
  <2>1. ASSUME x.item = "output" PROVE \E i \in 1 .. (n - 1) : h[i].item = "call" /\ h[i].call = x.call
    <3>1. PICK i \in DOMAIN h : i < n /\ h[i].item = "call" /\ h[i].call = x.call
      BY <1>0, <2>1 DEF Coherent
    <3>2. i \in 1 .. (n - 1)
      BY <1>0, <3>1
    <3> QED
      BY <3>1, <3>2
  <2> QED
    BY <2>1 DEF Upto
<1>8. x.item = "call" => x = Call(x.call)
  BY <1>0 DEF Coherent
<1>9. x.item = "output" => x.call \in Of(h, "output")
  BY <1>0 DEF Of
<1> DEFINE t == Append(s, x)
           u == Append(t, y)
<1>10. s \in Seq(Items)
  BY DEF Made, Coherent
<1>11. /\ s \o <<x>> = t
       /\ s \o <<x, y>> = u
  BY <1>1, <1>2, <1>10, TwoBehind, AppendIsConcat
<1>12. Part(h, n) = IF x.item = "call" /\ x.call \notin Of(h, "output") THEN <<x, y>> ELSE <<x>>
  BY <1>3 DEF Part
<1> HIDE DEF x, y
<1>13. Fits(s, x)
  BY <1>1, <1>5, <1>6, <1>7, <1>8, <1>9 DEF Made, Fits
<1>14. /\ Coherent(t)
       /\ \A k : Of(t, k) = Of(s, k) \cup (IF x.item = k THEN {x.call} ELSE {})
  BY <1>1, <1>13, CoherentGrows DEF Made
<1> HIDE DEF t
<1>15. CASE x.item = "call" /\ x.call \notin Of(h, "output")
  <2>1. x.call \in Of(t, "call") /\ x.call \notin Of(t, "output")
    BY <1>5, <1>6, <1>14, <1>15 DEF Made
  <2>2. Fits(t, y)
    BY <1>2, <2>1 DEF Fits
  <2>3. /\ Coherent(u)
        /\ \A k : Of(u, k) = Of(t, k) \cup (IF y.item = k THEN {y.call} ELSE {})
    BY <1>2, <1>14, <2>2, CoherentGrows
  <2> HIDE DEF u
  <2>4. Of(u, "call") = Of(s, "call") \cup {x.call} /\ Of(u, "output") = Of(s, "output") \cup {x.call}
    BY <1>2, <1>14, <1>15, <2>3
  <2>5. Upto(h, n, "call") = Upto(h, n - 1, "call") \cup {x.call} /\ Upto(h, n, "output") = Upto(h, n - 1, "output")
    BY <1>4, <1>15
  <2>6. Made(h, u, n)
    BY <1>15, <2>3, <2>4, <2>5 DEF Made
  <2> QED
    BY <1>11, <1>12, <1>15, <2>6
<1>16. CASE ~(x.item = "call" /\ x.call \notin Of(h, "output"))
  <2>1. CASE x.item = "call"
    <3>1. x.call \in Of(h, "output") /\ Of(t, "call") = Of(s, "call") \cup {x.call} /\ Of(t, "output") = Of(s, "output")
      BY <1>14, <1>16, <2>1
    <3>2. Upto(h, n, "call") = Upto(h, n - 1, "call") \cup {x.call} /\ Upto(h, n, "output") = Upto(h, n - 1, "output")
      BY <1>4, <2>1
    <3>3. Made(h, t, n)
      BY <1>14, <3>1, <3>2 DEF Made
    <3> QED
      BY <1>11, <1>12, <1>16, <3>3
  <2>2. CASE x.item = "output"
    <3>1. Of(t, "call") = Of(s, "call") /\ Of(t, "output") = Of(s, "output") \cup {x.call}
      BY <1>14, <2>2
    <3>2. Upto(h, n, "call") = Upto(h, n - 1, "call") /\ Upto(h, n, "output") = Upto(h, n - 1, "output") \cup {x.call}
      BY <1>4, <2>2
    <3>3. Made(h, t, n)
      BY <1>9, <1>14, <2>2, <3>1, <3>2 DEF Made
    <3> QED
      BY <1>11, <1>12, <1>16, <3>3
  <2>3. CASE x.item = "note"
    <3>1. Made(h, t, n)
      BY <1>4, <1>14, <2>3 DEF Made
    <3> QED
      BY <1>11, <1>12, <1>16, <3>1
  <2> QED
    BY <1>1, <2>1, <2>2, <2>3
<1> QED
  BY <1>15, <1>16

(* A prompt: coherent, and every call has its output. *)
Complete(h) == Coherent(h) /\ Of(h, "call") \subseteq Of(h, "output")

LEMMA EnsuredIsComplete ==
    ASSUME NEW h, Coherent(h) PROVE Complete(EnsureCallOutputsPresent(h))
<1>0. h \in Seq(Items) /\ Len(h) \in Nat /\ DOMAIN h = 1 .. Len(h)
  BY LenProperties DEF Coherent
<1> DEFINE ss == [i \in DOMAIN h |-> Part(h, i)]
<1>1. EnsureCallOutputsPresent(h) = FlattenSeq(ss)
  BY DEF EnsureCallOutputsPresent, Part
<1>2. ss \in Seq({Part(h, i) : i \in DOMAIN h}) /\ Len(ss) = Len(h)
  BY <1>0
<1>3. \A i \in 1 .. Len(h) : ss[i] = Part(h, i)
  BY <1>0
<1>4. CASE h = <<>>
  <2>1. FlattenSeq(ss) = <<>>
    <3>1. Len(ss) = 0
      BY <1>2, <1>4
    <3>2. ss = <<>>
      BY <1>2, <3>1, EmptySeq
    <3> QED
      BY <3>1, <3>2 DEF FlattenSeq
  <2> QED
    BY <1>1, <2>1, OfEmpty DEF Complete
<1>5. CASE h # <<>>
  <2>0. Len(h) \in Nat \ {0}
    BY <1>0, <1>5, EmptySeq
  <2>1. ss # <<>>
    BY <1>2, <2>0
  <2> HIDE DEF ss
  <2>2. PICK f : IsFlat(f, ss, Len(h)) /\ FlattenSeq(ss) = f[Len(h)]
    BY <1>2, <2>1, FlattenIs
  <2>3. \A i \in 1 .. Len(h) : f[i] = IF i = 1 THEN ss[i] ELSE f[i - 1] \o ss[i]
    BY <2>2 DEF IsFlat
  <2> DEFINE Bad == {n \in 1 .. Len(h) : ~Made(h, f[n], n)}
  <2>4. ASSUME Bad # {} PROVE FALSE
    <3>1. PICK n \in Bad : \A k \in Bad : n <= k
      <4>1. Bad \subseteq Nat
        BY <1>0
      <4> HIDE DEF Bad
      <4> QED
        BY <2>4, <4>1, LeastNat
    <3>2. CASE n = 1
      <4>1. Made(h, <<>>, 0)
        <5>1. 1 .. 0 = {}
          OBVIOUS
        <5>2. \A k : Upto(h, 0, k) = {}
          BY <5>1 DEF Upto
        <5> QED
          BY <5>2, OfEmpty DEF Made
      <4>2. 1 \in 1 .. Len(h) /\ 1 - 1 = 0
        BY <2>0
      <4>3. Made(h, <<>> \o Part(h, 1), 1)
        BY <4>1, <4>2, MadeNext
      <4>4. <<>> \o Part(h, 1) = Part(h, 1)
        <5>1. Part(h, 1) = <<h[1], Output(h[1].call, "aborted")>> \/ Part(h, 1) = <<h[1]>>
          BY DEF Part
        <5> QED
          BY <5>1
      <4> QED
        BY <1>3, <2>3, <3>1, <3>2, <4>2, <4>3, <4>4
    <3>3. CASE n # 1
      <4>1. n \in 1 .. Len(h) /\ n - 1 \in 1 .. Len(h) /\ ~(n <= n - 1)
        BY <1>0, <3>1, <3>3
      <4>2. Made(h, f[n - 1], n - 1)
        BY <3>1, <4>1
      <4>3. Made(h, f[n - 1] \o Part(h, n), n)
        BY <4>1, <4>2, MadeNext
      <4> QED
        BY <1>3, <2>3, <3>1, <3>3, <4>1, <4>3
    <3> QED
      BY <3>2, <3>3
  <2>5. Made(h, f[Len(h)], Len(h))
    BY <2>0, <2>4
  <2>6. \A k : Upto(h, Len(h), k) = Of(h, k)
    BY <1>0 DEF Upto, Of
  <2> QED
    BY <1>1, <2>2, <2>5, <2>6 DEF Made, Complete
<1> QED
  BY <1>4, <1>5

(* remove_orphan_outputs finds none in a coherent history. *)
LEMMA NoOrphanRemoved ==
    ASSUME NEW h, Coherent(h) PROVE RemoveOrphanOutputs(h) = h
<1>0. h \in Seq(Items) /\ Len(h) \in Nat /\ DOMAIN h = 1 .. Len(h)
  BY LenProperties DEF Coherent
<1>1. ASSUME NEW i \in DOMAIN h, h[i].item = "output" PROVE HasCall(h, h[i].call)
  <2>1. h[i] \in Items
    BY <1>0, ElementOfSeq
  <2>2. h[i].call \in Calls
    BY <2>1 DEF Items
  <2>3. h[i].call \in Of(h, "output")
    BY <1>1 DEF Of
  <2> QED
    BY <2>2, <2>3, HasIs, OutputOfCall
<1> DEFINE ss == [i \in DOMAIN h |-> <<h[i]>>]
<1>2. RemoveOrphanOutputs(h) = FlattenSeq(ss)
  BY <1>1 DEF RemoveOrphanOutputs
<1>3. ss \in Seq({<<h[i]>> : i \in DOMAIN h}) /\ Len(ss) = Len(h)
  BY <1>0
<1>4. \A i \in 1 .. Len(h) : ss[i] = <<h[i]>>
  BY <1>0
<1>5. CASE h = <<>>
  <2>1. Len(ss) = 0
    BY <1>3, <1>5
  <2>2. ss = <<>>
    BY <1>3, <2>1, EmptySeq
  <2> QED
    BY <1>2, <1>5, <2>1, <2>2 DEF FlattenSeq
<1>6. CASE h # <<>>
  <2>0. Len(h) \in Nat \ {0}
    BY <1>0, <1>6, EmptySeq
  <2>1. ss # <<>>
    BY <1>3, <2>0
  <2> HIDE DEF ss
  <2>2. PICK f : IsFlat(f, ss, Len(h)) /\ FlattenSeq(ss) = f[Len(h)]
    BY <1>3, <2>1, FlattenIs
  <2>3. \A i \in 1 .. Len(h) : f[i] = IF i = 1 THEN <<h[i]>> ELSE f[i - 1] \o <<h[i]>>
    BY <1>4, <2>2 DEF IsFlat
  <2> DEFINE Same(s, n) == s \in Seq(Items) /\ Len(s) = n /\ \A i \in 1 .. n : s[i] = h[i]
             Bad == {n \in 1 .. Len(h) : ~Same(f[n], n)}
  <2>4. ASSUME Bad # {} PROVE FALSE
    <3>1. PICK n \in Bad : \A k \in Bad : n <= k
      <4>1. Bad \subseteq Nat
        BY <1>0
      <4> HIDE DEF Bad
      <4> QED
        BY <2>4, <4>1, LeastNat
    <3>2. n \in 1 .. Len(h) /\ n \in Nat /\ h[n] \in Items
      BY <1>0, ElementOfSeq
    <3>3. CASE n = 1
      <4>1. f[1] = <<h[1]>>
        BY <2>3, <3>2, <3>3
      <4>2. Same(f[1], 1)
        BY <3>2, <3>3, <4>1
      <4> QED
        BY <3>1, <3>3, <4>2
    <3>4. CASE n # 1
      <4>1. n - 1 \in 1 .. Len(h) /\ ~(n <= n - 1) /\ n - 1 \in Nat
        BY <3>2, <3>4
      <4>2. Same(f[n - 1], n - 1)
        BY <3>1, <4>1
      <4>3. PICK s : s = f[n - 1]
        OBVIOUS
      <4>4. s \in Seq(Items) /\ Len(s) = n - 1 /\ \A i \in 1 .. (n - 1) : s[i] = h[i]
        BY <4>2, <4>3
      <4>5. PICK x \in Items : x = h[n]
        BY <3>2
      <4>6. f[n] = Append(s, x)
        <5>1. f[n] = s \o <<x>>
          BY <2>3, <3>2, <3>4, <4>3, <4>5
        <5> QED
          BY <4>4, <5>1, AppendIsConcat
      <4>7. /\ Append(s, x) \in Seq(Items) /\ Len(Append(s, x)) = (n - 1) + 1
            /\ \A i \in 1 .. (n - 1) : Append(s, x)[i] = s[i]
            /\ Append(s, x)[(n - 1) + 1] = x
        BY <4>4, AppendProperties
      <4>8. (n - 1) + 1 = n /\ \A i \in 1 .. n : i \in 1 .. (n - 1) \/ i = n
        BY <3>2
      <4>9. Same(f[n], n)
        BY <4>4, <4>5, <4>6, <4>7, <4>8
      <4> QED
        BY <3>1, <4>9
    <3> QED
      BY <3>3, <3>4
  <2>5. Same(f[Len(h)], Len(h))
    BY <2>0, <2>4
  <2>6. f[Len(h)] = h
    BY <1>0, <2>5, SeqEqual
  <2> QED
    BY <1>2, <2>2, <2>6
<1> QED
  BY <1>5, <1>6

LEMMA CompleteIsPaired == ASSUME NEW h, Complete(h) PROVE Paired(h)
<1>0. Coherent(h) /\ h \in Seq(Items) /\ DOMAIN h = 1 .. Len(h) /\ Len(h) \in Nat
  BY LenProperties DEF Complete, Coherent
<1>1. ASSUME NEW i \in DOMAIN h, h[i].item = "call"
      PROVE  LET outs == {j \in DOMAIN h : h[j].item = "output" /\ h[j].call = h[i].call}
             IN  Cardinality(outs) = 1 /\ \A j \in outs : i < j
  <2> DEFINE outs == {j \in DOMAIN h : h[j].item = "output" /\ h[j].call = h[i].call}
  <2>1. h[i].call \in Of(h, "output")
    BY <1>1 DEF Complete, Of
  <2>2. PICK k \in DOMAIN h : h[k].item = "output" /\ h[k].call = h[i].call
    BY <2>1 DEF Of
  <2>3. \A j \in DOMAIN h : h[j].item = "output" /\ h[j].call = h[i].call => j = k
    BY <1>0, <2>2 DEF Coherent
  <2>4. outs = {k}
    BY <2>2, <2>3
  <2>5. PICK p \in DOMAIN h : p < k /\ h[p].item = "call" /\ h[p].call = h[k].call
    BY <1>0, <2>2 DEF Coherent
  <2>6. p = i
    BY <1>0, <1>1, <2>2, <2>5 DEF Coherent
  <2> HIDE DEF outs
  <2>7. Cardinality(outs) = 1
    BY <2>4, FS_Singleton
  <2>8. \A j \in outs : i < j
    BY <2>4, <2>5, <2>6
  <2> QED
    BY <2>7, <2>8 DEF outs
<1>2. ASSUME NEW j \in DOMAIN h, h[j].item = "output" PROVE HasCall(h, h[j].call)
  <2>1. h[j] \in Items
    BY <1>0, ElementOfSeq
  <2>2. h[j].call \in Calls
    BY <2>1 DEF Items
  <2>3. h[j].call \in Of(h, "output")
    BY <1>2 DEF Of
  <2> QED
    BY <1>0, <2>2, <2>3, HasIs, OutputOfCall
<1> QED
  BY <1>1, <1>2 DEF Paired

(* The sequence r is h without some notes and without both halves of the   *)
(* pairs of the calls in D; m says where its items come from.              *)
Thinned(h, r, m, D) ==
    /\ r \in Seq(Items)
    /\ \A j \in DOMAIN r : m[j] \in DOMAIN h /\ r[j] = h[m[j]]
    /\ \A j, k \in DOMAIN r : (m[j] < m[k] => j < k) /\ (m[j] = m[k] => j = k)
    /\ \A p \in DOMAIN h : h[p].item = "note" \/ h[p].call \in D \/ \E j \in DOMAIN r : m[j] = p
    /\ \A j \in DOMAIN r : r[j].item = "note" \/ r[j].call \notin D

LEMMA ThinnedIsComplete ==
    ASSUME NEW h, Complete(h), NEW r, NEW m, NEW D, Thinned(h, r, m, D)
    PROVE  Complete(r)
<1>0. Coherent(h) /\ r \in Seq(Items)
  BY DEF Complete, Thinned
<1>1. \A i \in DOMAIN r : r[i].item = "call" => r[i] = Call(r[i].call)
  BY <1>0 DEF Thinned, Coherent
<1>2. \A i, j \in DOMAIN r :
          r[i].item = r[j].item /\ r[i].item # "note" /\ r[i].call = r[j].call => i = j
  BY <1>0 DEF Thinned, Coherent
<1>3. ASSUME NEW j \in DOMAIN r, r[j].item = "output"
      PROVE  \E i \in DOMAIN r : i < j /\ r[i].item = "call" /\ r[i].call = r[j].call
  <2>1. m[j] \in DOMAIN h /\ r[j] = h[m[j]] /\ r[j].call \notin D
    BY <1>3 DEF Thinned
  <2>2. PICK p \in DOMAIN h : p < m[j] /\ h[p].item = "call" /\ h[p].call = h[m[j]].call
    BY <1>0, <1>3, <2>1 DEF Coherent
  <2>3. PICK i \in DOMAIN r : m[i] = p
    BY <2>1, <2>2 DEF Thinned
  <2>4. i < j /\ r[i] = h[p]
    BY <2>2, <2>3 DEF Thinned
  <2> QED
    BY <2>1, <2>2, <2>4
<1>4. Coherent(r)
  BY <1>0, <1>1, <1>2, <1>3 DEF Coherent
<1>5. ASSUME NEW i \in DOMAIN r, r[i].item = "call"
      PROVE  \E j \in DOMAIN r : r[j].item = "output" /\ r[j].call = r[i].call
  <2>1. m[i] \in DOMAIN h /\ r[i] = h[m[i]] /\ r[i].call \notin D
    BY <1>5 DEF Thinned
  <2>2. r[i].call \in Of(h, "output")
    BY <1>5, <2>1 DEF Complete, Of
  <2>3. PICK p \in DOMAIN h : h[p].item = "output" /\ h[p].call = r[i].call
    BY <2>2 DEF Of
  <2>4. PICK j \in DOMAIN r : m[j] = p
    BY <2>1, <2>3 DEF Thinned
  <2> QED
    BY <2>3, <2>4 DEF Thinned
<1>6. Of(r, "call") \subseteq Of(r, "output")
  BY <1>5 DEF Of
<1> QED
  BY <1>4, <1>6 DEF Complete

LEMMA RemovedAt ==
    ASSUME NEW S, NEW t \in Seq(S), NEW k \in 1 .. Len(t)
    PROVE  /\ RemoveAt(t, k) \in Seq(S) /\ Len(RemoveAt(t, k)) = Len(t) - 1
           /\ \A j \in 1 .. (Len(t) - 1) : RemoveAt(t, k)[j] = IF j < k THEN t[j] ELSE t[j + 1]
<1>0. Len(t) \in Nat /\ k \in Nat \ {0} /\ k <= Len(t) /\ \A i \in 1 .. Len(t) : t[i] \in S
  BY LenProperties, ElementOfSeq
<1> DEFINE n == Len(t)
           a == SubSeq(t, 1, k - 1)
           b == SubSeq(t, k + 1, n)
<1>1. a \in Seq(S) /\ Len(a) = k - 1 /\ \A i \in 1 .. (k - 1) : a[i] = t[i]
  <2>1. \A i \in 1 .. (k - 1) : t[i] \in S
    BY <1>0
  <2>2. 1 \in Int /\ k - 1 \in Int
    BY <1>0
  <2>3. /\ a \in Seq(S) /\ Len(a) = IF 1 <= k - 1 THEN (k - 1) - 1 + 1 ELSE 0
        /\ \A i \in 1 .. ((k - 1) - 1 + 1) : a[i] = t[1 + i - 1]
    BY <2>1, <2>2, SubSeqProperties
  <2>4. (k - 1) - 1 + 1 = k - 1 /\ (~(1 <= k - 1) => k - 1 = 0)
    BY <1>0
  <2>5. \A i \in 1 .. (k - 1) : 1 + i - 1 = i
    BY <1>0
  <2> HIDE DEF a
  <2> QED
    BY <2>3, <2>4, <2>5
<1>2. b \in Seq(S) /\ Len(b) = n - k /\ \A i \in 1 .. (n - k) : b[i] = t[k + i]
  <2>1. \A i \in (k + 1) .. n : t[i] \in S
    BY <1>0
  <2>2. k + 1 \in Int /\ n \in Int
    BY <1>0
  <2>3. /\ b \in Seq(S) /\ Len(b) = IF k + 1 <= n THEN n - (k + 1) + 1 ELSE 0
        /\ \A i \in 1 .. (n - (k + 1) + 1) : b[i] = t[(k + 1) + i - 1]
    BY <2>1, <2>2, SubSeqProperties
  <2>4. n - (k + 1) + 1 = n - k /\ (~(k + 1 <= n) => n - k = 0)
    BY <1>0
  <2>5. \A i \in 1 .. (n - k) : (k + 1) + i - 1 = k + i
    BY <1>0
  <2> HIDE DEF b
  <2> QED
    BY <2>3, <2>4, <2>5
<1>3. RemoveAt(t, k) = a \o b
  BY DEF RemoveAt
<1> HIDE DEF a, b
<1>4. /\ a \o b \in Seq(S) /\ Len(a \o b) = (k - 1) + (n - k)
      /\ \A i \in 1 .. ((k - 1) + (n - k)) : (a \o b)[i] = IF i <= k - 1 THEN a[i] ELSE b[i - (k - 1)]
  <2>1. /\ a \o b \in Seq(S) /\ Len(a \o b) = Len(a) + Len(b)
        /\ \A i \in 1 .. (Len(a) + Len(b)) : (a \o b)[i] = IF i <= Len(a) THEN a[i] ELSE b[i - Len(a)]
    BY <1>1, <1>2, ConcatProperties
  <2>2. Len(a) = k - 1 /\ Len(b) = n - k
    BY <1>1, <1>2
  <2> HIDE DEF n
  <2> QED
    BY <2>1, <2>2
<1>5. (k - 1) + (n - k) = n - 1
  BY <1>0
<1>6. ASSUME NEW j \in 1 .. (n - 1) PROVE (a \o b)[j] = IF j < k THEN t[j] ELSE t[j + 1]
  <2>1. CASE j < k
    <3>1. j <= k - 1 /\ j \in 1 .. (k - 1)
      BY <1>0, <2>1
    <3> QED
      BY <1>1, <1>4, <1>5, <2>1, <3>1
  <2>2. CASE ~(j < k)
    <3>1. ~(j <= k - 1) /\ j - (k - 1) \in 1 .. (n - k) /\ k + (j - (k - 1)) = j + 1
      BY <1>0, <2>2
    <3> QED
      BY <1>2, <1>4, <1>5, <2>2, <3>1
  <2> QED
    BY <2>1, <2>2
<1> QED
  BY <1>3, <1>4, <1>5, <1>6

(* remove_first_item takes a note, or a call with its only output: an      *)
(* output is never first.                                                  *)
LEMMA FirstRemoved == ASSUME NEW h, Complete(h) PROVE Complete(RemoveFirstItem(h))
<1>0. Coherent(h) /\ h \in Seq(Items) /\ DOMAIN h = 1 .. Len(h) /\ Len(h) \in Nat
  BY LenProperties DEF Complete, Coherent
<1>1. CASE h = <<>>
  BY <1>1 DEF RemoveFirstItem
<1>2. CASE h # <<>>
  <2> DEFINE n == Len(h)
             t == Tail(h)
             c == Head(h).call
  <2>1. n \in Nat \ {0} /\ 1 \in DOMAIN h /\ Head(h) = h[1] /\ h[1] \in Items
    BY <1>0, <1>2, EmptySeq, ElementOfSeq
  <2>2. t \in Seq(Items) /\ Len(t) = n - 1 /\ \A i \in 1 .. (n - 1) : t[i] = h[i + 1]
    BY <1>0, <1>2, HeadTailProperties
  <2>3. DOMAIN t = 1 .. (n - 1)
    BY <2>2, LenProperties
  <2>4. h[1].item \in {"call", "output", "note"}
    BY <2>1 DEF Items
  <2>5. h[1].item # "output"
    <3>1. ASSUME h[1].item = "output" PROVE FALSE
      <4>1. PICK i \in DOMAIN h : i < 1
        BY <1>0, <2>1, <3>1 DEF Coherent
      <4> QED
        BY <1>0, <4>1
    <3> QED
      BY <3>1
  <2> HIDE DEF n, t
  <2>6. CASE h[1].item = "note"
    <3>1. RemoveFirstItem(h) = t
      BY <1>2, <2>1, <2>6 DEF RemoveFirstItem, t
    <3> DEFINE m == [j \in 1 .. (n - 1) |-> j + 1]
    <3>2. \A j \in 1 .. (n - 1) : m[j] = j + 1 /\ m[j] \in DOMAIN h
      BY <1>0, <2>1 DEF n
    <3> HIDE DEF m
    <3>3. \A j, k \in DOMAIN t : (m[j] < m[k] => j < k) /\ (m[j] = m[k] => j = k)
      BY <2>1, <2>3, <3>2
    <3>4. ASSUME NEW p \in DOMAIN h PROVE p = 1 \/ \E j \in DOMAIN t : m[j] = p
      <4>1. p # 1 => p - 1 \in 1 .. (n - 1) /\ (p - 1) + 1 = p
        BY <1>0, <2>1 DEF n
      <4> QED
        BY <2>3, <3>2, <4>1
    <3>5. Thinned(h, t, m, {})
      BY <2>2, <2>3, <2>6, <3>2, <3>3, <3>4 DEF Thinned
    <3> QED
      BY <3>1, <3>5, ThinnedIsComplete
  <2>7. CASE h[1].item = "call"
    <3>1. RemoveFirstItem(h) = RemoveFirstMatching(t, "output", c)
      BY <1>2, <2>1, <2>7 DEF RemoveFirstItem, t
    <3> HIDE DEF c
    <3>2. c = h[1].call
      BY <2>1 DEF c
    <3>3. c \in Of(h, "output")
      BY <2>1, <2>7, <3>2 DEF Complete, Of
    <3>4. PICK q \in DOMAIN h : h[q].item = "output" /\ h[q].call = c
      BY <3>3 DEF Of
    <3>5. q # 1 /\ \A p \in DOMAIN h : h[p].item = "output" /\ h[p].call = c => p = q
      BY <1>0, <2>7, <3>4 DEF Coherent
    <3>6. \A p \in DOMAIN h : h[p].item = "call" /\ h[p].call = c => p = 1
      BY <1>0, <2>1, <2>7, <3>2 DEF Coherent
    <3>7. PICK k \in 1 .. (n - 1) : k + 1 = q
      <4>1. q - 1 \in 1 .. (n - 1) /\ (q - 1) + 1 = q
        BY <1>0, <2>1, <3>5 DEF n
      <4> QED
        BY <4>1
    <3>8. {i \in DOMAIN t : t[i].item = "output" /\ t[i].call = c} = {k}
      <4>1. ASSUME NEW i \in DOMAIN t PROVE t[i].item = "output" /\ t[i].call = c <=> i = k
        <5>1. i \in 1 .. (n - 1) /\ i + 1 \in DOMAIN h /\ t[i] = h[i + 1]
          BY <1>0, <2>1, <2>2, <2>3 DEF n
        <5>2. i + 1 = q <=> i = k
          BY <2>1, <3>7, <5>1
        <5> QED
          BY <3>4, <3>5, <5>1, <5>2
      <4> QED
        BY <2>3, <4>1
    <3> DEFINE r == RemoveAt(t, k)
    <3>9. RemoveFirstItem(h) = r
      <4> DEFINE hits == {i \in DOMAIN t : t[i].item = "output" /\ t[i].call = c}
      <4>1. hits = {k} /\ k <= k
        BY <2>1, <3>8
      <4>2. RemoveFirstMatching(t, "output", c) =
               IF hits = {} THEN t ELSE RemoveAt(t, CHOOSE i \in hits : \A j \in hits : i <= j)
        BY DEF RemoveFirstMatching
      <4> HIDE DEF hits
      <4>3. (CHOOSE i \in hits : \A j \in hits : i <= j) = k
        BY <4>1
      <4> QED
        BY <3>1, <4>1, <4>2, <4>3
    <3>10. /\ r \in Seq(Items) /\ Len(r) = (n - 1) - 1
           /\ \A j \in 1 .. ((n - 1) - 1) : r[j] = IF j < k THEN t[j] ELSE t[j + 1]
      BY <2>2, RemovedAt
    <3>11. DOMAIN r = 1 .. ((n - 1) - 1)
      BY <3>10, LenProperties
    <3> HIDE DEF r
    <3> DEFINE m == [j \in DOMAIN r |-> IF j < k THEN j + 1 ELSE j + 2]
    <3>12. ASSUME NEW j \in DOMAIN r
           PROVE  m[j] \in DOMAIN h /\ r[j] = h[m[j]] /\ m[j] # 1 /\ m[j] # q
      <4>1. CASE j < k
        <5>1. j \in 1 .. (n - 1) /\ j + 1 \in DOMAIN h /\ j + 1 # 1 /\ j + 1 # q /\ m[j] = j + 1
          BY <1>0, <2>1, <3>7, <3>11, <4>1 DEF n
        <5> QED
          BY <2>2, <3>10, <3>11, <4>1, <5>1
      <4>2. CASE ~(j < k)
        <5>1. j + 1 \in 1 .. (n - 1) /\ (j + 1) + 1 = j + 2
          BY <1>0, <2>1, <3>7, <3>11, <4>2
        <5>2. j + 2 \in DOMAIN h /\ j + 2 # 1 /\ j + 2 # q /\ m[j] = j + 2
          BY <1>0, <2>1, <3>7, <3>11, <4>2 DEF n
        <5> QED
          BY <2>2, <3>10, <3>11, <4>2, <5>1, <5>2
      <4> QED
        BY <4>1, <4>2
    <3>13. \A i, j \in DOMAIN r : (m[i] < m[j] => i < j) /\ (m[i] = m[j] => i = j)
      BY <2>1, <3>7, <3>11
    <3>14. ASSUME NEW p \in DOMAIN h, p # 1, p # q PROVE \E j \in DOMAIN r : m[j] = p
      <4>1. CASE p < q
        <5>1. p - 1 \in DOMAIN r /\ p - 1 < k /\ (p - 1) + 1 = p
          BY <1>0, <2>1, <3>7, <3>11, <3>14, <4>1 DEF n
        <5> QED
          BY <5>1
      <4>2. CASE ~(p < q)
        <5>1. p - 2 \in DOMAIN r /\ ~(p - 2 < k) /\ (p - 2) + 2 = p
          BY <1>0, <2>1, <3>7, <3>11, <3>14, <4>2 DEF n
        <5> QED
          BY <5>1
      <4> QED
        BY <4>1, <4>2
    <3> HIDE DEF m
    <3>15. \A p \in DOMAIN h : h[p] \in Items
      BY <1>0, ElementOfSeq
    <3>16. \A p \in DOMAIN h : h[p].item \in {"call", "output", "note"}
      BY <3>15 DEF Items
    <3>17. \A j \in DOMAIN r : r[j].item = "note" \/ r[j].call \notin {c}
      BY <3>5, <3>6, <3>12, <3>16
    <3>18. \A p \in DOMAIN h : h[p].item = "note" \/ h[p].call \in {c} \/ \E j \in DOMAIN r : m[j] = p
      BY <3>2, <3>4, <3>14
    <3>19. Thinned(h, r, m, {c})
      BY <3>10, <3>12, <3>13, <3>17, <3>18 DEF Thinned
    <3> QED
      BY <3>9, <3>19, ThinnedIsComplete
  <2> QED
    BY <2>4, <2>5, <2>6, <2>7
<1> QED
  BY <1>1, <1>2

-----------------------------------------------------------------------------
(* The history is coherent, and every call the model made is in it. *)
PairsAgree == Coherent(history) /\ \A c \in Calls : madeIn[c] # 0 => c \in Of(history, "call")

LEMMA PairsStep == ASSUME IInv, PairsAgree, [Next]_vars PROVE PairsAgree'
<1>0. Types /\ Coherent(history) /\ history \in Seq(Items) /\ madeIn \in [Calls -> Nat]
  BY DEF IInv, Types, PairsAgree
<1>1. ASSUME UNCHANGED <<history, madeIn>> PROVE PairsAgree'
  BY <1>1 DEF PairsAgree
<1>2. ASSUME NEW c \in Calls, madeIn[c] = 0
      PROVE  c \notin Of(history, "call") /\ c \notin Of(history, "output")
  BY <1>2 DEF IInv, Untouched, Of
<1>3. ASSUME NEW x \in Items, Fits(history, x), history' = Append(history, x),
             \A c \in Calls : madeIn'[c] # madeIn[c] => x = Call(c)
      PROVE  PairsAgree'
  <2>1. /\ Coherent(history')
        /\ \A k : Of(history', k) = Of(history, k) \cup (IF x.item = k THEN {x.call} ELSE {})
    BY <1>0, <1>3, CoherentGrows
  <2>2. ASSUME NEW c \in Calls, madeIn'[c] # 0 PROVE c \in Of(history', "call")
    <3>1. CASE madeIn'[c] = madeIn[c]
      BY <2>1, <2>2, <3>1 DEF PairsAgree
    <3>2. CASE madeIn'[c] # madeIn[c]
      <4>1. x.item = "call" /\ x.call = c
        BY <1>3, <3>2 DEF Call
      <4> QED
        BY <2>1, <4>1
    <3> QED
      BY <3>1, <3>2
  <2> QED
    BY <2>1, <2>2 DEF PairsAgree
<1>4. ASSUME NEW c \in Calls, ToolCall(c) \/ LocalShellCall(c) PROVE PairsAgree'
  <2>1. madeIn[c] = 0 /\ madeIn' = [madeIn EXCEPT ![c] = request] /\ history' = Append(history, Call(c))
    BY <1>4 DEF ToolCall, LocalShellCall, Emits
  <2>2. Call(c) \in Items /\ Call(c).item = "call" /\ Call(c).call = c
    BY DEF Items, Call, Answers
  <2>3. Fits(history, Call(c))
    BY <1>2, <2>1, <2>2 DEF Fits
  <2> QED
    BY <1>0, <1>3, <2>1, <2>2, <2>3
<1>5. ASSUME NEW c \in Calls, MalformedCall(c) PROVE PairsAgree'
  <2> DEFINE x == Call(c)
             y == Output(c, "error")
             t == Append(history, x)
             u == Append(t, y)
  <2>1. x \in Items /\ x.item = "call" /\ x.call = c /\ y \in Items /\ y.item = "output" /\ y.call = c
    BY DEF Items, Call, Output, Answers
  <2>2. /\ madeIn[c] = 0 /\ madeIn' = [madeIn EXCEPT ![c] = request]
        /\ history' = history \o <<x, y>>
    BY <1>5 DEF MalformedCall, Emits
  <2>3. Fits(history, x)
    BY <1>2, <2>1, <2>2 DEF Fits
  <2>a. c \notin Of(history, "output")
    BY <1>2, <2>2
  <2> HIDE DEF x, y
  <2>4. history' = u
    BY <1>0, <2>1, <2>2, TwoBehind
  <2>5. /\ Coherent(t)
        /\ \A k : Of(t, k) = Of(history, k) \cup (IF x.item = k THEN {x.call} ELSE {})
    BY <1>0, <2>1, <2>3, CoherentGrows
  <2> HIDE DEF t
  <2>6. Fits(t, y)
    <3>1. c \in Of(t, "call") /\ c \notin Of(t, "output")
      BY <2>1, <2>5, <2>a
    <3> QED
      BY <2>1, <3>1 DEF Fits
  <2>7. /\ Coherent(u)
        /\ \A k : Of(u, k) = Of(t, k) \cup (IF y.item = k THEN {y.call} ELSE {})
    BY <2>1, <2>5, <2>6, CoherentGrows
  <2> HIDE DEF u
  <2>8. Of(u, "call") = Of(history, "call") \cup {c}
    BY <2>1, <2>5, <2>7
  <2> QED
    BY <1>0, <2>2, <2>4, <2>7, <2>8 DEF PairsAgree
<1>6. ASSUME DrainOne PROVE PairsAgree'
  <2>1. PICK c : c = Head(in_flight)
    OBVIOUS
  <2>2. c \in Calls /\ Flying(c)
    BY <1>0, <1>6, <2>1, DrainExtends
  <2>3. /\ UNCHANGED madeIn
        /\ history' = history \/ history' = Append(history, Output(c, answer[c]))
    BY <1>6, <2>1 DEF DrainOne
  <2>4. /\ Output(c, answer[c]) \in Items
        /\ Output(c, answer[c]).item = "output" /\ Output(c, answer[c]).call = c
    BY <1>0, <2>2, ItemTypes DEF Types
  <2>5. c \in Of(history, "call")
    BY <2>2 DEF IInv, Untouched, PairsAgree
  <2>6. c \notin Of(history, "output")
    BY <2>2 DEF IInv, FlightAgrees, Of, Is
  <2>7. Fits(history, Output(c, answer[c]))
    BY <2>4, <2>5, <2>6 DEF Fits
  <2>8. CASE history' = history
    BY <1>1, <2>3, <2>8
  <2>9. CASE history' = Append(history, Output(c, answer[c]))
    BY <1>3, <2>3, <2>4, <2>7, <2>9
  <2> QED
    BY <2>3, <2>8, <2>9
<1>7. ASSUME NEW c \in Calls, TaskEffect(c) PROVE PairsAgree'
  <2>1. /\ UNCHANGED madeIn
        /\ history' = history \/ history' = Append(history, Note(c))
    BY <1>7 DEF TaskEffect
  <2>2. Note(c) \in Items /\ Note(c).item = "note"
    BY DEF Items, Note, Answers
  <2>3. Fits(history, Note(c))
    BY <2>2 DEF Fits
  <2>4. CASE history' = history
    BY <1>1, <2>1, <2>4
  <2>5. CASE history' = Append(history, Note(c))
    BY <1>3, <2>1, <2>2, <2>3, <2>5
  <2> QED
    BY <2>1, <2>4, <2>5
<1>8. ASSUME NEW c \in Calls, FutureEffect(c) PROVE PairsAgree'
  BY <1>1, <1>8 DEF FutureEffect, Moved, Took, Aborted
<1>9. CASE QuietStep
  BY <1>1, <1>9 DEF QuietStep, StartRequest, StreamEnds, RequestReturns, CancelTurn, KillTurn, vars
<1> QED
  BY <1>0, <1>4, <1>5, <1>6, <1>7, <1>8, <1>9, TaskSteps, FutureSteps DEF Next, QuietStep, TurnStep, Stopped

(* for_prompt: whatever calls were cut off from their outputs, and when,   *)
(* each call of a prompt has one output, behind it, no output is an orphan,*)
(* and remove_first_item leaves it so.                                     *)
THEOREM PromptIsPairedHolds == Spec => []PromptIsPaired
<1>1. Init => PairsAgree
  BY OfEmpty DEF Init, PairsAgree
<1>2. IInv /\ PairsAgree /\ [Next]_vars => PairsAgree'
  BY PairsStep
<1>3. PairsAgree => PromptIsPaired
  <2> SUFFICES ASSUME PairsAgree PROVE PromptIsPaired
    OBVIOUS
  <2> DEFINE g == EnsureCallOutputsPresent(history)
  <2>1. Complete(g)
    BY EnsuredIsComplete DEF PairsAgree
  <2>2. ForPrompt(history) = g
    BY <2>1, NoOrphanRemoved DEF ForPrompt, Complete
  <2> HIDE DEF g
  <2>3. Paired(g) /\ Paired(RemoveFirstItem(g))
    BY <2>1, CompleteIsPaired, FirstRemoved
  <2> QED
    BY <2>2, <2>3 DEF PromptIsPaired
<1> QED
  BY <1>1, <1>2, <1>3, IInvHolds, PTL DEF Spec
=============================================================================
