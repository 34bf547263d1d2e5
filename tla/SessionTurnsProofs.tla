------------------------- MODULE SessionTurnsProofs -------------------------
(***************************************************************************)
(* Proofs about SessionTurns, for every set of inputs, mails, injections   *)
(* and callers, every mix of operations and every bound.                   *)
(*                                                                         *)
(* First control: which task runs, which event a turn has had, who aborts  *)
(* it.  Control reads the queues but its invariant does not depend on what *)
(* they hold, so it is over the variables of ctl alone, and every action   *)
(* is first reduced to one of a few control steps.  On it rest the types,  *)
(* where items are, and the refinement of TurnLifecycle at the end.        *)
(***************************************************************************)
EXTENDS SessionTurns, SequenceTheorems, WellFoundedInduction, TLAPS

ctl == <<activeTask, taskPc, cancelled, pc, turn, victim, events, turns>>

Aborting == {"abort", "aborted"}
Starting == {"join", "install"}
Steps == (Working \ {"begin"}) \cup {"leftover", "terminal"}
Closed == {<<"complete">>, <<"aborted">>, <<"started", "complete">>, <<"started", "aborted">>}
Opened == {<<>>, <<"started">>}

ControlTyped ==
    /\ activeTask \in 0 .. MaxTurns
    /\ taskPc \in [Turns -> Working \cup Finishing \cup {"none", "dead"}]
    /\ cancelled \in [Turns -> BOOLEAN]
    /\ pc \in [Procs -> Labels]
    /\ turn \in [Procs -> 0 .. MaxTurns]
    /\ victim \in [Procs -> 0 .. MaxTurns]
    /\ DOMAIN events = Turns
    /\ turns \in 0 .. MaxTurns

(* Where a task is tells which events its turn has had. *)
EventsMatchTask ==
    \A t \in Turns :
        /\ taskPc[t] \in {"none", "begin"} => events[t] = <<>>
        /\ taskPc[t] \in Steps => events[t] = <<"started">>
        /\ taskPc[t] = "clear" => events[t] \in Closed
        /\ taskPc[t] = "dead" => events[t] \in Opened \cup Closed

(* The task of active_turn is at work and nobody has cancelled it. *)
ActiveTaskIsLive == activeTask # 0 => Live(activeTask) /\ ~cancelled[activeTask]

CancelledIsLive == \A t \in Turns : cancelled[t] => Live(t)

(* Whoever aborts a turn is the only one, and will find it without a       *)
(* terminal event: its task is dead, or cancelled and still at work.       *)
VictimIsUnreported ==
    \A p \in Procs :
        pc[p] \in Aborting =>
            /\ victim[p] \in Turns
            /\ events[victim[p]] \in Opened
            /\ \/ taskPc[victim[p]] = "dead"
               \/ pc[p] = "abort" /\ Live(victim[p]) /\ cancelled[victim[p]]

VictimsDiffer ==
    \A p, q \in Procs :
        pc[p] \in Aborting /\ pc[q] \in Aborting /\ victim[p] = victim[q] => p = q

(* Whoever starts a turn is the only one, and the turn has no task yet. *)
StartedTurnIsNew ==
    \A p \in Procs :
        pc[p] \in Starting => turn[p] \in 1 .. turns /\ taskPc[turn[p]] = "none"

StartedTurnsDiffer ==
    \A p, q \in Procs :
        pc[p] \in Starting /\ pc[q] \in Starting /\ turn[p] = turn[q] => p = q

UnusedTurns == \A t \in Turns : t > turns => taskPc[t] = "none"

IInv ==
    /\ ControlTyped /\ EventsMatchTask /\ ActiveTaskIsLive /\ CancelledIsLive
    /\ RunningTaskIsActive /\ VictimIsUnreported /\ VictimsDiffer
    /\ StartedTurnIsNew /\ StartedTurnsDiffer /\ UnusedTurns

(* What the invariant needs of the constants. *)
LEMMA Bounds ==
    /\ MaxTurns \in Nat \ {0}
    /\ Turns = 1 .. MaxTurns
    /\ "loop" \in Procs
    /\ Clients \subseteq Procs
BY SessionAssumption DEF Turns, Procs

(* A second event is appended to the first. *)
LEMMA AppendToOne ==
    ASSUME NEW E, NEW a \in E, NEW b \in E
    PROVE  Append(<<a>>, b) = <<a, b>>
<1>1. <<a>> \in Seq(E) /\ <<a, b>> \in Seq(E)
  OBVIOUS
<1>2. Append(<<a>>, b) \in Seq(E) /\ Len(Append(<<a>>, b)) = 2
  BY <1>1
<1>3. \A i \in 1 .. 2 : Append(<<a>>, b)[i] = <<a, b>>[i]
  BY <1>1
<1>4. QED
  BY <1>1, <1>2, <1>3, SeqEqual

LEMMA Events ==
    /\ Append(<<>>, "started") = <<"started">>
    /\ Append(<<>>, "aborted") = <<"aborted">>
    /\ Append(<<"started">>, "aborted") = <<"started", "aborted">>
    /\ Append(<<"started">>, "complete") = <<"started", "complete">>
<1> DEFINE E == {"started", "complete", "aborted"}
<1>1. Append(<<>>, "started") = <<"started">> /\ Append(<<>>, "aborted") = <<"aborted">>
  OBVIOUS
<1>2. "started" \in E /\ "complete" \in E /\ "aborted" \in E
  OBVIOUS
<1> HIDE DEF E
<1>3. QED
  BY <1>1, <1>2, AppendToOne

(***************************************************************************)
(* The control steps.                                                      *)
(***************************************************************************)
(* A caller that is neither starting nor aborting a turn moves. *)
LEMMA CallerMoves ==
    ASSUME IInv,
           NEW p \in Procs, pc[p] \notin Aborting,
           NEW l \in Labels \ (Aborting \cup Starting),
           pc' = [pc EXCEPT ![p] = l],
           UNCHANGED <<activeTask, taskPc, cancelled, turn, victim, events, turns>>
    PROVE  IInv'
<1> USE Bounds DEF IInv, ControlTyped, Live, Working, Finishing, Labels, Steps, Aborting, Starting
<1>1. ControlTyped'
  OBVIOUS
<1>2. EventsMatchTask'
  BY DEF EventsMatchTask
<1>3. ActiveTaskIsLive'
  BY DEF ActiveTaskIsLive
<1>4. CancelledIsLive'
  BY DEF CancelledIsLive
<1>5. RunningTaskIsActive'
  BY DEF RunningTaskIsActive
<1>6. VictimIsUnreported'
  BY DEF VictimIsUnreported
<1>7. VictimsDiffer'
  BY DEF VictimsDiffer
<1>8. StartedTurnIsNew'
  BY DEF StartedTurnIsNew
<1>9. StartedTurnsDiffer'
  BY DEF StartedTurnsDiffer
<1>10. UnusedTurns'
  BY DEF UnusedTurns
<1>11. QED
  BY <1>1, <1>2, <1>3, <1>4, <1>5, <1>6, <1>7, <1>8, <1>9, <1>10

(* A task at work moves on. *)
LEMMA TaskMoves ==
    ASSUME IInv,
           NEW t \in Turns, taskPc[t] \in Working \ {"begin"},
           NEW l \in Working \ {"begin"},
           taskPc' = [taskPc EXCEPT ![t] = l],
           UNCHANGED <<activeTask, cancelled, pc, turn, victim, events, turns>>
    PROVE  IInv'
<1> USE Bounds DEF IInv, ControlTyped, Live, Working, Finishing, Labels, Steps, Aborting, Starting
<1>1. ControlTyped'
  OBVIOUS
<1>2. EventsMatchTask'
  BY DEF EventsMatchTask
<1>3. ActiveTaskIsLive'
  BY DEF ActiveTaskIsLive
<1>4. CancelledIsLive'
  BY DEF CancelledIsLive
<1>5. RunningTaskIsActive'
  BY DEF RunningTaskIsActive
<1>6. VictimIsUnreported'
  BY DEF VictimIsUnreported
<1>7. VictimsDiffer'
  BY DEF VictimsDiffer
<1>8. StartedTurnIsNew'
  BY DEF StartedTurnIsNew
<1>9. StartedTurnsDiffer'
  BY DEF StartedTurnsDiffer
<1>10. UnusedTurns'
  BY DEF UnusedTurns
<1>11. QED
  BY <1>1, <1>2, <1>3, <1>4, <1>5, <1>6, <1>7, <1>8, <1>9, <1>10

(* A task sends TurnStarted. *)
LEMMA TaskBegins ==
    ASSUME IInv,
           NEW t \in Turns, taskPc[t] = "begin",
           NEW l \in Working \ {"begin"},
           taskPc' = [taskPc EXCEPT ![t] = l],
           events' = [events EXCEPT ![t] = <<"started">>],
           UNCHANGED <<activeTask, cancelled, pc, turn, victim, turns>>
    PROVE  IInv'
<1> USE Bounds DEF IInv, ControlTyped, Live, Working, Finishing, Labels, Steps, Aborting, Starting
<1>1. ControlTyped'
  OBVIOUS
<1>2. EventsMatchTask'
  BY DEF EventsMatchTask
<1>3. ActiveTaskIsLive'
  BY DEF ActiveTaskIsLive
<1>4. CancelledIsLive'
  BY DEF CancelledIsLive
<1>5. RunningTaskIsActive'
  BY DEF RunningTaskIsActive
<1>6. VictimIsUnreported'
  BY DEF VictimIsUnreported, Opened
<1>7. VictimsDiffer'
  BY DEF VictimsDiffer
<1>8. StartedTurnIsNew'
  BY DEF StartedTurnIsNew
<1>9. StartedTurnsDiffer'
  BY DEF StartedTurnsDiffer
<1>10. UnusedTurns'
  BY DEF UnusedTurns
<1>11. QED
  BY <1>1, <1>2, <1>3, <1>4, <1>5, <1>6, <1>7, <1>8, <1>9, <1>10

(* A cancelled task ends without a word. *)
LEMMA TaskLeaves ==
    ASSUME IInv,
           NEW t \in Turns, taskPc[t] = "finish", cancelled[t],
           taskPc' = [taskPc EXCEPT ![t] = "dead"],
           cancelled' = [cancelled EXCEPT ![t] = FALSE],
           UNCHANGED <<activeTask, pc, turn, victim, events, turns>>
    PROVE  IInv'
<1> USE Bounds DEF IInv, ControlTyped, Live, Working, Finishing, Labels, Steps, Aborting, Starting
<1>1. ControlTyped'
  OBVIOUS
<1>2. EventsMatchTask'
  BY DEF EventsMatchTask, Opened
<1>3. ActiveTaskIsLive'
  BY DEF ActiveTaskIsLive
<1>4. CancelledIsLive'
  BY DEF CancelledIsLive
<1>5. RunningTaskIsActive'
  BY DEF RunningTaskIsActive
<1>6. VictimIsUnreported'
  BY DEF VictimIsUnreported
<1>7. VictimsDiffer'
  BY DEF VictimsDiffer
<1>8. StartedTurnIsNew'
  BY DEF StartedTurnIsNew
<1>9. StartedTurnsDiffer'
  BY DEF StartedTurnsDiffer
<1>10. UnusedTurns'
  BY DEF UnusedTurns
<1>11. QED
  BY <1>1, <1>2, <1>3, <1>4, <1>5, <1>6, <1>7, <1>8, <1>9, <1>10

(* A task that nobody cancelled gives up active_turn. *)
LEMMA TaskGivesUpTurn ==
    ASSUME IInv,
           NEW t \in Turns, taskPc[t] = "finish", ~cancelled[t],
           taskPc' = [taskPc EXCEPT ![t] = "leftover"],
           activeTask' = 0,
           UNCHANGED <<cancelled, pc, turn, victim, events, turns>>
    PROVE  IInv'
<1> USE Bounds DEF IInv, ControlTyped, Live, Working, Finishing, Labels, Steps, Aborting, Starting
<1>1. ControlTyped'
  OBVIOUS
<1>2. EventsMatchTask'
  BY DEF EventsMatchTask
<1>3. ActiveTaskIsLive'
  BY DEF ActiveTaskIsLive
<1>4. CancelledIsLive'
  BY <1>1 DEF CancelledIsLive, ActiveTaskIsLive, StartedTurnIsNew, RunningTaskIsActive
<1>5. RunningTaskIsActive'
  BY DEF RunningTaskIsActive
<1>6. VictimIsUnreported'
  BY DEF VictimIsUnreported
<1>7. VictimsDiffer'
  BY DEF VictimsDiffer
<1>8. StartedTurnIsNew'
  BY DEF StartedTurnIsNew
<1>9. StartedTurnsDiffer'
  BY DEF StartedTurnsDiffer
<1>10. UnusedTurns'
  BY DEF UnusedTurns
<1>11. QED
  BY <1>1, <1>2, <1>3, <1>4, <1>5, <1>6, <1>7, <1>8, <1>9, <1>10

(* It records what was left in the queue. *)
LEMMA TaskRecordsLeftover ==
    ASSUME IInv,
           NEW t \in Turns, taskPc[t] = "leftover",
           taskPc' = [taskPc EXCEPT ![t] = "terminal"],
           UNCHANGED <<activeTask, cancelled, pc, turn, victim, events, turns>>
    PROVE  IInv'
<1> USE Bounds DEF IInv, ControlTyped, Live, Working, Finishing, Labels, Steps, Aborting, Starting
<1>1. ControlTyped'
  OBVIOUS
<1>2. EventsMatchTask'
  BY DEF EventsMatchTask
<1>3. ActiveTaskIsLive'
  BY DEF ActiveTaskIsLive
<1>4. CancelledIsLive'
  BY DEF CancelledIsLive
<1>5. RunningTaskIsActive'
  BY DEF RunningTaskIsActive
<1>6. VictimIsUnreported'
  BY DEF VictimIsUnreported
<1>7. VictimsDiffer'
  BY DEF VictimsDiffer
<1>8. StartedTurnIsNew'
  BY DEF StartedTurnIsNew
<1>9. StartedTurnsDiffer'
  BY DEF StartedTurnsDiffer
<1>10. UnusedTurns'
  BY DEF UnusedTurns
<1>11. QED
  BY <1>1, <1>2, <1>3, <1>4, <1>5, <1>6, <1>7, <1>8, <1>9, <1>10

(* It sends the terminal event. *)
LEMMA TaskReports ==
    ASSUME IInv,
           NEW t \in Turns, taskPc[t] = "terminal",
           taskPc' = [taskPc EXCEPT ![t] = "clear"],
           NEW e \in {<<"started", "complete">>, <<"started", "aborted">>},
           events' = [events EXCEPT ![t] = e],
           UNCHANGED <<activeTask, cancelled, pc, turn, victim, turns>>
    PROVE  IInv'
<1> USE Bounds DEF IInv, ControlTyped, Live, Working, Finishing, Labels, Steps, Aborting, Starting
<1>1. ControlTyped'
  OBVIOUS
<1>2. EventsMatchTask'
  BY DEF EventsMatchTask, Closed
<1>3. ActiveTaskIsLive'
  BY DEF ActiveTaskIsLive
<1>4. CancelledIsLive'
  BY DEF CancelledIsLive
<1>5. RunningTaskIsActive'
  BY DEF RunningTaskIsActive
<1>6. VictimIsUnreported'
  BY DEF VictimIsUnreported
<1>7. VictimsDiffer'
  BY DEF VictimsDiffer
<1>8. StartedTurnIsNew'
  BY DEF StartedTurnIsNew
<1>9. StartedTurnsDiffer'
  BY DEF StartedTurnsDiffer
<1>10. UnusedTurns'
  BY <1>1 DEF UnusedTurns, StartedTurnIsNew, ActiveTaskIsLive, VictimIsUnreported
<1>11. QED
  BY <1>1, <1>2, <1>3, <1>4, <1>5, <1>6, <1>7, <1>8, <1>9, <1>10

(* It ends. *)
LEMMA TaskEnds ==
    ASSUME IInv,
           NEW t \in Turns, taskPc[t] = "clear",
           taskPc' = [taskPc EXCEPT ![t] = "dead"],
           cancelled' = [cancelled EXCEPT ![t] = FALSE],
           UNCHANGED <<activeTask, pc, turn, victim, events, turns>>
    PROVE  IInv'
<1> USE Bounds DEF IInv, ControlTyped, Live, Working, Finishing, Labels, Steps, Aborting, Starting
<1>1. ControlTyped'
  OBVIOUS
<1>2. EventsMatchTask'
  BY DEF EventsMatchTask
<1>3. ActiveTaskIsLive'
  BY DEF ActiveTaskIsLive
<1>4. CancelledIsLive'
  BY DEF CancelledIsLive
<1>5. RunningTaskIsActive'
  BY DEF RunningTaskIsActive
<1>6. VictimIsUnreported'
  BY DEF VictimIsUnreported
<1>7. VictimsDiffer'
  BY DEF VictimsDiffer
<1>8. StartedTurnIsNew'
  BY DEF StartedTurnIsNew
<1>9. StartedTurnsDiffer'
  BY DEF StartedTurnsDiffer
<1>10. UnusedTurns'
  BY DEF UnusedTurns
<1>11. QED
  BY <1>1, <1>2, <1>3, <1>4, <1>5, <1>6, <1>7, <1>8, <1>9, <1>10

(* A caller takes the number of a new turn. *)
LEMMA TurnTaken ==
    ASSUME IInv,
           NEW p \in Procs, pc[p] = "start",
           turns < MaxTurns,
           turns' = turns + 1,
           turn' = [turn EXCEPT ![p] = turns + 1],
           pc' = [pc EXCEPT ![p] = "join"],
           UNCHANGED <<activeTask, taskPc, cancelled, victim, events>>
    PROVE  IInv'
<1> USE Bounds DEF IInv, ControlTyped, Live, Working, Finishing, Labels, Steps, Aborting, Starting
<1>1. ControlTyped'
  OBVIOUS
<1>2. EventsMatchTask'
  BY DEF EventsMatchTask
<1>3. ActiveTaskIsLive'
  BY DEF ActiveTaskIsLive
<1>4. CancelledIsLive'
  BY DEF CancelledIsLive
<1>5. RunningTaskIsActive'
  BY DEF RunningTaskIsActive
<1>6. VictimIsUnreported'
  BY DEF VictimIsUnreported
<1>7. VictimsDiffer'
  BY DEF VictimsDiffer
<1>8. StartedTurnIsNew'
  BY DEF StartedTurnIsNew, UnusedTurns
<1>9. StartedTurnsDiffer'
  BY DEF StartedTurnsDiffer, StartedTurnIsNew
<1>10. UnusedTurns'
  BY DEF UnusedTurns
<1>11. QED
  BY <1>1, <1>2, <1>3, <1>4, <1>5, <1>6, <1>7, <1>8, <1>9, <1>10

(* It has moved the pending input into the turn state. *)
LEMMA TurnJoined ==
    ASSUME IInv,
           NEW p \in Procs, pc[p] = "join",
           pc' = [pc EXCEPT ![p] = "install"],
           UNCHANGED <<activeTask, taskPc, cancelled, turn, victim, events, turns>>
    PROVE  IInv'
<1> USE Bounds DEF IInv, ControlTyped, Live, Working, Finishing, Labels, Steps, Aborting, Starting
<1>1. ControlTyped'
  OBVIOUS
<1>2. EventsMatchTask'
  BY DEF EventsMatchTask
<1>3. ActiveTaskIsLive'
  BY DEF ActiveTaskIsLive
<1>4. CancelledIsLive'
  BY DEF CancelledIsLive
<1>5. RunningTaskIsActive'
  BY DEF RunningTaskIsActive
<1>6. VictimIsUnreported'
  BY DEF VictimIsUnreported
<1>7. VictimsDiffer'
  BY DEF VictimsDiffer
<1>8. StartedTurnIsNew'
  BY DEF StartedTurnIsNew
<1>9. StartedTurnsDiffer'
  BY DEF StartedTurnsDiffer
<1>10. UnusedTurns'
  BY DEF UnusedTurns
<1>11. QED
  BY <1>1, <1>2, <1>3, <1>4, <1>5, <1>6, <1>7, <1>8, <1>9, <1>10

(* It installs the task over whichever task was there. *)
LEMMA TurnInstalled ==
    ASSUME IInv,
           NEW p \in Procs, pc[p] = "install",
           NEW l \in {"idle", "exit"},
           taskPc' = [u \in Turns |-> CASE u = turn[p] -> "begin"
                                          [] u = activeTask /\ u # turn[p] -> "dead"
                                          [] OTHER -> taskPc[u]],
           activeTask' = turn[p],
           turn' = [turn EXCEPT ![p] = 0],
           pc' = [pc EXCEPT ![p] = l],
           UNCHANGED <<cancelled, victim, events, turns>>
    PROVE  IInv'
<1> USE Bounds DEF IInv, ControlTyped, Live, Working, Finishing, Labels, Steps, Aborting, Starting
<1>a. turn[p] \in Turns /\ taskPc[turn[p]] = "none"
  BY DEF StartedTurnIsNew
<1>b. turn[p] # activeTask /\ ~cancelled[turn[p]]
  <2>1. ~Live(turn[p])
    BY <1>a
  <2>2. turn[p] # activeTask
    BY <1>a, <2>1 DEF ActiveTaskIsLive
  <2>3. ~cancelled[turn[p]]
    BY <1>a, <2>1, Zenon DEF CancelledIsLive
  <2>4. QED
    BY <2>2, <2>3
<1>c. /\ taskPc'[turn[p]] = "begin"
      /\ \A u \in Turns \ {turn[p]} : taskPc'[u] = IF u = activeTask THEN "dead" ELSE taskPc[u]
  BY <1>a
<1>1. ControlTyped'
  OBVIOUS
<1>2. EventsMatchTask'
  BY <1>a, <1>c, <1>1 DEF EventsMatchTask, Opened
<1>3. ActiveTaskIsLive'
  BY <1>b DEF ActiveTaskIsLive
<1>4. CancelledIsLive'
  BY DEF CancelledIsLive, ActiveTaskIsLive
<1>5. RunningTaskIsActive'
  BY DEF RunningTaskIsActive
<1>6. VictimIsUnreported'
  BY DEF VictimIsUnreported, StartedTurnIsNew
<1>7. VictimsDiffer'
  BY DEF VictimsDiffer
<1>8. StartedTurnIsNew'
  BY DEF StartedTurnIsNew, StartedTurnsDiffer, ActiveTaskIsLive
<1>9. StartedTurnsDiffer'
  BY DEF StartedTurnsDiffer
<1>10. UnusedTurns'
  BY DEF UnusedTurns, StartedTurnIsNew, ActiveTaskIsLive
<1>11. QED
  BY <1>1, <1>2, <1>3, <1>4, <1>5, <1>6, <1>7, <1>8, <1>9, <1>10

(* A caller takes the active turn and cancels its task. *)
LEMMA TurnTakenForAbort ==
    ASSUME IInv,
           NEW p \in Procs, pc[p] \notin Aborting \cup Starting,
           activeTask # 0,
           activeTask' = 0,
           cancelled' = [cancelled EXCEPT ![activeTask] = TRUE],
           victim' = [victim EXCEPT ![p] = activeTask],
           pc' = [pc EXCEPT ![p] = "abort"],
           UNCHANGED <<taskPc, turn, events, turns>>
    PROVE  IInv'
<1> USE Bounds DEF IInv, ControlTyped, Live, Working, Finishing, Labels, Steps, Aborting, Starting
<1>a. activeTask \in Turns /\ Live(activeTask)
  BY DEF ActiveTaskIsLive
<1>b. events[activeTask] \in Opened
  BY <1>a DEF EventsMatchTask, Opened
<1>c. cancelled'[activeTask] /\ \A u \in Turns : cancelled[u] => cancelled'[u]
  BY <1>a
<1>1. ControlTyped'
  OBVIOUS
<1>2. EventsMatchTask'
  BY DEF EventsMatchTask
<1>3. ActiveTaskIsLive'
  BY DEF ActiveTaskIsLive
<1>4. CancelledIsLive'
  BY DEF CancelledIsLive, ActiveTaskIsLive
<1>5. RunningTaskIsActive'
  BY DEF RunningTaskIsActive
<1>6. VictimIsUnreported'
  <2> SUFFICES ASSUME NEW q \in Procs, pc'[q] \in Aborting
               PROVE  /\ victim'[q] \in Turns
                      /\ events[victim'[q]] \in Opened
                      /\ \/ taskPc[victim'[q]] = "dead"
                         \/ pc'[q] = "abort" /\ Live(victim'[q]) /\ cancelled'[victim'[q]]
    BY DEF VictimIsUnreported
  <2>1. CASE q = p
    BY <1>a, <1>b, <1>c, <2>1
  <2>2. CASE q # p
    BY <1>c, <2>2 DEF VictimIsUnreported
  <2>3. QED
    BY <2>1, <2>2
<1>7. VictimsDiffer'
  BY DEF VictimsDiffer, VictimIsUnreported, ActiveTaskIsLive
<1>8. StartedTurnIsNew'
  BY DEF StartedTurnIsNew
<1>9. StartedTurnsDiffer'
  BY DEF StartedTurnsDiffer
<1>10. UnusedTurns'
  BY DEF UnusedTurns
<1>11. QED
  BY <1>1, <1>2, <1>3, <1>4, <1>5, <1>6, <1>7, <1>8, <1>9, <1>10

(* The task it cancelled is over. *)
LEMMA VictimKilled ==
    ASSUME IInv,
           NEW p \in Procs, pc[p] = "abort",
           taskPc' = [taskPc EXCEPT ![victim[p]] = "dead"],
           cancelled' = [cancelled EXCEPT ![victim[p]] = FALSE],
           pc' = [pc EXCEPT ![p] = "aborted"],
           UNCHANGED <<activeTask, turn, victim, events, turns>>
    PROVE  IInv'
<1> USE Bounds DEF IInv, ControlTyped, Live, Working, Finishing, Labels, Steps, Aborting, Starting
<1>a. victim[p] \in Turns /\ taskPc[victim[p]] # "none" /\ events[victim[p]] \in Opened
  BY DEF VictimIsUnreported
<1>1. ControlTyped'
  OBVIOUS
<1>2. EventsMatchTask'
  BY DEF EventsMatchTask, VictimIsUnreported
<1>3. ActiveTaskIsLive'
  BY DEF ActiveTaskIsLive, VictimIsUnreported
<1>4. CancelledIsLive'
  BY DEF CancelledIsLive
<1>5. RunningTaskIsActive'
  BY DEF RunningTaskIsActive
<1>6. VictimIsUnreported'
  BY DEF VictimIsUnreported
<1>7. VictimsDiffer'
  BY DEF VictimsDiffer
<1>8. StartedTurnIsNew'
  <2> SUFFICES ASSUME NEW q \in Procs, pc'[q] \in Starting
               PROVE  turn[q] \in 1 .. turns /\ taskPc'[turn[q]] = "none"
    BY DEF StartedTurnIsNew
  <2>1. turn[q] \in 1 .. turns /\ taskPc[turn[q]] = "none"
    BY DEF StartedTurnIsNew
  <2>2. QED
    BY <1>a, <2>1
<1>9. StartedTurnsDiffer'
  BY DEF StartedTurnsDiffer
<1>10. UnusedTurns'
  BY DEF UnusedTurns, VictimIsUnreported
<1>11. QED
  BY <1>1, <1>2, <1>3, <1>4, <1>5, <1>6, <1>7, <1>8, <1>9, <1>10

(* It sends TurnAborted. *)
LEMMA VictimReported ==
    ASSUME IInv,
           NEW p \in Procs, pc[p] = "aborted",
           NEW e \in {<<"aborted">>, <<"started", "aborted">>},
           events' = [events EXCEPT ![victim[p]] = e],
           victim' = [victim EXCEPT ![p] = 0],
           pc' = [pc EXCEPT ![p] = "clear"],
           UNCHANGED <<activeTask, taskPc, cancelled, turn, turns>>
    PROVE  IInv'
<1> USE Bounds DEF IInv, ControlTyped, Live, Working, Finishing, Labels, Steps, Aborting, Starting
<1>1. ControlTyped'
  OBVIOUS
<1>2. EventsMatchTask'
  BY DEF EventsMatchTask, Closed, VictimIsUnreported
<1>3. ActiveTaskIsLive'
  BY DEF ActiveTaskIsLive
<1>4. CancelledIsLive'
  BY DEF CancelledIsLive
<1>5. RunningTaskIsActive'
  BY DEF RunningTaskIsActive
<1>6. VictimIsUnreported'
  BY DEF VictimIsUnreported, VictimsDiffer
<1>7. VictimsDiffer'
  BY DEF VictimsDiffer
<1>8. StartedTurnIsNew'
  BY DEF StartedTurnIsNew
<1>9. StartedTurnsDiffer'
  BY DEF StartedTurnsDiffer
<1>10. UnusedTurns'
  BY DEF UnusedTurns
<1>11. QED
  BY <1>1, <1>2, <1>3, <1>4, <1>5, <1>6, <1>7, <1>8, <1>9, <1>10

(* A step that leaves control alone. *)
LEMMA ControlUnmoved ==
    ASSUME IInv, UNCHANGED ctl
    PROVE  IInv'
BY DEF ctl, IInv, ControlTyped, EventsMatchTask, ActiveTaskIsLive, CancelledIsLive,
       RunningTaskIsActive, VictimIsUnreported, VictimsDiffer, StartedTurnIsNew,
       StartedTurnsDiffer, UnusedTurns, Live

(***************************************************************************)
(* Every action is one of the control steps.                               *)
(***************************************************************************)
LEMMA InitIInv == Init => IInv
<1> SUFFICES ASSUME Init PROVE IInv
  OBVIOUS
<1> USE Bounds DEF Init
<1>1. ControlTyped
  BY DEF ControlTyped, Labels
<1>2. EventsMatchTask /\ ActiveTaskIsLive /\ RunningTaskIsActive /\ CancelledIsLive
  BY DEF EventsMatchTask, Steps, Working, ActiveTaskIsLive, RunningTaskIsActive, Live,
         CancelledIsLive
<1>3. VictimIsUnreported /\ VictimsDiffer /\ StartedTurnIsNew /\ StartedTurnsDiffer
  BY DEF VictimIsUnreported, VictimsDiffer, StartedTurnIsNew, StartedTurnsDiffer, Aborting,
         Starting
<1>4. UnusedTurns
  BY DEF UnusedTurns
<1>5. QED
  BY <1>1, <1>2, <1>3, <1>4 DEF IInv

(* The tasks. *)
LEMMA TaskStepIInv ==
    ASSUME IInv, NEW t \in Turns, TaskStep(t)
    PROVE  IInv'
<1> USE DEF taskVars, procVars, logVars, idVars, Goto
<1>1. CASE Begin(t)
  <2>1. events[t] = <<>>
    BY <1>1 DEF Begin, IInv, EventsMatchTask
  <2>2. events' = [events EXCEPT ![t] = <<"started">>]
    BY <1>1, <2>1, Events DEF Begin, Emit
  <2>3. PICK l \in Working \ {"begin"} : taskPc' = [taskPc EXCEPT ![t] = l]
    <3>1. {"input", "compact"} \subseteq Working \ {"begin"}
      BY DEF Working
    <3>2. CASE run[t].kind = "regular"
      BY <1>1, <3>1, <3>2 DEF Begin
    <3>3. CASE run[t].kind # "regular"
      BY <1>1, <3>1, <3>3 DEF Begin
    <3>4. QED
      BY <3>2, <3>3
  <2>4. QED
    BY <1>1, <2>2, <2>3, TaskBegins DEF Begin
<1>2. CASE RecordInput(t)
  BY <1>2, TaskMoves DEF RecordInput, Record, Working
<1>3. CASE DropInput(t)
  BY <1>3, TaskMoves DEF DropInput, Working
<1>4. CASE Drain(t)
  BY <1>4, TaskMoves DEF Drain, Working
<1>5. CASE RecordPending(t)
  BY <1>5, TaskMoves DEF RecordPending, Record, Working
<1>6. CASE OutputMessage(t)
  BY <1>6, ControlUnmoved DEF OutputMessage, ctl
<1>7. CASE OutputToolCall(t)
  BY <1>7, ControlUnmoved DEF OutputToolCall, ctl
<1>8. CASE SamplingEnds(t)
  BY <1>8, TaskMoves DEF SamplingEnds, Working
<1>r. CASE RetryWithoutImages(t)
  BY <1>r, TaskMoves DEF RetryWithoutImages, Working
<1>9. CASE FollowUp(t)
  BY <1>9, TaskMoves DEF FollowUp, Working
<1>10. CASE NoFollowUp(t)
  BY <1>10, TaskMoves DEF NoFollowUp, Working
<1>11. CASE RunTurnAgain(t)
  BY <1>11, TaskMoves DEF RunTurnAgain, Working
<1>12. CASE RunCompact(t)
  BY <1>12, TaskMoves DEF RunCompact, Working
<1>13. CASE TaskFinished(t)
  <2>1. CASE cancelled[t]
    BY <1>13, <2>1, TaskLeaves DEF TaskFinished, LeavesQuietly, Ends
  <2>2. CASE ~cancelled[t]
    <3>1. activeTask = t
      BY <1>13, <2>2 DEF TaskFinished, IInv, RunningTaskIsActive, Live, Working
    <3>2. ~LeavesQuietly(t)
      BY <2>2, <3>1, Bounds DEF LeavesQuietly
    <3>3. QED
      BY <1>13, <2>2, <3>2, TaskGivesUpTurn DEF TaskFinished
  <2>3. QED
    BY <2>1, <2>2
<1>14. CASE RecordLeftover(t)
  BY <1>14, TaskRecordsLeftover DEF RecordLeftover
<1>15. CASE EmitTerminal(t)
  <2>1. events[t] = <<"started">>
    BY <1>15 DEF EmitTerminal, IInv, EventsMatchTask, Steps
  <2>2. \E e \in {<<"started", "complete">>, <<"started", "aborted">>} :
           events' = [events EXCEPT ![t] = e]
    BY <1>15, <2>1, Events DEF EmitTerminal, Emit
  <2>3. QED
    BY <1>15, <2>2, TaskReports DEF EmitTerminal
<1>16. CASE ClearActive(t)
  BY <1>16, TaskEnds DEF ClearActive, Ends
<1>17. QED
  BY <1>1, <1>2, <1>3, <1>4, <1>5, <1>6, <1>7, <1>8, <1>9, <1>10, <1>11, <1>12, <1>13,
     <1>14, <1>15, <1>16, <1>r DEF TaskStep

(* A call that has begun. *)
LEMMA ContinueIInv ==
    ASSUME IInv, NEW p \in Procs, Continue(p)
    PROVE  IInv'
<1> USE DEF taskVars, procVars, logVars, idVars, Move, Return
<1> DEFINE Quiet == Labels \ (Aborting \cup Starting)
<1>q. {"idle", "exit", "start", "maybe", "reserve", "clear", "tryCheck", "tryClear",
       "tryConfirm", "tryBusy", "tryExtend"} \subseteq Quiet
  BY DEF Labels, Aborting, Starting
<1>1. CASE StartTake(p)
  BY <1>1, TurnTaken DEF StartTake
<1>2. CASE StartJoin(p)
  BY <1>2, TurnJoined DEF StartJoin
<1>3. CASE StartInstall(p)
  BY <1>3, TurnInstalled DEF StartInstall, Install
<1>4. CASE MaybeStart(p)
  BY <1>4, <1>q, CallerMoves DEF MaybeStart, Aborting
<1>5. CASE ReserveTurn(p)
  BY <1>5, <1>q, CallerMoves DEF ReserveTurn, Aborting
<1>6. CASE AbortAll(p)
  <2>1. CASE activeTask = 0
    BY <1>6, <2>1, <1>q, CallerMoves DEF AbortAll, NothingToAbort, Aborting
  <2>2. CASE activeTask # 0
    BY <1>6, <2>2, TurnTakenForAbort
       DEF AbortAll, TakeForAbort, CancelActiveTask, Aborting, Starting
  <2>3. QED
    BY <2>1, <2>2
<1>7. CASE AbortTask(p)
  BY <1>7, VictimKilled DEF AbortTask, Killed, Ends, Goto
<1>8. CASE EmitAborted(p)
  <2>1. victim[p] \in Turns /\ events[victim[p]] \in Opened
    BY <1>8 DEF EmitAborted, IInv, VictimIsUnreported, Aborting
  <2>2. \E e \in {<<"aborted">>, <<"started", "aborted">>} :
           events' = [events EXCEPT ![victim[p]] = e]
    BY <1>8, <2>1, Events DEF EmitAborted, Emit, Opened
  <2>3. QED
    BY <1>8, <2>2, VictimReported DEF EmitAborted
<1>9. CASE ClearPending(p)
  BY <1>9, <1>q, CallerMoves DEF ClearPending, Aborting
<1>10. CASE RecordItems(p)
  BY <1>10, <1>q, CallerMoves DEF RecordItems, Aborting
<1>11. CASE TryReserve(p)
  BY <1>11, <1>q, CallerMoves DEF TryReserve, Aborting
<1>12. CASE TryCheck(p)
  BY <1>12, <1>q, CallerMoves DEF TryCheck, Aborting
<1>13. CASE ClearReservedIdleTurn(p)
  BY <1>13, <1>q, CallerMoves DEF ClearReservedIdleTurn, Aborting
<1>14. CASE TryConfirm(p)
  BY <1>14, <1>q, CallerMoves DEF TryConfirm, Aborting
<1>15. CASE TryExtend(p)
  BY <1>15, <1>q, CallerMoves DEF TryExtend, Aborting
<1>16. QED
  BY <1>1, <1>2, <1>3, <1>4, <1>5, <1>6, <1>7, <1>8, <1>9, <1>10, <1>11, <1>12, <1>13,
     <1>14, <1>15 DEF Continue

(* Operations and calls from outside. *)
LEMMA RequestIInv ==
    ASSUME IInv, Submission \/ ShutdownComplete \/ \E p \in Clients : Call(p)
    PROVE  IInv'
<1> USE DEF taskVars, procVars, logVars, idVars, Move, Spawn
<1> DEFINE Quiet == Labels \ (Aborting \cup Starting)
<1>q. {"abortAll", "maybe", "exited", "recordItems", "tryReserve"} \subseteq Quiet
  BY DEF Labels, Aborting, Starting
<1>1. CASE UserInput
  <2>1. CASE UNCHANGED pc
    BY <1>1, <2>1, ControlUnmoved DEF UserInput, ctl
  <2>2. CASE pc' = [pc EXCEPT !["loop"] = "abortAll"]
    BY <1>1, <2>2, <1>q, Bounds, CallerMoves DEF UserInput, Aborting
  <2>3. QED
    BY <1>1, <2>1, <2>2 DEF UserInput
<1>2. CASE InterAgentCommunication
  <2>1. CASE UNCHANGED pc
    BY <1>2, <2>1, ControlUnmoved DEF InterAgentCommunication, ctl
  <2>2. CASE pc' = [pc EXCEPT !["loop"] = "maybe"]
    BY <1>2, <2>2, <1>q, Bounds, CallerMoves DEF InterAgentCommunication, Aborting
  <2>3. QED
    BY <1>2, <2>1, <2>2 DEF InterAgentCommunication
<1>3. CASE Interrupt
  BY <1>3, <1>q, Bounds, CallerMoves DEF Interrupt, Aborting
<1>4. CASE Compact
  BY <1>4, <1>q, Bounds, CallerMoves DEF Compact, Aborting
<1>5. CASE Shutdown
  BY <1>5, <1>q, Bounds, CallerMoves DEF Shutdown, Aborting
<1>6. CASE ShutdownComplete
  BY <1>6, <1>q, Bounds, CallerMoves DEF ShutdownComplete, Aborting
<1>7. ASSUME NEW p \in Clients, SteerInput(p)
      PROVE  IInv'
  BY <1>7, ControlUnmoved DEF SteerInput, ctl
<1>8. ASSUME NEW p \in Clients, InjectNoNewTurn(p)
      PROVE  IInv'
  <2>1. CASE UNCHANGED pc
    BY <1>8, <2>1, ControlUnmoved DEF InjectNoNewTurn, ctl
  <2>2. CASE pc' = [pc EXCEPT ![p] = "recordItems"]
    BY <1>8, <2>2, <1>q, Bounds, CallerMoves DEF InjectNoNewTurn, Aborting
  <2>3. QED
    BY <1>8, <2>1, <2>2 DEF InjectNoNewTurn
<1>9. ASSUME NEW p \in Clients, AbortTurnIfActive(p)
      PROVE  IInv'
  BY <1>9, Bounds, TurnTakenForAbort
     DEF AbortTurnIfActive, Steerable, TakeForAbort, CancelActiveTask, Aborting, Starting
<1>10. ASSUME NEW p \in Clients, TryStartTurnIfIdle(p)
      PROVE  IInv'
  BY <1>10, <1>q, Bounds, CallerMoves DEF TryStartTurnIfIdle, Aborting
<1>11. QED
  BY <1>1, <1>2, <1>3, <1>4, <1>5, <1>6, <1>7, <1>8, <1>9, <1>10 DEF Submission, Call

LEMMA NextIInv == IInv /\ [Next]_vars => IInv'
<1> SUFFICES ASSUME IInv, [Next]_vars PROVE IInv'
  OBVIOUS
<1>1. CASE UNCHANGED vars
  BY <1>1, ControlUnmoved DEF vars, taskVars, procVars, logVars, idVars, ctl
<1>2. CASE Next
  BY <1>2, RequestIInv, ContinueIInv, TaskStepIInv DEF Next
<1>3. QED
  BY <1>1, <1>2

(***************************************************************************)
(* Theorems.                                                               *)
(***************************************************************************)
(* The control invariant of the session's turns: IInv is inductive.        *)
THEOREM ControlInvariant == Spec => []IInv
<1>1. Init => IInv
  BY InitIInv
<1>2. IInv /\ [Next]_vars => IInv'
  BY NextIInv
<1>3. QED
  BY <1>1, <1>2, PTL DEF Spec

(* A task nobody has cancelled is the task of active_turn, whichever       *)
(* callers race through spawn_task, abort_all_tasks, try_start_turn_if_idle*)
(* and on_task_finished: at most one task works, and an interrupt finds it.*)
THEOREM RunningTaskIsActiveHolds == Spec => []RunningTaskIsActive
<1>1. IInv => RunningTaskIsActive
  BY DEF IInv
<1>2. QED
  BY <1>1, ControlInvariant, PTL

(* A turn's events are TurnStarted at most once and first, and at most one *)
(* of TurnComplete and TurnAborted, last, although on_task_finished and    *)
(* handle_task_abort send them from two different tokio tasks.             *)
THEOREM TurnEventsWellFormedHolds == Spec => []TurnEventsWellFormed
<1>1. IInv => TurnEventsWellFormed
  BY DEF IInv, ControlTyped, EventsMatchTask, Steps, Working, Finishing, Opened, Closed,
         TurnEventsWellFormed
<1>2. QED
  BY <1>1, ControlInvariant, PTL

(* A task whose turn has had its terminal event records nothing any more.  *)
THEOREM QuietAfterTerminalHolds == Spec => []QuietAfterTerminal
<1>1. ASSUME IInv, NEW t \in Turns, Terminal(t)
      PROVE  taskPc[t] \in {"clear", "dead"}
  <2>1. events[t] # <<>> /\ events[t] # <<"started">>
    BY <1>1 DEF Terminal
  <2>2. QED
    BY <1>1, <2>1 DEF IInv, ControlTyped, EventsMatchTask, Steps, Working, Finishing
<1>2. IInv => QuietAfterTerminal
  BY <1>1 DEF QuietAfterTerminal
<1>3. QED
  BY <1>2, ControlInvariant, PTL

(***************************************************************************)
(* Types.  The types of the control variables are part of IInv; the others *)
(* are grouped by what an action changes together.                         *)
(***************************************************************************)
QueueTyped ==
    /\ activeState \in 0 .. MaxTurns /\ states \in 0 .. MaxTurns
    /\ activeTask # 0 => activeState # 0
    /\ pending \in [States -> Seq(Items)]
    /\ phase \in [States -> {"current", "next"}]
    /\ mailbox \in Seq(Items)
LogTyped ==
    /\ events \in [Turns -> Seq({"started", "complete", "aborted"})]
    /\ owner \in [Inputs -> 0 .. MaxTurns]
RunTyped == run \in [Turns -> RunType]
LocalTyped == local \in [Procs -> LocalType]
EnvTyped == unsent \subseteq Items /\ budget \in 0 .. MaxOps
DataTyped == QueueTyped /\ LogTyped /\ RunTyped /\ LocalTyped /\ EnvTyped

LEMMA TypeParts == IInv /\ DataTyped => TypeOK
BY DEF IInv, ControlTyped, DataTyped, QueueTyped, LogTyped, RunTyped, LocalTyped, EnvTyped, TypeOK

LEMMA StateBounds == States = 1 .. MaxTurns /\ MaxTurns \in Nat \ {0} /\ MaxSamples \in Nat
BY SessionAssumption DEF States

LEMMA PendingInputTyped == QueueTyped => GetPendingInput \in Seq(Items)
<1> SUFFICES ASSUME QueueTyped PROVE GetPendingInput \in Seq(Items)
  OBVIOUS
<1> DEFINE M == IF AcceptsMailboxDelivery THEN mailbox ELSE <<>>
<1>1. PendingOfActive \in Seq(Items)
  BY StateBounds DEF QueueTyped, PendingOfActive
<1>2. M \in Seq(Items)
  BY DEF QueueTyped
<1> HIDE DEF M
<1>3. PendingOfActive \o M \in Seq(Items)
  BY <1>1, <1>2
<1> QED
  BY <1>3 DEF GetPendingInput, M

(* The actions that leave the locals of the callers alone. *)
LEMMA LocalStep ==
    ASSUME IInv, DataTyped, Next PROVE LocalTyped'
<1> USE DEF SetLocal
<1>0. /\ local \in [Procs -> LocalType]
      /\ QueueTyped
      /\ activeState \in 0 .. MaxTurns /\ states \in 0 .. MaxTurns
      /\ "loop" \in Procs /\ Clients \subseteq Procs
      /\ MaxTurns \in Nat
  BY Bounds DEF DataTyped, LocalTyped, QueueTyped
<1>1. NoLocal \in LocalType
  BY <1>0 DEF NoLocal, LocalType
<1>2. ASSUME NEW p \in Procs, NEW l \in LocalType, SetLocal(p, l) PROVE LocalTyped'
  BY <1>0, <1>2 DEF LocalTyped
<1>3. ASSUME local' = local PROVE LocalTyped'
  BY <1>0, <1>3 DEF LocalTyped
<1>4. ASSUME NEW t \in Turns, TaskStep(t) PROVE LocalTyped'
  <2>1. local' = local
    BY <1>4 DEF TaskStep, Begin, RecordInput, DropInput, Drain, RecordPending, OutputMessage,
       OutputToolCall, SamplingEnds, RetryWithoutImages, FollowUp, NoFollowUp, RunTurnAgain,
       RunCompact, TaskFinished, RecordLeftover, EmitTerminal, ClearActive, procVars
  <2> QED
    BY <2>1, <1>3
<1>5. ASSUME NEW p \in Procs, Continue(p) PROVE LocalTyped'
  <2>0. local[p] \in LocalType
    BY <1>0
  <2>1. CASE StartTake(p)
    <3>1. [local[p] EXCEPT !.items = GetPendingInput] \in LocalType
      BY <2>0, <1>0, PendingInputTyped DEF LocalType
    <3> QED
      BY <2>1, <3>1, <1>2 DEF StartTake
  <2>2. CASE StartJoin(p)
    <3>0. ASSUME NEW s \in Seq(Items) PROVE [local[p] EXCEPT !.items = s] \in LocalType
      BY <2>0, <3>0 DEF LocalType
    <3>e. <<>> \in Seq(Items)
      OBVIOUS
    <3>1. [local[p] EXCEPT !.items = <<>>] \in LocalType
      BY <3>0, <3>e
    <3> QED
      BY <2>2, <3>1, <1>2 DEF StartJoin
  <2>3. CASE StartInstall(p) \/ RecordItems(p) \/ ClearReservedIdleTurn(p) \/ TryExtend(p)
    BY <2>3, <1>1, <1>2 DEF StartInstall, RecordItems, ClearReservedIdleTurn, TryExtend, Return
  <2>4. CASE MaybeStart(p) \/ ReserveTurn(p)
    BY <2>4, <1>1, <1>2, <1>3 DEF MaybeStart, ReserveTurn, Return
  <2>5. CASE AbortAll(p)
    <3>1. [local[p] EXCEPT !.vstate = activeState] \in LocalType
      BY <2>0, <1>0 DEF LocalType
    <3> QED
      BY <2>5, <3>1, <1>1, <1>2, <1>3 DEF AbortAll, NothingToAbort, TakeForAbort, Return
  <2>6. CASE AbortTask(p) \/ EmitAborted(p) \/ TryCheck(p) \/ TryConfirm(p)
    BY <2>6, <1>3 DEF AbortTask, EmitAborted, TryCheck, TryConfirm
  <2>7. CASE ClearPending(p)
    <3>0. ASSUME NEW s \in 0 .. MaxTurns PROVE [local[p] EXCEPT !.vstate = s] \in LocalType
      BY <2>0, <3>0 DEF LocalType
    <3>1. [local[p] EXCEPT !.vstate = 0] \in LocalType
      BY <3>0, <1>0
    <3> QED
      BY <2>7, <3>1, <1>2 DEF ClearPending
  <2>8. CASE TryReserve(p)
    <3>1. CASE NoActiveTurn
      <4>0. ASSUME NEW s \in 0 .. MaxTurns PROVE [local[p] EXCEPT !.state = s] \in LocalType
        BY <2>0, <4>0 DEF LocalType
      <4>1. states + 1 \in 0 .. MaxTurns
        BY <1>0, <2>8, <3>1 DEF TryReserve, NewActiveTurn
      <4>2. [local[p] EXCEPT !.state = states + 1] \in LocalType
        BY <4>0, <4>1
      <4> QED
        BY <2>8, <3>1, <4>2, <1>2 DEF TryReserve
    <3>2. CASE ~NoActiveTurn
      BY <2>8, <3>2, <1>1, <1>2 DEF TryReserve, Return
    <3> QED
      BY <3>1, <3>2
  <2> QED
    BY <1>5, <2>1, <2>2, <2>3, <2>4, <2>5, <2>6, <2>7, <2>8 DEF Continue
<1>6. ASSUME Submission \/ ShutdownComplete PROVE LocalTyped'
  <2>1. ASSUME NEW k \in {"regular", "compact"}, NEW i \in Seq(Items),
               NEW n \in {"recv", "start", "exit"}, Spawn(k, i, n)
        PROVE  LocalTyped'
    <3>1. [NoLocal EXCEPT !.kind = k, !.input = i, !.then = n] \in LocalType
      BY <1>1 DEF LocalType
    <3> QED
      BY <2>1, <3>1, <1>0, <1>2 DEF Spawn
  <2>2. CASE UserInput
    <3>1. ASSUME NEW i \in Inputs PROVE <<i>> \in Seq(Items)
      BY <3>1 DEF Items
    <3> QED
      BY <2>2, <3>1, <2>1, <1>3 DEF UserInput
  <2>3. CASE InterAgentCommunication \/ ShutdownComplete
    BY <2>3, <1>3 DEF InterAgentCommunication, ShutdownComplete
  <2>4. CASE Interrupt \/ Compact \/ Shutdown
    <3>1. <<>> \in Seq(Items)
      OBVIOUS
    <3> QED
      BY <2>4, <3>1, <2>1 DEF Interrupt, Compact, Shutdown
  <2> QED
    BY <1>6, <2>2, <2>3, <2>4 DEF Submission
<1>7. ASSUME NEW p \in Clients, Call(p) PROVE LocalTyped'
  <2>1. ASSUME NEW x \in Injections PROVE [NoLocal EXCEPT !.items = <<x>>] \in LocalType
    <3>1. <<x>> \in Seq(Items)
      BY <2>1 DEF Items
    <3> QED
      BY <1>1, <3>1 DEF LocalType
  <2>2. [NoLocal EXCEPT !.vstate = activeState] \in LocalType
    BY <1>0, <1>1 DEF LocalType
  <2> QED
    BY <1>7, <2>1, <2>2, <1>0, <1>2, <1>3 DEF Call, SteerInput, InjectNoNewTurn,
       AbortTurnIfActive, TakeForAbort, TryStartTurnIfIdle, procVars
<1> QED
  BY <1>4, <1>5, <1>6, <1>7 DEF Next

LEMMA EnvStep ==
    ASSUME IInv, DataTyped, Next PROVE EnvTyped'
<1>0. unsent \subseteq Items /\ budget \in 0 .. MaxOps /\ MaxOps \in Nat
  BY OpsAssumption DEF DataTyped, EnvTyped
<1>1. ASSUME UNCHANGED envVars PROVE EnvTyped'
  BY <1>0, <1>1 DEF EnvTyped, envVars
<1>2. ASSUME NEW items, Submit(items) PROVE EnvTyped'
  BY <1>0, <1>2 DEF EnvTyped, Submit
<1>3. ASSUME SubmitOp PROVE EnvTyped'
  BY <1>0, <1>3 DEF EnvTyped, SubmitOp
<1>4. ASSUME NEW t \in Turns, TaskStep(t) PROVE EnvTyped'
  BY <1>4, <1>1 DEF TaskStep, Begin, RecordInput, DropInput, Drain, RecordPending,
     OutputMessage, OutputToolCall, SamplingEnds, RetryWithoutImages, FollowUp, NoFollowUp,
     RunTurnAgain, RunCompact, TaskFinished, RecordLeftover, EmitTerminal, ClearActive
<1>5. ASSUME NEW p \in Procs, Continue(p) PROVE EnvTyped'
  BY <1>5, <1>1 DEF Continue, StartTake, StartJoin, StartInstall, MaybeStart, ReserveTurn,
     AbortAll, AbortTask, EmitAborted, ClearPending, RecordItems, TryReserve, TryCheck,
     ClearReservedIdleTurn, TryConfirm, TryExtend
<1>6. ASSUME Submission \/ ShutdownComplete PROVE EnvTyped'
  BY <1>6, <1>1, <1>2, <1>3 DEF Submission, ShutdownComplete, UserInput,
     InterAgentCommunication, Interrupt, Compact, Shutdown
<1>7. ASSUME NEW p \in Clients, Call(p) PROVE EnvTyped'
  BY <1>7, <1>2, <1>3 DEF Call, SteerInput, InjectNoNewTurn, AbortTurnIfActive, TryStartTurnIfIdle
<1> QED
  BY <1>4, <1>5, <1>6, <1>7 DEF Next

LEMMA RunStep ==
    ASSUME IInv, DataTyped, Next PROVE RunTyped'
<1>0. /\ run \in [Turns -> RunType] /\ QueueTyped
      /\ activeState \in 0 .. MaxTurns
      /\ MaxSamples \in Nat /\ MaxTurns \in Nat
  BY StateBounds DEF DataTyped, RunTyped, QueueTyped
<1>1. ASSUME NEW k \in {"regular", "compact"}, NEW i \in Seq(Items) PROVE NewRun(k, i) \in RunType
  <2>1. 0 \in 0 .. MaxSamples /\ 0 \in 0 .. MaxTurns /\ <<>> \in Seq(Items)
    BY <1>0
  <2> QED
    BY <1>1, <2>1 DEF NewRun, RunType
<1>2. NoRun \in RunType
  <2>1. <<>> \in Seq(Items)
    OBVIOUS
  <2> QED
    BY <2>1, <1>1 DEF NoRun
<1>3. ASSUME run' = run PROVE RunTyped'
  BY <1>0, <1>3 DEF RunTyped
<1>4. ASSUME NEW t \in Turns, NEW r \in RunType, run' = [run EXCEPT ![t] = r] PROVE RunTyped'
  BY <1>0, <1>4 DEF RunTyped
<1>5. ASSUME NEW t \in Turns, TaskStep(t) PROVE RunTyped'
  <2>0. run[t] \in RunType
    BY <1>0
  <2>1. CASE Begin(t) \/ OutputMessage(t) \/ SamplingEnds(t) \/ RecordLeftover(t) \/ EmitTerminal(t)
    BY <2>1, <1>3 DEF Begin, OutputMessage, SamplingEnds, RecordLeftover, EmitTerminal, taskVars
  <2>2. CASE RecordInput(t)
    <3>1. ASSUME NEW b \in BOOLEAN, NEW s \in Seq(Items)
          PROVE [run[t] EXCEPT !.drain = b, !.input = s] \in RunType
      BY <2>0, <3>1 DEF RunType
    <3>2. run' = [run EXCEPT ![t] = [run[t] EXCEPT !.drain = (run[t].input = <<>>), !.input = <<>>]]
      BY <2>2, <1>0 DEF RecordInput
    <3>3. (run[t].input = <<>>) \in BOOLEAN /\ <<>> \in Seq(Items)
      OBVIOUS
    <3> QED
      BY <3>1, <3>2, <3>3, <1>4
  <2>3. CASE DropInput(t)
    <3>1. ASSUME NEW b \in BOOLEAN, NEW s \in Seq(Items)
          PROVE [run[t] EXCEPT !.failed = b, !.input = s] \in RunType
      BY <2>0, <3>1 DEF RunType
    <3>2. PICK b \in BOOLEAN : run' = [run EXCEPT ![t] = [run[t] EXCEPT !.failed = b, !.input = <<>>]]
      BY <2>3, <1>0 DEF DropInput
    <3>3. <<>> \in Seq(Items)
      OBVIOUS
    <3> QED
      BY <3>1, <3>2, <3>3, <1>4
  <2>4. CASE Drain(t) \/ RecordPending(t)
    <3>1. ASSUME NEW s \in Seq(Items) PROVE [run[t] EXCEPT !.batch = s] \in RunType
      BY <2>0, <3>1 DEF RunType
    <3>2. \/ run' = run
          \/ run' = [run EXCEPT ![t] = [run[t] EXCEPT !.batch = GetPendingInput]]
          \/ run' = [run EXCEPT ![t] = [run[t] EXCEPT !.batch = <<>>]]
      BY <2>4, <1>0 DEF Drain, RecordPending
    <3>3. <<>> \in Seq(Items) /\ GetPendingInput \in Seq(Items)
      BY <1>0, PendingInputTyped
    <3> QED
      BY <3>1, <3>2, <3>3, <1>3, <1>4
  <2>5. CASE OutputToolCall(t) \/ RetryWithoutImages(t)
    <3>1. ASSUME NEW b \in BOOLEAN, NEW n \in 0 .. MaxSamples
          PROVE [run[t] EXCEPT !.follow = b, !.samples = n] \in RunType
      BY <2>0, <3>1 DEF RunType
    <3>2. PICK b \in BOOLEAN :
             run' = [run EXCEPT ![t] = [run[t] EXCEPT !.follow = b, !.samples = run[t].samples + 1]]
      BY <2>5, <1>0, <2>0 DEF OutputToolCall, RetryWithoutImages, RunType
    <3>3. run[t].samples \in 0 .. MaxSamples /\ run[t].samples < MaxSamples
      BY <2>5, <2>0 DEF OutputToolCall, RetryWithoutImages, RunType
    <3>4. run[t].samples + 1 \in 0 .. MaxSamples
      BY <3>3, <1>0
    <3> QED
      BY <3>1, <3>2, <3>4, <1>4
  <2>6. CASE FollowUp(t)
    <3>1. ASSUME NEW b \in BOOLEAN
          PROVE /\ [run[t] EXCEPT !.drain = b, !.follow = FALSE] \in RunType
                /\ [run[t] EXCEPT !.failed = b, !.follow = FALSE] \in RunType
      BY <2>0, <3>1 DEF RunType
    <3>2. PICK b \in BOOLEAN :
             \/ run' = [run EXCEPT ![t] = [run[t] EXCEPT !.drain = b, !.follow = FALSE]]
             \/ run' = [run EXCEPT ![t] = [run[t] EXCEPT !.failed = b, !.follow = FALSE]]
      BY <2>6, <1>0, <2>0 DEF FollowUp
    <3> QED
      BY <3>1, <3>2, <1>4
  <2>7. CASE NoFollowUp(t)
    <3>1. ASSUME NEW n \in 0 .. MaxSamples
          PROVE [run[t] EXCEPT !.drain = TRUE, !.samples = n] \in RunType
      BY <2>0, <3>1 DEF RunType
    <3>2. CASE run' = run
      BY <3>2, <1>3
    <3>3. CASE /\ run[t].samples < MaxSamples
               /\ run' = [run EXCEPT ![t] = [run[t] EXCEPT !.drain = TRUE, !.samples = run[t].samples + 1]]
      <4>1. run[t].samples \in 0 .. MaxSamples
        BY <2>0 DEF RunType
      <4>2. run[t].samples + 1 \in 0 .. MaxSamples
        BY <4>1, <3>3, <1>0
      <4> QED
        BY <3>1, <3>3, <4>2, <1>4
    <3> QED
      BY <2>7, <3>2, <3>3, <1>0, <2>0 DEF NoFollowUp, RunType
  <2>8. CASE RunTurnAgain(t) \/ RunCompact(t)
    <3>1. ASSUME NEW b \in BOOLEAN
          PROVE /\ [run[t] EXCEPT !.follow = FALSE, !.drain = FALSE] \in RunType
                /\ [run[t] EXCEPT !.failed = b] \in RunType
      BY <2>0, <3>1 DEF RunType
    <3>2. PICK b \in BOOLEAN :
             \/ run' = [run EXCEPT ![t] = [run[t] EXCEPT !.follow = FALSE, !.drain = FALSE]]
             \/ run' = [run EXCEPT ![t] = [run[t] EXCEPT !.failed = b]]
      BY <2>8, <1>0, <2>0 DEF RunTurnAgain, RunCompact
    <3> QED
      BY <3>1, <3>2, <1>4
  <2>9. CASE TaskFinished(t)
    <3>1. [run[t] EXCEPT !.state = activeState] \in RunType
      BY <2>0, <1>0 DEF RunType
    <3>2. \/ run' = [run EXCEPT ![t] = NoRun]
          \/ run' = [run EXCEPT ![t] = [run[t] EXCEPT !.state = activeState]]
      BY <2>9, <1>0 DEF TaskFinished, Ends
    <3> QED
      BY <3>1, <3>2, <1>2, <1>4
  <2>10. CASE ClearActive(t)
    BY <2>10, <1>2, <1>4 DEF ClearActive, Ends
  <2> QED
    BY <1>5, <2>1, <2>2, <2>3, <2>4, <2>5, <2>6, <2>7, <2>8, <2>9, <2>10 DEF TaskStep
<1>6. ASSUME NEW p \in Procs, Continue(p) PROVE RunTyped'
  <2>1. CASE StartInstall(p)
    <3>1. local[p].kind \in {"regular", "compact"} /\ local[p].input \in Seq(Items)
      BY <1>6 DEF DataTyped, LocalTyped, LocalType
    <3>2. NewRun(local[p].kind, local[p].input) \in RunType
      BY <3>1, <1>1
    <3> QED
      BY <2>1, <3>2, <1>0, <1>2 DEF StartInstall, Install, RunTyped
  <2>2. CASE AbortTask(p)
    <3>1. victim[p] \in Turns
      BY <2>2 DEF AbortTask, IInv, VictimIsUnreported, Aborting
    <3> QED
      BY <2>2, <3>1, <1>2, <1>4 DEF AbortTask, Killed, Ends
  <2>3. CASE ~StartInstall(p) /\ ~AbortTask(p)
    <3>1. run' = run
      BY <1>6, <2>3 DEF Continue, StartTake, StartJoin, MaybeStart, ReserveTurn, AbortAll,
         EmitAborted, ClearPending, RecordItems, TryReserve, TryCheck, ClearReservedIdleTurn,
         TryConfirm, TryExtend, taskVars
    <3> QED
      BY <3>1, <1>3
  <2> QED
    BY <2>1, <2>2, <2>3
<1>7. ASSUME Submission \/ ShutdownComplete \/ \E p \in Clients : Call(p) PROVE RunTyped'
  <2>1. run' = run
    BY <1>7 DEF Submission, ShutdownComplete, Call, UserInput, InterAgentCommunication,
       Interrupt, Compact, Shutdown, SteerInput, InjectNoNewTurn, AbortTurnIfActive,
       TryStartTurnIfIdle, taskVars
  <2> QED
    BY <2>1, <1>3
<1> QED
  BY <1>5, <1>6, <1>7 DEF Next

LEMMA LogStep ==
    ASSUME IInv, DataTyped, Next PROVE LogTyped'
<1> DEFINE E == {"started", "complete", "aborted"}
<1>0. /\ events \in [Turns -> Seq(E)] /\ owner \in [Inputs -> 0 .. MaxTurns]
      /\ activeTask \in 0 .. MaxTurns
      /\ "started" \in E /\ "complete" \in E /\ "aborted" \in E
  BY DEF DataTyped, LogTyped, IInv, ControlTyped
<1> HIDE DEF E
<1>1. ASSUME UNCHANGED <<events, owner>> PROVE LogTyped'
  BY <1>0, <1>1 DEF LogTyped, E
<1>2. ASSUME NEW t \in Turns, NEW e \in E, Emit(t, e), owner' = owner PROVE LogTyped'
  <2>1. Append(events[t], e) \in Seq(E)
    BY <1>0, <1>2
  <2>2. events' \in [Turns -> Seq(E)]
    BY <1>0, <1>2, <2>1 DEF Emit
  <2> QED
    BY <2>2, <1>0, <1>2 DEF LogTyped, E
<1>3. ASSUME events' = events, owner' \in [Inputs -> 0 .. MaxTurns] PROVE LogTyped'
  BY <1>0, <1>3 DEF LogTyped, E
<1>4. ASSUME NEW t \in Turns, TaskStep(t) PROVE LogTyped'
  <2>1. CASE Begin(t)
    BY <2>1, <1>0, <1>2 DEF Begin
  <2>2. CASE EmitTerminal(t)
    BY <2>2, <1>0, <1>2 DEF EmitTerminal
  <2>3. CASE ~Begin(t) /\ ~EmitTerminal(t)
    BY <1>4, <2>3, <1>1 DEF TaskStep, RecordInput, DropInput, Drain, RecordPending,
       OutputMessage, OutputToolCall, SamplingEnds, RetryWithoutImages, FollowUp, NoFollowUp,
       RunTurnAgain, RunCompact, TaskFinished, RecordLeftover, ClearActive, logVars
  <2> QED
    BY <2>1, <2>2, <2>3
<1>5. ASSUME NEW p \in Procs, Continue(p) PROVE LogTyped'
  <2>1. CASE StartInstall(p)
    <3>1. turn[p] \in 0 .. MaxTurns
      BY <1>5 DEF IInv, ControlTyped
    <3>2. owner' \in [Inputs -> 0 .. MaxTurns]
      BY <2>1, <3>1, <1>0 DEF StartInstall, Install
    <3> QED
      BY <2>1, <3>2, <1>3 DEF StartInstall
  <2>2. CASE EmitAborted(p)
    <3>1. victim[p] \in Turns
      BY <2>2 DEF EmitAborted, IInv, VictimIsUnreported, Aborting
    <3> QED
      BY <2>2, <3>1, <1>0, <1>2 DEF EmitAborted
  <2>3. CASE ~StartInstall(p) /\ ~EmitAborted(p)
    BY <1>5, <2>3, <1>1 DEF Continue, StartTake, StartJoin, MaybeStart, ReserveTurn, AbortAll,
       AbortTask, ClearPending, RecordItems, TryReserve, TryCheck, ClearReservedIdleTurn,
       TryConfirm, TryExtend, logVars
  <2> QED
    BY <2>1, <2>2, <2>3
<1>6. ASSUME NEW i \in Inputs, Steer(i), events' = events PROVE LogTyped'
  <2>1. owner' \in [Inputs -> 0 .. MaxTurns]
    BY <1>6, <1>0 DEF Steer
  <2> QED
    BY <2>1, <1>6, <1>3
<1>7. ASSUME Submission \/ ShutdownComplete PROVE LogTyped'
  BY <1>7, <1>1, <1>6 DEF Submission, ShutdownComplete, UserInput, InterAgentCommunication,
     Interrupt, Compact, Shutdown, logVars
<1>8. ASSUME NEW p \in Clients, Call(p) PROVE LogTyped'
  BY <1>8, <1>1, <1>6 DEF Call, SteerInput, InjectNoNewTurn, AbortTurnIfActive,
     TryStartTurnIfIdle, logVars
<1> QED
  BY <1>4, <1>5, <1>7, <1>8 DEF Next

(* How a step may change the queues. *)
LEMMA QueueStep ==
    ASSUME IInv, DataTyped, Next PROVE QueueTyped'
<1> USE StateBounds
<1>0. /\ activeState \in 0 .. MaxTurns /\ states \in 0 .. MaxTurns
      /\ activeTask # 0 => activeState # 0
      /\ pending \in [States -> Seq(Items)]
      /\ phase \in [States -> {"current", "next"}]
      /\ mailbox \in Seq(Items)
      /\ <<>> \in Seq(Items)
      /\ QueueTyped
  BY DEF DataTyped, QueueTyped
(* active_turn is left alone, given up, or is new. *)
<1> DEFINE ActiveOK == /\ activeState' \in 0 .. MaxTurns /\ states' \in 0 .. MaxTurns
                       /\ activeTask' # 0 => activeState' # 0
           QueuesOK == /\ pending' \in [States -> Seq(Items)]
                       /\ phase' \in [States -> {"current", "next"}]
                       /\ mailbox' \in Seq(Items)
<1>1. ActiveOK /\ QueuesOK => QueueTyped'
  BY DEF QueueTyped
<1>2. ASSUME UNCHANGED <<activeState, activeTask, states>> PROVE ActiveOK
  BY <1>0, <1>2
<1>3. ASSUME UNCHANGED queueVars PROVE QueuesOK
  BY <1>0, <1>3 DEF queueVars
<1>4. ASSUME NewActiveTurn PROVE ActiveOK /\ activeState' \in States
  BY <1>0, <1>4 DEF NewActiveTurn
<1>5. ASSUME DrainPending PROVE QueuesOK
  <2>1. pending' \in [States -> Seq(Items)]
    BY <1>5, <1>0 DEF DrainPending, TakenPending
  <2>2. mailbox' \in Seq(Items) /\ phase' = phase
    BY <1>5, <1>0 DEF DrainPending
  <2> QED
    BY <2>1, <2>2, <1>0
<1>6. ASSUME NEW s, NEW x \in Seq(Items), pending' = ExtendPending(s, x), s \in States
      PROVE pending' \in [States -> Seq(Items)]
  <2>1. pending[s] \o x \in Seq(Items)
    BY <1>0, <1>6
  <2> QED
    BY <2>1, <1>0, <1>6 DEF ExtendPending
<1>7. ASSUME NEW s, pending' = [pending EXCEPT ![s] = <<>>] PROVE pending' \in [States -> Seq(Items)]
  BY <1>0, <1>7
<1> HIDE DEF ActiveOK, QueuesOK
<1>8. ASSUME NEW t \in Turns, TaskStep(t) PROVE QueueTyped'
  <2>1. CASE Drain(t)
    BY <2>1, <1>1, <1>2, <1>3, <1>5 DEF Drain, idVars
  <2>2. CASE OutputMessage(t) \/ OutputToolCall(t)
    <3>1. phase' \in [States -> {"current", "next"}] /\ pending' = pending /\ mailbox' = mailbox
      BY <2>2, <1>0 DEF OutputMessage, OutputToolCall, DeferMailboxDelivery, AcceptMailboxDelivery
    <3>2. UNCHANGED <<activeState, activeTask, states>>
      BY <2>2 DEF OutputMessage, OutputToolCall, idVars
    <3> QED
      BY <3>1, <3>2, <1>0, <1>1, <1>2 DEF QueuesOK
  <2>3. CASE RecordLeftover(t)
    <3>1. UNCHANGED <<activeState, activeTask, states, phase, mailbox>>
      BY <2>3 DEF RecordLeftover, idVars
    <3>2. pending' \in [States -> Seq(Items)]
      BY <2>3, <1>7 DEF RecordLeftover
    <3> QED
      BY <3>1, <3>2, <1>0, <1>1, <1>2 DEF QueuesOK
  <2>4. CASE TaskFinished(t) \/ ClearActive(t)
    <3>1. UNCHANGED <<states, queueVars>>
      BY <2>4 DEF TaskFinished, ClearActive, idVars
    <3>2. /\ activeState' \in {activeState, 0} /\ activeTask' \in {activeTask, 0}
          /\ activeState' # activeState => activeTask' = 0
      BY <2>4 DEF TaskFinished, ClearActive, StillMine
    <3>3. ActiveOK
      BY <3>1, <3>2, <1>0 DEF ActiveOK
    <3> QED
      BY <3>1, <3>3, <1>1, <1>3
  <2>5. CASE \/ Begin(t) \/ RecordInput(t) \/ DropInput(t) \/ RecordPending(t) \/ SamplingEnds(t)
             \/ RetryWithoutImages(t) \/ FollowUp(t) \/ NoFollowUp(t) \/ RunTurnAgain(t)
             \/ RunCompact(t) \/ EmitTerminal(t)
    <3>1. UNCHANGED <<activeState, activeTask, states, queueVars>>
      BY <2>5 DEF Begin, RecordInput, DropInput, RecordPending, SamplingEnds,
         RetryWithoutImages, FollowUp, NoFollowUp, RunTurnAgain, RunCompact, EmitTerminal, idVars
    <3> QED
      BY <3>1, <1>1, <1>2, <1>3
  <2> QED
    BY <1>8, <2>1, <2>2, <2>3, <2>4, <2>5 DEF TaskStep
<1>9. ASSUME NEW p \in Procs, NEW l, TakeForAbort(p, l), UNCHANGED <<states, queueVars>>
      PROVE QueueTyped'
  <2>1. ActiveOK
    BY <1>9, <1>0 DEF TakeForAbort, ActiveOK
  <2> QED
    BY <2>1, <1>9, <1>1, <1>3
<1>10. ASSUME NEW p \in Procs, Continue(p) PROVE QueueTyped'
  <2>0. local[p].items \in Seq(Items) /\ local[p].state \in 0 .. MaxTurns
    BY <1>10 DEF DataTyped, LocalTyped, LocalType
  <2>1. CASE StartTake(p)
    BY <2>1, <1>1, <1>2, <1>5 DEF StartTake
  <2>2. CASE StartJoin(p)
    <3>1. ActiveOK /\ activeState' \in States
      BY <2>2, <1>0, <1>2, <1>4 DEF StartJoin
    <3>2. phase' = phase /\ mailbox' = mailbox /\ pending' = ExtendPending(activeState', local[p].items)
      BY <2>2 DEF StartJoin
    <3>3. pending' \in [States -> Seq(Items)]
      BY <3>1, <3>2, <2>0, <1>6
    <3> QED
      BY <3>1, <3>2, <3>3, <1>0, <1>1 DEF QueuesOK
  <2>3. CASE StartInstall(p)
    <3>1. activeState' \in States /\ states' \in 0 .. MaxTurns
      BY <2>3, <1>0, <1>4 DEF StartInstall, ActiveOK
    <3>2. ActiveOK
      BY <3>1 DEF ActiveOK
    <3> QED
      BY <2>3, <3>2, <1>1, <1>3 DEF StartInstall
  <2>4. CASE ReserveTurn(p) \/ TryReserve(p)
    <3>1. ActiveOK
      BY <2>4, <1>2, <1>4 DEF ReserveTurn, TryReserve
    <3> QED
      BY <2>4, <3>1, <1>1, <1>3 DEF ReserveTurn, TryReserve
  <2>5. CASE AbortAll(p)
    <3>1. CASE activeTask = 0
      <4>1. ActiveOK
        BY <2>5, <3>1, <1>0 DEF AbortAll, NothingToAbort, ActiveOK, idVars
      <4> QED
        BY <2>5, <4>1, <1>1, <1>3 DEF AbortAll
    <3>2. CASE activeTask # 0
      BY <2>5, <3>2, <1>9 DEF AbortAll, idVars
    <3> QED
      BY <3>1, <3>2
  <2>6. CASE ClearPending(p)
    <3>1. UNCHANGED <<activeState, activeTask, states, phase, mailbox>>
      BY <2>6 DEF ClearPending, idVars
    <3>2. pending' \in [States -> Seq(Items)]
      BY <2>6, <1>7 DEF ClearPending
    <3> QED
      BY <3>1, <3>2, <1>0, <1>1, <1>2 DEF QueuesOK
  <2>7. CASE ClearReservedIdleTurn(p)
    <3>1. UNCHANGED <<activeTask, states, queueVars>>
      BY <2>7 DEF ClearReservedIdleTurn, idVars
    <3>2. activeState' = activeState \/ (activeState' = 0 /\ activeTask = 0)
      BY <2>7 DEF ClearReservedIdleTurn, ReservedBy
    <3>3. ActiveOK
      BY <3>1, <3>2, <1>0 DEF ActiveOK
    <3> QED
      BY <3>1, <3>3, <1>1, <1>3
  <2>8. CASE TryExtend(p)
    <3>1. UNCHANGED <<activeState, activeTask, states, phase, mailbox>>
      BY <2>8 DEF TryExtend, idVars
    <3>2. pending' \in [States -> Seq(Items)]
      <4>1. CASE local[p].state \in States
        BY <2>8, <4>1, <2>0, <1>6 DEF TryExtend
      <4>2. CASE local[p].state \notin States
        BY <2>8, <4>2, <1>0 DEF TryExtend, ExtendPending
      <4> QED
        BY <4>1, <4>2
    <3> QED
      BY <3>1, <3>2, <1>0, <1>1, <1>2 DEF QueuesOK
  <2>9. CASE \/ MaybeStart(p) \/ AbortTask(p) \/ EmitAborted(p) \/ RecordItems(p)
             \/ TryCheck(p) \/ TryConfirm(p)
    <3>1. UNCHANGED <<activeState, activeTask, states, queueVars>>
      BY <2>9 DEF MaybeStart, AbortTask, EmitAborted, RecordItems, TryCheck, TryConfirm, idVars
    <3> QED
      BY <3>1, <1>1, <1>2, <1>3
  <2> QED
    BY <1>10, <2>1, <2>2, <2>3, <2>4, <2>5, <2>6, <2>7, <2>8, <2>9 DEF Continue
<1>11. ASSUME NEW i \in Inputs, Steerable, Steer(i), UNCHANGED <<activeState, activeTask, states>>
       PROVE QueueTyped'
  <2>1. activeState \in States
    BY <1>11, <1>0 DEF Steerable
  <2>2. <<i>> \in Seq(Items)
    BY <1>11 DEF Items
  <2>3. pending' \in [States -> Seq(Items)]
    BY <1>11, <2>1, <2>2, <1>6 DEF Steer
  <2>4. phase' \in [States -> {"current", "next"}] /\ mailbox' = mailbox
    BY <1>11, <1>0 DEF Steer
  <2> QED
    BY <2>3, <2>4, <1>11, <1>0, <1>1, <1>2 DEF QueuesOK
<1>12. ASSUME Submission \/ ShutdownComplete PROVE QueueTyped'
  <2>1. CASE UserInput
    <3>1. CASE UNCHANGED queueVars
      BY <2>1, <3>1, <1>1, <1>2, <1>3 DEF UserInput, idVars
    <3>2. CASE \E i \in Inputs : Steerable /\ Steer(i)
      BY <2>1, <3>2, <1>11 DEF UserInput, idVars
    <3> QED
      BY <2>1, <3>1, <3>2 DEF UserInput
  <2>2. CASE InterAgentCommunication
    <3>1. PICK m \in Mails : mailbox' = Append(mailbox, m)
      BY <2>2 DEF InterAgentCommunication
    <3>2. m \in Items
      BY <3>1 DEF Items
    <3>3. mailbox' \in Seq(Items)
      BY <3>1, <3>2, <1>0
    <3>4. UNCHANGED <<activeState, activeTask, states, pending, phase>>
      BY <2>2 DEF InterAgentCommunication, idVars
    <3> QED
      BY <3>3, <3>4, <1>0, <1>1, <1>2 DEF QueuesOK
  <2>3. CASE Interrupt \/ Compact \/ Shutdown \/ ShutdownComplete
    BY <2>3, <1>1, <1>2, <1>3 DEF Interrupt, Compact, Shutdown, ShutdownComplete, idVars
  <2> QED
    BY <1>12, <2>1, <2>2, <2>3 DEF Submission
<1>13. ASSUME NEW p \in Clients, Call(p) PROVE QueueTyped'
  <2>1. CASE SteerInput(p)
    BY <2>1, <1>11 DEF SteerInput, idVars
  <2>2. CASE InjectNoNewTurn(p)
    <3>1. UNCHANGED <<activeState, activeTask, states, phase, mailbox>>
      BY <2>2 DEF InjectNoNewTurn, idVars
    <3>2. pending' \in [States -> Seq(Items)]
      <4>1. PICK x \in Injections :
               pending' = pending \/ (activeState # 0 /\ pending' = ExtendPending(activeState, <<x>>))
        BY <2>2 DEF InjectNoNewTurn
      <4>2. <<x>> \in Seq(Items)
        BY <4>1 DEF Items
      <4>3. CASE activeState \in States
        BY <4>1, <4>2, <4>3, <1>0, <1>6
      <4>4. CASE activeState \notin States
        BY <4>1, <4>4, <1>0
      <4> QED
        BY <4>3, <4>4
    <3> QED
      BY <3>1, <3>2, <1>0, <1>1, <1>2 DEF QueuesOK
  <2>3. CASE AbortTurnIfActive(p)
    BY <2>3, <1>9, Bounds DEF AbortTurnIfActive, idVars
  <2>4. CASE TryStartTurnIfIdle(p)
    BY <2>4, <1>1, <1>2, <1>3 DEF TryStartTurnIfIdle, idVars
  <2> QED
    BY <1>13, <2>1, <2>2, <2>3, <2>4 DEF Call
<1> QED
  BY <1>8, <1>10, <1>12, <1>13 DEF Next

LEMMA InitTyped == Init => DataTyped
<1> SUFFICES ASSUME Init PROVE DataTyped
  OBVIOUS
<1> USE StateBounds, OpsAssumption DEF Init
<1>0. <<>> \in Seq(Items) /\ <<>> \in Seq({"started", "complete", "aborted"})
  OBVIOUS
<1>1. QueueTyped /\ LogTyped /\ EnvTyped
  BY <1>0 DEF QueueTyped, LogTyped, EnvTyped
<1>2. RunTyped
  <2>1. 0 \in 0 .. MaxSamples /\ 0 \in 0 .. MaxTurns
    OBVIOUS
  <2>2. NoRun \in RunType
    BY <1>0, <2>1 DEF NoRun, NewRun, RunType
  <2> QED
    BY <2>2 DEF RunTyped
<1>3. LocalTyped
  <2>1. 0 \in 0 .. MaxTurns
    OBVIOUS
  <2>2. NoLocal \in LocalType
    BY <1>0, <2>1 DEF NoLocal, LocalType
  <2> QED
    BY <2>2 DEF LocalTyped
<1> QED
  BY <1>1, <1>2, <1>3 DEF DataTyped

LEMMA NextTyped == IInv /\ DataTyped /\ [Next]_vars => DataTyped'
<1> SUFFICES ASSUME IInv, DataTyped, [Next]_vars PROVE DataTyped'
  OBVIOUS
<1>1. CASE Next
  BY <1>1, QueueStep, LogStep, RunStep, LocalStep, EnvStep DEF DataTyped
<1>2. CASE UNCHANGED vars
  BY <1>2 DEF DataTyped, QueueTyped, LogTyped, RunTyped, LocalTyped, EnvTyped, vars, queueVars,
     logVars, idVars, taskVars, procVars, envVars
<1> QED
  BY <1>1, <1>2

(* What holds of control and data in every reachable state. *)
THEOREM DataInvariant == Spec => [](IInv /\ DataTyped)
<1>1. Init => IInv /\ DataTyped
  BY InitIInv, InitTyped
<1>2. IInv /\ DataTyped /\ [Next]_vars => (IInv /\ DataTyped)'
  BY NextIInv, NextTyped
<1> QED
  BY <1>1, <1>2, PTL DEF Spec

(* Every variable of the session has its type, and a task is only ever     *)
(* held by an active turn, whatever the callers and the tasks interleave.  *)
THEOREM SessionTypeCorrect == Spec => []TypeOK
BY DataInvariant, TypeParts, PTL

(***************************************************************************)
(* Who is responsible for an active turn without a task.                   *)
(***************************************************************************)
StartingCalls == {"start", "join", "install"}
TryingCalls == {"tryCheck", "tryClear", "tryConfirm", "tryExtend"}
CallOwns(p) == pc[p] \in StartingCalls \/ (pc[p] \in TryingCalls /\ local[p].state = activeState)
TaskOwns(t) == taskPc[t] \in Finishing /\ run[t].state = activeState

LEMMA OwnerParts ==
    ActiveTurnHasOwner <=>
        (activeState # 0 /\ activeTask = 0 =>
            (\E p \in Procs : CallOwns(p)) \/ (\E t \in Turns : TaskOwns(t)))
BY DEF ActiveTurnHasOwner, CallOwns, TaskOwns, StartingCalls, TryingCalls

(* Ownership passes from step to step: a step that keeps every owner, or   *)
(* has a new one, or leaves nothing to own, keeps the property.            *)
LEMMA OwnersKept ==
    ASSUME ActiveTurnHasOwner,
           \/ activeState' = 0 \/ activeTask' # 0
           \/ \E p \in Procs : CallOwns(p)'
           \/ \E t \in Turns : TaskOwns(t)'
           \/ /\ activeState' = activeState /\ activeTask = 0
              /\ \A p \in Procs : CallOwns(p) => CallOwns(p)'
              /\ \A t \in Turns : TaskOwns(t) => TaskOwns(t)'
    PROVE  ActiveTurnHasOwner'
<1>1. ASSUME activeState' # 0, activeTask' = 0
      PROVE  (\E p \in Procs : CallOwns(p)') \/ (\E t \in Turns : TaskOwns(t)')
  BY <1>1, OwnerParts
<1> QED
  BY <1>1 DEF ActiveTurnHasOwner, CallOwns, TaskOwns, StartingCalls, TryingCalls

LEMMA TaskKeepsOwner ==
    ASSUME IInv, DataTyped, ActiveTurnHasOwner, NEW t \in Turns, TaskStep(t)
    PROVE  ActiveTurnHasOwner'
<1>0. /\ taskPc \in [Turns -> Working \cup Finishing \cup {"none", "dead"}]
      /\ run \in [Turns -> RunType]
      /\ pc' = pc /\ local' = local
  <2>1. pc' = pc /\ local' = local
    BY DEF TaskStep, Begin, RecordInput, DropInput, Drain, RecordPending, OutputMessage,
       OutputToolCall, SamplingEnds, RetryWithoutImages, FollowUp, NoFollowUp, RunTurnAgain,
       RunCompact, TaskFinished, RecordLeftover, EmitTerminal, ClearActive, procVars
  <2> QED
    BY <2>1 DEF IInv, ControlTyped, DataTyped, RunTyped
<1>1. ASSUME taskPc[t] \notin Finishing, UNCHANGED <<activeState, activeTask>>,
             \A u \in Turns \ {t} : taskPc'[u] = taskPc[u] /\ run'[u] = run[u]
      PROVE  ActiveTurnHasOwner'
  <2>1. \A p \in Procs : CallOwns(p) => CallOwns(p)'
    BY <1>0, <1>1 DEF CallOwns
  <2>2. \A u \in Turns : TaskOwns(u) => TaskOwns(u)'
    BY <1>1 DEF TaskOwns
  <2> QED
    BY <2>1, <2>2, <1>1, OwnersKept
<1>2. CASE \/ Begin(t) \/ RecordInput(t) \/ DropInput(t) \/ Drain(t) \/ RecordPending(t)
           \/ OutputMessage(t) \/ OutputToolCall(t) \/ SamplingEnds(t) \/ RetryWithoutImages(t)
           \/ FollowUp(t) \/ NoFollowUp(t) \/ RunTurnAgain(t) \/ RunCompact(t)
  <2>1. taskPc[t] \notin Finishing /\ UNCHANGED <<activeState, activeTask>>
    BY <1>2 DEF Begin, RecordInput, DropInput, Drain, RecordPending, OutputMessage,
       OutputToolCall, SamplingEnds, RetryWithoutImages, FollowUp, NoFollowUp, RunTurnAgain,
       RunCompact, Finishing
  <2>2. \A u \in Turns \ {t} : taskPc'[u] = taskPc[u] /\ run'[u] = run[u]
    BY <1>0, <1>2 DEF Begin, RecordInput, DropInput, Drain, RecordPending, OutputMessage,
       OutputToolCall, SamplingEnds, RetryWithoutImages, FollowUp, NoFollowUp, RunTurnAgain,
       RunCompact, Goto, taskVars
  <2> QED
    BY <2>1, <2>2, <1>1
<1>3. CASE TaskFinished(t)
  <2>1. CASE LeavesQuietly(t)
    <3>1. taskPc[t] \notin Finishing /\ UNCHANGED <<activeState, activeTask>>
      BY <1>3, <2>1 DEF TaskFinished, Finishing
    <3>2. \A u \in Turns \ {t} : taskPc'[u] = taskPc[u] /\ run'[u] = run[u]
      BY <1>0, <1>3, <2>1 DEF TaskFinished, Ends, Goto
    <3> QED
      BY <3>1, <3>2, <1>1
  <2>2. CASE ~LeavesQuietly(t)
    <3>1. TaskOwns(t)'
      BY <1>0, <1>3, <2>2 DEF TaskFinished, TaskOwns, Goto, Finishing, RunType
    <3> QED
      BY <3>1, OwnersKept
  <2> QED
    BY <2>1, <2>2
<1>4. CASE RecordLeftover(t) \/ EmitTerminal(t)
  <2>1. \A p \in Procs : CallOwns(p) => CallOwns(p)'
    BY <1>0, <1>4 DEF CallOwns, RecordLeftover, EmitTerminal
  <2>2. \A u \in Turns : TaskOwns(u) => TaskOwns(u)'
    BY <1>0, <1>4 DEF TaskOwns, RecordLeftover, EmitTerminal, Goto, Finishing
  <2>3. UNCHANGED <<activeState, activeTask>>
    BY <1>4 DEF RecordLeftover, EmitTerminal
  <2> QED
    BY <2>1, <2>2, <2>3, OwnersKept
<1>5. CASE ClearActive(t)
  <2>1. CASE StillMine(t)
    BY <1>5, <2>1, OwnersKept DEF ClearActive
  <2>2. CASE ~StillMine(t)
    <3>1. UNCHANGED <<activeState, activeTask>> /\ (activeTask # 0 \/ ~TaskOwns(t))
      BY <1>5, <2>2 DEF ClearActive, StillMine, TaskOwns
    <3>2. \A u \in Turns \ {t} : taskPc'[u] = taskPc[u] /\ run'[u] = run[u]
      BY <1>0, <1>5 DEF ClearActive, Ends, Goto
    <3>3. \A p \in Procs : CallOwns(p) => CallOwns(p)'
      BY <1>0, <3>1 DEF CallOwns
    <3>4. ~TaskOwns(t) => \A u \in Turns : TaskOwns(u) => TaskOwns(u)'
      BY <3>1, <3>2 DEF TaskOwns
    <3> QED
      BY <3>1, <3>3, <3>4, OwnersKept
  <2> QED
    BY <2>1, <2>2
<1> QED
  BY <1>2, <1>3, <1>4, <1>5 DEF TaskStep

LEMMA CallKeepsOwner ==
    ASSUME IInv, DataTyped, ActiveTurnHasOwner, NEW p \in Procs, Continue(p)
    PROVE  ActiveTurnHasOwner'
<1>0. /\ pc \in [Procs -> Labels] /\ local \in [Procs -> LocalType]
      /\ taskPc \in [Turns -> Working \cup Finishing \cup {"none", "dead"}]
      /\ run \in [Turns -> RunType]
      /\ states \in 0 .. MaxTurns
  BY DEF IInv, ControlTyped, DataTyped, LocalTyped, RunTyped, QueueTyped
<1>1. ASSUME activeState' = activeState, activeTask' = activeTask,
             UNCHANGED <<taskPc, run>>, CallOwns(p) => CallOwns(p)',
             \A q \in Procs \ {p} : pc'[q] = pc[q] /\ local'[q] = local[q]
      PROVE  ActiveTurnHasOwner'
  <2>1. \A q \in Procs : CallOwns(q) => CallOwns(q)'
    BY <1>1 DEF CallOwns
  <2>2. \A t \in Turns : TaskOwns(t) => TaskOwns(t)'
    BY <1>1 DEF TaskOwns
  <2> QED
    BY <2>1, <2>2, <1>1, OwnersKept
<1>2. CASE StartTake(p) \/ StartJoin(p) \/ TryExtend(p)
  <2>1. CallOwns(p)'
    BY <1>0, <1>2 DEF StartTake, StartJoin, TryExtend, Move, CallOwns, StartingCalls
  <2> QED
    BY <2>1, OwnersKept
<1>3. CASE StartInstall(p)
  <2>1. activeTask' # 0
    BY <1>3, Bounds DEF StartInstall, Install, IInv, StartedTurnIsNew, Starting, ControlTyped
  <2> QED
    BY <2>1, OwnersKept
<1>4. CASE \/ MaybeStart(p) \/ EmitAborted(p) \/ ClearPending(p) \/ RecordItems(p)
  <2>1. ~CallOwns(p) /\ activeState' = activeState /\ activeTask' = activeTask /\ UNCHANGED <<taskPc, run>>
    BY <1>4 DEF MaybeStart, EmitAborted, ClearPending, RecordItems, CallOwns,
       StartingCalls, TryingCalls, taskVars
  <2>2. \A q \in Procs \ {p} : pc'[q] = pc[q] /\ local'[q] = local[q]
    BY <1>0, <1>4 DEF MaybeStart, EmitAborted, ClearPending, RecordItems, Return, Move, SetLocal
  <2> QED
    BY <2>1, <2>2, <1>1
<1>5. CASE ReserveTurn(p)
  <2>1. CASE NoActiveTurn
    <3>1. CallOwns(p)'
      BY <1>0, <1>5, <2>1 DEF ReserveTurn, Move, CallOwns, StartingCalls
    <3> QED
      BY <3>1, OwnersKept
  <2>2. CASE ~NoActiveTurn
    <3>1. ~CallOwns(p) /\ activeState' = activeState /\ activeTask' = activeTask /\ UNCHANGED <<taskPc, run>>
      BY <1>5, <2>2 DEF ReserveTurn, CallOwns, StartingCalls, TryingCalls, taskVars
    <3>2. \A q \in Procs \ {p} : pc'[q] = pc[q] /\ local'[q] = local[q]
      BY <1>0, <1>5, <2>2 DEF ReserveTurn, Return, Move, SetLocal
    <3> QED
      BY <3>1, <3>2, <1>1
  <2> QED
    BY <2>1, <2>2
<1>6. CASE AbortAll(p)
  BY <1>6, OwnersKept DEF AbortAll, NothingToAbort, TakeForAbort
<1>7. CASE AbortTask(p)
  <2>1. victim[p] \in Turns /\ taskPc[victim[p]] \notin Finishing
    BY <1>7 DEF AbortTask, IInv, VictimIsUnreported, Aborting, Live, Working, Finishing
  <2>2. \A t \in Turns : TaskOwns(t) => TaskOwns(t)'
    BY <1>0, <1>7, <2>1 DEF AbortTask, Killed, Ends, Goto, TaskOwns
  <2>3. \A q \in Procs : CallOwns(q) => CallOwns(q)'
    BY <1>0, <1>7 DEF AbortTask, Move, CallOwns, StartingCalls, TryingCalls
  <2> QED
    BY <1>7, <2>2, <2>3, OwnersKept DEF AbortTask
<1>8. CASE TryReserve(p)
  <2>1. CASE NoActiveTurn
    <3>1. /\ activeState' = states + 1
          /\ local' = [local EXCEPT ![p] = [local[p] EXCEPT !.state = states + 1]]
          /\ pc' = [pc EXCEPT ![p] = "tryCheck"]
      BY <1>8, <2>1 DEF TryReserve, NewActiveTurn, SetLocal, Move
    <3>2. CallOwns(p)'
      BY <3>1, <1>0 DEF CallOwns, TryingCalls, LocalType
    <3> QED
      BY <3>2, OwnersKept
  <2>2. CASE ~NoActiveTurn
    <3>1. ~CallOwns(p) /\ activeState' = activeState /\ activeTask' = activeTask /\ UNCHANGED <<taskPc, run>>
      BY <1>8, <2>2 DEF TryReserve, CallOwns, StartingCalls, TryingCalls, taskVars
    <3>2. \A q \in Procs \ {p} : pc'[q] = pc[q] /\ local'[q] = local[q]
      BY <1>0, <1>8, <2>2 DEF TryReserve, Return, Move, SetLocal
    <3> QED
      BY <3>1, <3>2, <1>1
  <2> QED
    BY <2>1, <2>2
<1>9. CASE TryCheck(p)
  <2>1. CallOwns(p) => CallOwns(p)'
    BY <1>0, <1>9 DEF TryCheck, Move, CallOwns, StartingCalls, TryingCalls
  <2>2. \A q \in Procs \ {p} : pc'[q] = pc[q] /\ local'[q] = local[q]
    BY <1>0, <1>9 DEF TryCheck, Move
  <2> QED
    BY <2>1, <2>2, <1>1, <1>9 DEF TryCheck, taskVars
<1>10. CASE ClearReservedIdleTurn(p)
  <2>1. CASE ReservedBy(p)
    BY <1>10, <2>1, OwnersKept DEF ClearReservedIdleTurn
  <2>2. CASE ~ReservedBy(p)
    <3>1. activeState' = activeState /\ activeTask' = activeTask /\ UNCHANGED <<taskPc, run>>
      BY <1>10, <2>2 DEF ClearReservedIdleTurn, taskVars
    <3>2. \A q \in Procs \ {p} : pc'[q] = pc[q] /\ local'[q] = local[q]
      BY <1>0, <1>10 DEF ClearReservedIdleTurn, Move, SetLocal
    <3>3. activeTask # 0 \/ ~CallOwns(p)
      BY <1>10, <2>2 DEF ClearReservedIdleTurn, ReservedBy, CallOwns, StartingCalls, TryingCalls
    <3> QED
      BY <3>1, <3>2, <3>3, <1>1, OwnersKept
  <2> QED
    BY <2>1, <2>2
<1>11. CASE TryConfirm(p)
  <2>1. activeState' = activeState /\ activeTask' = activeTask /\ UNCHANGED <<taskPc, run>>
    BY <1>11 DEF TryConfirm, taskVars
  <2>2. \A q \in Procs \ {p} : pc'[q] = pc[q] /\ local'[q] = local[q]
    BY <1>0, <1>11 DEF TryConfirm, Move
  <2>3. activeTask # 0 \/ (CallOwns(p) => CallOwns(p)')
    BY <1>0, <1>11 DEF TryConfirm, ReservedBy, Move, CallOwns, StartingCalls, TryingCalls
  <2> QED
    BY <2>1, <2>2, <2>3, <1>1, OwnersKept
<1> QED
  BY <1>2, <1>3, <1>4, <1>5, <1>6, <1>7, <1>8, <1>9, <1>10, <1>11 DEF Continue

LEMMA RequestKeepsOwner ==
    ASSUME IInv, DataTyped, ActiveTurnHasOwner,
           Submission \/ ShutdownComplete \/ \E p \in Clients : Call(p)
    PROVE  ActiveTurnHasOwner'
<1>0. /\ pc \in [Procs -> Labels] /\ local \in [Procs -> LocalType]
      /\ "loop" \in Procs /\ Clients \subseteq Procs
  BY Bounds DEF IInv, ControlTyped, DataTyped, LocalTyped
<1>1. ASSUME NEW p \in Procs, pc[p] \in {"idle", "exit"},
             UNCHANGED <<activeState, activeTask, taskPc, run>>,
             \A q \in Procs \ {p} : pc'[q] = pc[q] /\ local'[q] = local[q]
      PROVE  ActiveTurnHasOwner'
  <2>1. \A q \in Procs : CallOwns(q) => CallOwns(q)'
    BY <1>1 DEF CallOwns, StartingCalls, TryingCalls
  <2>2. \A t \in Turns : TaskOwns(t) => TaskOwns(t)'
    BY <1>1 DEF TaskOwns
  <2> QED
    BY <2>1, <2>2, <1>1, OwnersKept
<1>2. ASSUME Submission \/ ShutdownComplete PROVE ActiveTurnHasOwner'
  <2>1. pc["loop"] \in {"idle", "exit"} /\ UNCHANGED <<activeState, activeTask, taskPc, run>>
    BY <1>2 DEF Submission, UserInput, InterAgentCommunication, Interrupt, Compact, Shutdown,
       ShutdownComplete, taskVars
  <2>2. \A q \in Procs \ {"loop"} : pc'[q] = pc[q] /\ local'[q] = local[q]
    BY <1>0, <1>2 DEF Submission, UserInput, InterAgentCommunication, Interrupt, Compact, Shutdown,
       ShutdownComplete, Spawn, Move, SetLocal
  <2> QED
    BY <2>1, <2>2, <1>0, <1>1
<1>3. ASSUME NEW p \in Clients, SteerInput(p) \/ InjectNoNewTurn(p) \/ TryStartTurnIfIdle(p)
      PROVE  ActiveTurnHasOwner'
  <2>1. pc[p] = "idle" /\ UNCHANGED <<activeState, activeTask, taskPc, run>>
    BY <1>3 DEF SteerInput, InjectNoNewTurn, TryStartTurnIfIdle, taskVars
  <2>2. \A q \in Procs \ {p} : pc'[q] = pc[q] /\ local'[q] = local[q]
    BY <1>0, <1>3 DEF SteerInput, InjectNoNewTurn, TryStartTurnIfIdle, Move, SetLocal, procVars
  <2> QED
    BY <2>1, <2>2, <1>0, <1>1
<1>4. ASSUME NEW p \in Clients, AbortTurnIfActive(p) PROVE ActiveTurnHasOwner'
  BY <1>4, OwnersKept DEF AbortTurnIfActive, TakeForAbort
<1> QED
  BY <1>2, <1>3, <1>4 DEF Call

(* An active turn without a task is always somebody's to finish: a caller  *)
(* between the critical sections of start_task, a try_start_turn_if_idle   *)
(* that still holds the reservation, or a task in on_task_finished; no     *)
(* interleaving of the three leaves a session that looks busy for ever.    *)
THEOREM ActiveTurnHasOwnerHolds == Spec => []ActiveTurnHasOwner
<1>1. Init => ActiveTurnHasOwner
  BY DEF Init, ActiveTurnHasOwner
<1>2. IInv /\ DataTyped /\ ActiveTurnHasOwner /\ [Next]_vars => ActiveTurnHasOwner'
  <2> SUFFICES ASSUME IInv, DataTyped, ActiveTurnHasOwner, [Next]_vars PROVE ActiveTurnHasOwner'
    OBVIOUS
  <2>1. CASE Next
    BY <2>1, TaskKeepsOwner, CallKeepsOwner, RequestKeepsOwner DEF Next
  <2>2. CASE UNCHANGED vars
    BY <2>2 DEF ActiveTurnHasOwner, vars, taskVars, procVars
  <2> QED
    BY <2>1, <2>2
<1> QED
  BY <1>1, <1>2, DataInvariant, PTL DEF Spec

(***************************************************************************)
(* A token is cancelled only by somebody who goes on to end the task.      *)
(***************************************************************************)
CancelledHasVictim ==
    \A t \in Turns : cancelled[t] => \E p \in Procs : pc[p] = "abort" /\ victim[p] = t

LEMMA CancelledStep ==
    ASSUME IInv, CancelledHasVictim, Next PROVE CancelledHasVictim'
<1>0. /\ pc \in [Procs -> Labels] /\ victim \in [Procs -> 0 .. MaxTurns]
      /\ cancelled \in [Turns -> BOOLEAN]
      /\ "loop" \in Procs /\ Clients \subseteq Procs
      /\ activeTask \in 0 .. MaxTurns
  BY Bounds DEF IInv, ControlTyped
<1>1. ASSUME \A t \in Turns : cancelled'[t] => cancelled[t],
             \A p \in Procs : pc[p] = "abort" => pc'[p] = "abort" /\ victim'[p] = victim[p]
      PROVE  CancelledHasVictim'
  BY <1>1 DEF CancelledHasVictim
<1>2. ASSUME NEW t \in Turns, TaskStep(t) PROVE CancelledHasVictim'
  <2>1. pc' = pc /\ victim' = victim
    BY <1>2 DEF TaskStep, Begin, RecordInput, DropInput, Drain, RecordPending, OutputMessage,
       OutputToolCall, SamplingEnds, RetryWithoutImages, FollowUp, NoFollowUp, RunTurnAgain,
       RunCompact, TaskFinished, RecordLeftover, EmitTerminal, ClearActive, procVars
  <2>2. cancelled' = cancelled \/ cancelled' = [cancelled EXCEPT ![t] = FALSE]
    BY <1>2 DEF TaskStep, Begin, RecordInput, DropInput, Drain, RecordPending, OutputMessage,
       OutputToolCall, SamplingEnds, RetryWithoutImages, FollowUp, NoFollowUp, RunTurnAgain,
       RunCompact, TaskFinished, RecordLeftover, EmitTerminal, ClearActive, Ends, taskVars
  <2>3. \A u \in Turns : cancelled'[u] => cancelled[u]
    BY <2>2, <1>0
  <2> QED
    BY <2>1, <2>3, <1>1
<1>3. ASSUME NEW p \in Procs, NEW l, pc[p] # "abort", TakeForAbort(p, l) PROVE CancelledHasVictim'
  <2>1. /\ pc' = [pc EXCEPT ![p] = "abort"] /\ victim' = [victim EXCEPT ![p] = activeTask]
        /\ cancelled' = [cancelled EXCEPT ![activeTask] = TRUE]
    BY <1>3 DEF TakeForAbort, CancelActiveTask, Move
  <2>2. ASSUME NEW t \in Turns, cancelled'[t] PROVE \E q \in Procs : pc'[q] = "abort" /\ victim'[q] = t
    <3>1. CASE t = activeTask
      BY <2>1, <3>1, <1>0
    <3>2. CASE t # activeTask
      <4>1. cancelled[t]
        BY <2>1, <2>2, <3>2, <1>0
      <4>2. PICK q \in Procs : pc[q] = "abort" /\ victim[q] = t
        BY <4>1 DEF CancelledHasVictim
      <4> QED
        BY <4>2, <2>1, <1>3, <1>0
    <3> QED
      BY <3>1, <3>2
  <2> QED
    BY <2>2 DEF CancelledHasVictim
<1>4. ASSUME NEW p \in Procs, Continue(p) PROVE CancelledHasVictim'
  <2>1. CASE AbortTask(p)
    <3>1. victim[p] \in Turns /\ cancelled' = [cancelled EXCEPT ![victim[p]] = FALSE]
          /\ pc' = [pc EXCEPT ![p] = "aborted"] /\ victim' = victim
      BY <2>1 DEF AbortTask, Killed, Ends, Move, IInv, VictimIsUnreported, Aborting
    <3>2. ASSUME NEW t \in Turns, cancelled'[t] PROVE \E q \in Procs : pc'[q] = "abort" /\ victim'[q] = t
      <4>1. cancelled[t] /\ t # victim[p]
        BY <3>1, <3>2, <1>0
      <4>2. PICK q \in Procs : pc[q] = "abort" /\ victim[q] = t
        BY <4>1 DEF CancelledHasVictim
      <4> QED
        BY <4>1, <4>2, <3>1, <1>0
    <3> QED
      BY <3>2 DEF CancelledHasVictim
  <2>2. CASE AbortAll(p)
    <3>1. CASE activeTask = 0
      <4>1. cancelled' = cancelled /\ victim' = victim
        BY <2>2, <3>1 DEF AbortAll, NothingToAbort
      <4>2. \A q \in Procs : pc[q] = "abort" => pc'[q] = "abort"
        BY <2>2, <3>1, <1>0 DEF AbortAll, NothingToAbort, Move, Return
      <4> QED
        BY <4>1, <4>2, <1>1
    <3>2. CASE activeTask # 0
      BY <2>2, <3>2, <1>3 DEF AbortAll
    <3> QED
      BY <3>1, <3>2
  <2>3. CASE ~AbortTask(p) /\ ~AbortAll(p)
    <3>1. cancelled' = cancelled /\ pc[p] # "abort" /\ \A q \in Procs \ {p} : pc'[q] = pc[q]
      BY <1>0, <1>4, <2>3 DEF Continue, StartTake, StartJoin, StartInstall, MaybeStart,
         ReserveTurn, EmitAborted, ClearPending, RecordItems, TryReserve, TryCheck,
         ClearReservedIdleTurn, TryConfirm, TryExtend, Move, Return, taskVars
    <3>2. \A q \in Procs \ {p} : victim'[q] = victim[q]
      BY <1>0, <1>4, <2>3 DEF Continue, StartTake, StartJoin, StartInstall, MaybeStart,
         ReserveTurn, EmitAborted, ClearPending, RecordItems, TryReserve, TryCheck,
         ClearReservedIdleTurn, TryConfirm, TryExtend
    <3> QED
      BY <3>1, <3>2, <1>1
  <2> QED
    BY <2>1, <2>2, <2>3
<1>5. ASSUME Submission \/ ShutdownComplete PROVE CancelledHasVictim'
  <2>1. cancelled' = cancelled /\ victim' = victim /\ pc["loop"] # "abort"
        /\ \A q \in Procs \ {"loop"} : pc'[q] = pc[q]
    BY <1>0, <1>5 DEF Submission, UserInput, InterAgentCommunication, Interrupt, Compact,
       Shutdown, ShutdownComplete, Spawn, Move, taskVars
  <2> QED
    BY <2>1, <1>1
<1>6. ASSUME NEW p \in Clients, Call(p) PROVE CancelledHasVictim'
  <2>1. CASE AbortTurnIfActive(p)
    BY <2>1, <1>0, <1>3 DEF AbortTurnIfActive
  <2>2. CASE ~AbortTurnIfActive(p)
    <3>1. cancelled' = cancelled /\ victim' = victim /\ pc[p] # "abort"
          /\ \A q \in Procs \ {p} : pc'[q] = pc[q]
      BY <1>0, <1>6, <2>2 DEF Call, SteerInput, InjectNoNewTurn, TryStartTurnIfIdle, Move,
         taskVars, procVars
    <3> QED
      BY <3>1, <1>1
  <2> QED
    BY <2>1, <2>2
<1> QED
  BY <1>2, <1>4, <1>5, <1>6 DEF Next

(***************************************************************************)
(* When only the submission loop starts turns: no mail asks for one and no *)
(* caller uses try_start_turn_if_idle.                                     *)
(***************************************************************************)
LoopStartsTurns == TriggerMails = {} /\ "tryStart" \notin ClientOps

ClientLabels == {"idle", "recordItems", "abort", "aborted", "clear", "maybe"}
LoopLabels == {"idle", "abortAll", "abort", "aborted", "clear", "maybe", "start", "join",
               "install", "exit", "exited"}

(* The loop has ended the active task before it starts another one, and    *)
(* before it says that it is done.                                         *)
LoopOnly ==
    /\ \A p \in Clients : pc[p] \in ClientLabels /\ local[p].then = "recv"
    /\ pc["loop"] \in LoopLabels
    /\ pc["loop"] \in StartingCalls => local["loop"].then = "start"
    /\ pc["loop"] \notin {"idle", "abortAll"} => activeTask = 0

(* A dead turn has been reported, or the caller that aborts it has not     *)
(* reached EmitAborted yet.                                                *)
DeadIsReported ==
    \A t \in Turns :
        taskPc[t] = "dead" =>
            events[t] \in Closed \/ \E p \in Procs : pc[p] \in Aborting /\ victim[p] = t

LoopInv == LoopStartsTurns => LoopOnly /\ DeadIsReported

LEMMA LoopOnlyStep ==
    ASSUME IInv, DataTyped, LoopStartsTurns, LoopOnly, Next PROVE LoopOnly'
<1>0. /\ pc \in [Procs -> Labels] /\ local \in [Procs -> LocalType]
      /\ "loop" \in Procs /\ Clients \subseteq Procs /\ "loop" \notin Clients
      /\ Procs = Clients \cup {"loop"}
      /\ ~HasTriggerTurnMail
  BY Bounds, SessionAssumption
     DEF IInv, ControlTyped, DataTyped, LocalTyped, Procs, LoopStartsTurns, HasTriggerTurnMail
<1>a. /\ NoLocal.then = "recv"
      /\ \A i : [NoLocal EXCEPT !.items = i].then = "recv"
      /\ \A i : [NoLocal EXCEPT !.vstate = i].then = "recv"
  BY DEF NoLocal
<1>1. ASSUME UNCHANGED <<pc, local>>, activeTask' \in {activeTask, 0} PROVE LoopOnly'
  BY <1>1 DEF LoopOnly
<1>2. ASSUME NEW p \in Clients, pc'[p] \in ClientLabels, local'[p].then = "recv",
             activeTask' \in {activeTask, 0},
             \A q \in Procs \ {p} : pc'[q] = pc[q] /\ local'[q] = local[q]
      PROVE  LoopOnly'
  BY <1>0, <1>2 DEF LoopOnly
<1>3. ASSUME pc'["loop"] \in {"idle", "abortAll"} \/ activeTask' = 0,
             pc'["loop"] \in LoopLabels,
             pc'["loop"] \in StartingCalls => local'["loop"].then = "start",
             \A q \in Procs \ {"loop"} : pc'[q] = pc[q] /\ local'[q] = local[q]
      PROVE  LoopOnly'
  BY <1>0, <1>3 DEF LoopOnly
<1>4. ASSUME NEW t \in Turns, TaskStep(t) PROVE LoopOnly'
  <2>1. UNCHANGED <<pc, local>> /\ activeTask' \in {activeTask, 0}
    BY <1>4 DEF TaskStep, Begin, RecordInput, DropInput, Drain, RecordPending, OutputMessage,
       OutputToolCall, SamplingEnds, RetryWithoutImages, FollowUp, NoFollowUp, RunTurnAgain,
       RunCompact, TaskFinished, RecordLeftover, EmitTerminal, ClearActive, procVars
  <2> QED
    BY <2>1, <1>1
<1>5. ASSUME NEW p \in Clients, Continue(p) PROVE LoopOnly'
  <2>0. pc[p] \in ClientLabels /\ local[p] \in LocalType /\ local[p].then = "recv"
    BY <1>0, <1>5 DEF LoopOnly
  <2>1. \/ MaybeStart(p) \/ AbortTask(p) \/ EmitAborted(p) \/ ClearPending(p) \/ RecordItems(p)
    BY <1>5, <2>0 DEF Continue, StartTake, StartJoin, StartInstall, ReserveTurn, AbortAll,
       TryReserve, TryCheck, ClearReservedIdleTurn, TryConfirm, TryExtend, ClientLabels
  <2>2. activeTask' = activeTask
    BY <2>1 DEF MaybeStart, AbortTask, EmitAborted, ClearPending, RecordItems
  <2>3. \A q \in Procs \ {p} : pc'[q] = pc[q] /\ local'[q] = local[q]
    BY <2>1, <1>0, <1>5 DEF MaybeStart, AbortTask, EmitAborted, ClearPending, RecordItems,
       Move, Return, SetLocal
  <2>4. pc'[p] \in ClientLabels
    BY <2>1, <2>0, <1>0, <1>5 DEF MaybeStart, AbortTask, EmitAborted, ClearPending, RecordItems,
       Move, Return, ClientLabels
  <2>5. local'[p].then = "recv"
    <3>1. CASE MaybeStart(p) \/ RecordItems(p)
      BY <3>1, <1>a, <1>0, <1>5 DEF MaybeStart, RecordItems, Return, SetLocal
    <3>2. CASE AbortTask(p) \/ EmitAborted(p)
      BY <3>2, <2>0 DEF AbortTask, EmitAborted
    <3>3. CASE ClearPending(p)
      BY <3>3, <2>0, <1>0, <1>5 DEF ClearPending, SetLocal, LocalType
    <3> QED
      BY <2>1, <3>1, <3>2, <3>3
  <2> QED
    BY <2>2, <2>3, <2>4, <2>5, <1>2
<1>6. ASSUME Continue("loop") PROVE LoopOnly'
  <2>0. /\ pc["loop"] \in LoopLabels
        /\ local["loop"] \in LocalType
        /\ pc["loop"] \in StartingCalls => local["loop"].then = "start"
        /\ pc["loop"] \notin {"idle", "abortAll"} => activeTask = 0
    BY <1>0 DEF LoopOnly
  <2>1. \A q \in Procs \ {"loop"} : pc'[q] = pc[q] /\ local'[q] = local[q]
    BY <1>0, <1>6 DEF Continue, StartTake, StartJoin, StartInstall, MaybeStart,
       ReserveTurn, AbortAll, NothingToAbort, TakeForAbort, AbortTask, EmitAborted, ClearPending,
       RecordItems, TryReserve, TryCheck, ClearReservedIdleTurn, TryConfirm, TryExtend, Move,
       Return, SetLocal
  <2>2. CASE StartTake("loop") \/ StartJoin("loop")
    <3>1. pc'["loop"] \in StartingCalls /\ pc'["loop"] \in LoopLabels /\ activeTask' = 0
      BY <2>2, <2>0, <1>0 DEF StartTake, StartJoin, Move, StartingCalls, LoopLabels
    <3>2. local'["loop"].then = local["loop"].then /\ pc["loop"] \in StartingCalls
      BY <2>2, <2>0, <1>0 DEF StartTake, StartJoin, SetLocal, LocalType, StartingCalls
    <3> QED
      BY <3>1, <3>2, <2>0, <2>1, <1>3
  <2>3. CASE StartInstall("loop")
    <3>1. local["loop"].then = "start"
      BY <2>3, <2>0 DEF StartInstall, StartingCalls
    <3>2. pc'["loop"] = "idle"
      BY <2>3, <3>1, <1>0 DEF StartInstall, Return, Move
    <3> QED
      BY <3>2, <2>1, <1>3 DEF LoopLabels, StartingCalls
  <2>4. CASE AbortAll("loop")
    <3>1. activeTask' = 0
      BY <2>4 DEF AbortAll, NothingToAbort, TakeForAbort
    <3>2. /\ pc'["loop"] \in {"start", "idle", "exit", "abort"}
          /\ pc'["loop"] = "start" => local'["loop"].then = "start"
      BY <2>4, <1>0, <2>0 DEF AbortAll, NothingToAbort, TakeForAbort, Return, Move
    <3> QED
      BY <3>1, <3>2, <2>1, <1>3 DEF LoopLabels, StartingCalls
  <2>5. CASE AbortTask("loop") \/ EmitAborted("loop")
    <3>1. activeTask' = 0 /\ pc'["loop"] \in {"aborted", "clear"}
      BY <2>5, <2>0, <1>0 DEF AbortTask, EmitAborted, Move
    <3> QED
      BY <3>1, <2>1, <1>3 DEF LoopLabels, StartingCalls
  <2>6. CASE ClearPending("loop")
    <3>1. /\ activeTask' = 0 /\ pc'["loop"] \in {"start", "maybe"}
          /\ pc'["loop"] = "start" => local["loop"].then = "start"
      BY <2>6, <2>0, <1>0 DEF ClearPending, Move
    <3>2. local'["loop"].then = local["loop"].then
      BY <2>6, <2>0, <1>0 DEF ClearPending, SetLocal, LocalType
    <3> QED
      BY <3>1, <3>2, <2>1, <1>3 DEF LoopLabels, StartingCalls
  <2>7. CASE MaybeStart("loop")
    <3>1. activeTask' = 0 /\ pc'["loop"] \in {"idle", "exit"}
      BY <2>7, <2>0, <1>0 DEF MaybeStart, Return, Move
    <3> QED
      BY <3>1, <2>1, <1>3 DEF LoopLabels, StartingCalls
  <2> QED
    BY <1>6, <2>0, <2>2, <2>3, <2>4, <2>5, <2>6, <2>7 DEF Continue, ReserveTurn, RecordItems,
       TryReserve, TryCheck, ClearReservedIdleTurn, TryConfirm, TryExtend, LoopLabels
<1>7. ASSUME Submission \/ ShutdownComplete PROVE LoopOnly'
  <2>1. \A q \in Procs \ {"loop"} : pc'[q] = pc[q] /\ local'[q] = local[q]
    BY <1>0, <1>7 DEF Submission, UserInput, InterAgentCommunication, Interrupt, Compact,
       Shutdown, ShutdownComplete, Spawn, Move, SetLocal
  <2>2. \/ pc'["loop"] \in {"idle", "abortAll"}
        \/ pc'["loop"] = "exited" /\ activeTask' = 0
    BY <1>0, <1>7 DEF Submission, UserInput, InterAgentCommunication, Interrupt, Compact,
       Shutdown, ShutdownComplete, Spawn, Move, LoopStartsTurns, LoopOnly
  <2> QED
    BY <2>1, <2>2, <1>3 DEF LoopLabels, StartingCalls
<1>8. ASSUME NEW p \in Clients, Call(p) PROVE LoopOnly'
  <2>0. pc[p] \in ClientLabels /\ local[p].then = "recv"
    BY <1>8 DEF LoopOnly
  <2>1. SteerInput(p) \/ InjectNoNewTurn(p) \/ AbortTurnIfActive(p)
    BY <1>8 DEF Call, TryStartTurnIfIdle, LoopStartsTurns
  <2>2. activeTask' \in {activeTask, 0}
    BY <2>1 DEF SteerInput, InjectNoNewTurn, AbortTurnIfActive, TakeForAbort
  <2>3. \A q \in Procs \ {p} : pc'[q] = pc[q] /\ local'[q] = local[q]
    BY <2>1, <1>0, <1>8 DEF SteerInput, InjectNoNewTurn, AbortTurnIfActive, TakeForAbort,
       Move, SetLocal, procVars
  <2>4. pc'[p] \in ClientLabels
    BY <2>0, <2>1, <1>0, <1>8 DEF SteerInput, InjectNoNewTurn, AbortTurnIfActive, TakeForAbort,
       Move, procVars, ClientLabels
  <2>5. local'[p].then = "recv"
    <3>1. CASE SteerInput(p)
      BY <3>1, <2>0 DEF SteerInput, procVars
    <3>2. CASE InjectNoNewTurn(p)
      <4>1. CASE local' = local
        BY <4>1, <2>0
      <4>2. ASSUME NEW x, local' = [local EXCEPT ![p] = [NoLocal EXCEPT !.items = <<x>>]]
            PROVE  local'[p].then = "recv"
        BY <4>2, <1>0, <1>a, <1>8
      <4> QED
        BY <3>2, <4>1, <4>2 DEF InjectNoNewTurn, SetLocal
    <3>3. CASE AbortTurnIfActive(p)
      BY <3>3, <1>0, <1>a, <1>8 DEF AbortTurnIfActive, TakeForAbort, SetLocal
    <3> QED
      BY <2>1, <3>1, <3>2, <3>3
  <2> QED
    BY <2>2, <2>3, <2>4, <2>5, <1>2
<1> QED
  BY <1>0, <1>4, <1>5, <1>6, <1>7, <1>8 DEF Next

LEMMA DeadStep ==
    ASSUME IInv, CancelledHasVictim, LoopStartsTurns, LoopOnly, DeadIsReported, Next
    PROVE  DeadIsReported'
<1>0. /\ pc \in [Procs -> Labels] /\ victim \in [Procs -> 0 .. MaxTurns]
      /\ taskPc \in [Turns -> Working \cup Finishing \cup {"none", "dead"}]
      /\ DOMAIN events = Turns
      /\ "loop" \in Procs /\ Clients \subseteq Procs
      /\ 0 \notin Turns
  BY Bounds DEF IInv, ControlTyped
(* A step that reports nothing ends no task, or one that is being aborted or has been reported. *)
<1>1. ASSUME events' = events,
             \A p \in Procs : pc[p] \in Aborting => pc'[p] \in Aborting /\ victim'[p] = victim[p],
             \A t \in Turns : taskPc'[t] = "dead" =>
                taskPc[t] = "dead" \/ events[t] \in Closed
                  \/ \E p \in Procs : pc[p] \in Aborting /\ victim[p] = t
      PROVE  DeadIsReported'
  <2> SUFFICES ASSUME NEW t \in Turns, taskPc'[t] = "dead", events[t] \notin Closed
               PROVE  \E p \in Procs : pc'[p] \in Aborting /\ victim'[p] = t
    BY <1>1 DEF DeadIsReported
  <2>1. PICK p \in Procs : pc[p] \in Aborting /\ victim[p] = t
    BY <1>1 DEF DeadIsReported
  <2> QED
    BY <2>1, <1>1
<1>2. ASSUME NEW t \in Turns, TaskStep(t) PROVE DeadIsReported'
  <2>0. pc' = pc /\ victim' = victim
    BY <1>2 DEF TaskStep, Begin, RecordInput, DropInput, Drain, RecordPending, OutputMessage,
       OutputToolCall, SamplingEnds, RetryWithoutImages, FollowUp, NoFollowUp, RunTurnAgain,
       RunCompact, TaskFinished, RecordLeftover, EmitTerminal, ClearActive, procVars
  <2>1. CASE Begin(t) \/ EmitTerminal(t)
    <3>1. /\ taskPc[t] # "dead" /\ taskPc'[t] # "dead"
          /\ \A u \in Turns \ {t} : taskPc'[u] = taskPc[u] /\ events'[u] = events[u]
      BY <2>1, <1>0 DEF Begin, EmitTerminal, Goto, Emit
    <3> QED
      BY <2>0, <3>1 DEF DeadIsReported
  <2>2. CASE TaskFinished(t)
    <3>1. events' = events /\ \A u \in Turns \ {t} : taskPc'[u] = taskPc[u]
      BY <2>2, <1>0 DEF TaskFinished, Ends, Goto, logVars
    <3>2. taskPc'[t] = "dead" => \E p \in Procs : pc[p] \in Aborting /\ victim[p] = t
      <4>1. CASE cancelled[t]
        BY <4>1 DEF CancelledHasVictim, Aborting
      <4>2. CASE ~cancelled[t]
        <5>1. activeTask = t
          BY <2>2, <4>2 DEF TaskFinished, IInv, RunningTaskIsActive, Live, Working
        <5>2. taskPc'[t] = "leftover"
          BY <2>2, <4>2, <5>1, <1>0 DEF TaskFinished, LeavesQuietly, Goto
        <5> QED
          BY <5>2
      <4> QED
        BY <4>1, <4>2
    <3> QED
      BY <2>0, <3>1, <3>2, <1>1
  <2>3. CASE ClearActive(t)
    <3>1. events[t] \in Closed
      BY <2>3 DEF ClearActive, IInv, EventsMatchTask
    <3>2. events' = events /\ \A u \in Turns \ {t} : taskPc'[u] = taskPc[u]
      BY <2>3, <1>0 DEF ClearActive, Ends, Goto, logVars
    <3> QED
      BY <2>0, <3>1, <3>2, <1>1
  <2>4. CASE \/ RecordInput(t) \/ DropInput(t) \/ Drain(t) \/ RecordPending(t)
             \/ OutputMessage(t) \/ OutputToolCall(t) \/ SamplingEnds(t) \/ RetryWithoutImages(t)
             \/ FollowUp(t) \/ NoFollowUp(t) \/ RunTurnAgain(t) \/ RunCompact(t) \/ RecordLeftover(t)
    <3>1. events' = events /\ \A u \in Turns : taskPc'[u] = "dead" => taskPc[u] = "dead"
      BY <2>4, <1>0 DEF RecordInput, DropInput, Drain, RecordPending, OutputMessage,
         OutputToolCall, SamplingEnds, RetryWithoutImages, FollowUp, NoFollowUp, RunTurnAgain,
         RunCompact, RecordLeftover, Goto, logVars, taskVars
    <3> QED
      BY <2>0, <3>1, <1>1
  <2> QED
    BY <1>2, <2>1, <2>2, <2>3, <2>4 DEF TaskStep
<1>3. ASSUME NEW p \in Procs, Continue(p) PROVE DeadIsReported'
  <2>1. CASE AbortTask(p)
    <3>1. /\ events' = events /\ victim' = victim
          /\ pc' = [pc EXCEPT ![p] = "aborted"] /\ pc[p] \in Aborting
          /\ taskPc' = [taskPc EXCEPT ![victim[p]] = "dead"]
      BY <2>1 DEF AbortTask, Killed, Ends, Goto, Move, Aborting, logVars
    <3>2. \A q \in Procs : pc[q] \in Aborting => pc'[q] \in Aborting
      BY <3>1, <1>0 DEF Aborting
    <3>3. \A t \in Turns : taskPc'[t] = "dead" => taskPc[t] = "dead" \/ t = victim[p]
      BY <3>1, <1>0
    <3> QED
      BY <3>1, <3>2, <3>3, <1>1
  <2>2. CASE EmitAborted(p)
    <3>1. /\ victim[p] \in Turns /\ events[victim[p]] \in Opened
      BY <2>2 DEF EmitAborted, IInv, VictimIsUnreported, Aborting
    <3>2. PICK e \in {<<"aborted">>, <<"started", "aborted">>} :
             events' = [events EXCEPT ![victim[p]] = e]
      BY <2>2, <3>1, Events DEF EmitAborted, Emit, Opened
    <3>3. e \in Closed
      BY DEF Closed
    <3>4. /\ victim' = [victim EXCEPT ![p] = 0] /\ pc' = [pc EXCEPT ![p] = "clear"]
          /\ taskPc' = taskPc
      BY <2>2 DEF EmitAborted, Move, taskVars
    <3> SUFFICES ASSUME NEW t \in Turns, taskPc'[t] = "dead", events'[t] \notin Closed
                 PROVE  \E q \in Procs : pc'[q] \in Aborting /\ victim'[q] = t
      BY DEF DeadIsReported
    <3>5. t # victim[p] /\ events'[t] = events[t]
      BY <3>1, <3>2, <3>3, <1>0
    <3>6. PICK q \in Procs : pc[q] \in Aborting /\ victim[q] = t
      BY <3>4, <3>5 DEF DeadIsReported
    <3> QED
      BY <3>4, <3>5, <3>6, <1>0
  <2>3. CASE AbortAll(p)
    <3>1. events' = events /\ taskPc' = taskPc /\ pc[p] \notin Aborting
      BY <2>3 DEF AbortAll, Aborting, logVars
    <3>2. \A q \in Procs \ {p} : pc'[q] = pc[q] /\ victim'[q] = victim[q]
      BY <2>3, <1>0 DEF AbortAll, NothingToAbort, TakeForAbort, Move, Return
    <3> QED
      BY <3>1, <3>2, <1>1
  <2>4. CASE StartInstall(p)
    <3>1. p = "loop" /\ activeTask = 0
      BY <2>4 DEF StartInstall, LoopOnly, ClientLabels, StartingCalls, Procs
    <3>2. \A t \in Turns : taskPc'[t] = "dead" => taskPc[t] = "dead"
      BY <2>4, <3>1, <1>0 DEF StartInstall, Install
    <3>3. events' = events /\ victim' = victim /\ pc[p] \notin Aborting
      BY <2>4 DEF StartInstall, Aborting
    <3>4. \A q \in Procs \ {p} : pc'[q] = pc[q]
      BY <2>4, <1>0 DEF StartInstall, Return, Move
    <3> QED
      BY <3>2, <3>3, <3>4, <1>1
  <2>5. CASE \/ StartTake(p) \/ StartJoin(p) \/ MaybeStart(p) \/ ReserveTurn(p) \/ ClearPending(p)
             \/ RecordItems(p) \/ TryReserve(p) \/ TryCheck(p) \/ ClearReservedIdleTurn(p)
             \/ TryConfirm(p) \/ TryExtend(p)
    <3>1. events' = events /\ victim' = victim /\ taskPc' = taskPc /\ pc[p] \notin Aborting
      BY <2>5 DEF StartTake, StartJoin, MaybeStart, ReserveTurn, ClearPending, RecordItems,
         TryReserve, TryCheck, ClearReservedIdleTurn, TryConfirm, TryExtend, Aborting,
         logVars, taskVars
    <3>2. \A q \in Procs \ {p} : pc'[q] = pc[q]
      BY <2>5, <1>0 DEF StartTake, StartJoin, MaybeStart, ReserveTurn, ClearPending,
         RecordItems, TryReserve, TryCheck, ClearReservedIdleTurn, TryConfirm, TryExtend,
         Move, Return
    <3> QED
      BY <3>1, <3>2, <1>1
  <2> QED
    BY <1>3, <2>1, <2>2, <2>3, <2>4, <2>5 DEF Continue
<1>4. ASSUME Submission \/ ShutdownComplete PROVE DeadIsReported'
  <2>1. events' = events /\ victim' = victim /\ taskPc' = taskPc /\ pc["loop"] \notin Aborting
        /\ \A q \in Procs \ {"loop"} : pc'[q] = pc[q]
    BY <1>0, <1>4 DEF Submission, UserInput, InterAgentCommunication, Interrupt, Compact,
       Shutdown, ShutdownComplete, Spawn, Move, Aborting, logVars, taskVars
  <2> QED
    BY <2>1, <1>1
<1>5. ASSUME NEW p \in Clients, Call(p) PROVE DeadIsReported'
  <2>1. events' = events /\ taskPc' = taskPc /\ pc[p] \notin Aborting
    BY <1>5 DEF Call, SteerInput, InjectNoNewTurn, AbortTurnIfActive, TryStartTurnIfIdle,
       Aborting, logVars, taskVars
  <2>2. \A q \in Procs \ {p} : pc'[q] = pc[q] /\ victim'[q] = victim[q]
    BY <1>0, <1>5 DEF Call, SteerInput, InjectNoNewTurn, AbortTurnIfActive, TakeForAbort,
       TryStartTurnIfIdle, Move, procVars
  <2> QED
    BY <2>1, <2>2, <1>1
<1> QED
  BY <1>2, <1>3, <1>4, <1>5 DEF Next

THEOREM LoopInvariant == Spec => [](IInv /\ CancelledHasVictim /\ LoopInv)
<1>1. Init => CancelledHasVictim /\ LoopInv
  <2> SUFFICES ASSUME Init PROVE CancelledHasVictim /\ LoopInv
    OBVIOUS
  <2>1. CancelledHasVictim /\ DeadIsReported
    BY DEF Init, CancelledHasVictim, DeadIsReported
  <2>2. LoopOnly
    BY Bounds DEF Init, LoopOnly, NoLocal, ClientLabels, LoopLabels, StartingCalls
  <2> QED
    BY <2>1, <2>2 DEF LoopInv
<1>2. IInv /\ DataTyped /\ CancelledHasVictim /\ LoopInv /\ [Next]_vars
        => (CancelledHasVictim /\ LoopInv)'
  <2> SUFFICES ASSUME IInv, DataTyped, CancelledHasVictim, LoopInv, [Next]_vars
               PROVE  (CancelledHasVictim /\ LoopInv)'
    OBVIOUS
  <2>1. CASE Next
    <3>1. CancelledHasVictim'
      BY <2>1, CancelledStep
    <3>2. LoopStartsTurns => LoopOnly' /\ DeadIsReported'
      BY <2>1, LoopOnlyStep, DeadStep DEF LoopInv
    <3> QED
      BY <3>1, <3>2 DEF LoopInv, LoopStartsTurns
  <2>2. CASE UNCHANGED vars
    BY <2>2 DEF CancelledHasVictim, LoopInv, LoopStartsTurns, LoopOnly, DeadIsReported, vars,
       logVars, taskVars, procVars
  <2> QED
    BY <2>1, <2>2
<1> QED
  BY <1>1, <1>2, DataInvariant, PTL DEF Spec

(* A turn has had its terminal event or not. *)
LEMMA ClosedIsTerminal ==
    ASSUME NEW t \in Turns
    PROVE  /\ events[t] \in Closed => Terminal(t)
           /\ events[t] \in Opened => ~Terminal(t)
<1>1. CASE events[t] = <<"complete">> \/ events[t] = <<"aborted">>
  <2>1. 1 \in DOMAIN events[t] /\ events[t][1] \in {"complete", "aborted"}
    BY <1>1
  <2> QED
    BY <2>1, <1>1 DEF Terminal, Opened
<1>2. CASE events[t] = <<"started", "complete">> \/ events[t] = <<"started", "aborted">>
  <2>1. 2 \in DOMAIN events[t] /\ events[t][2] \in {"complete", "aborted"}
    BY <1>2
  <2> QED
    BY <2>1, <1>2 DEF Terminal, Opened
<1>3. ASSUME events[t] \in Opened PROVE ~Terminal(t)
  <2>1. CASE events[t] = <<>>
    BY <2>1 DEF Terminal
  <2>2. CASE events[t] = <<"started">>
    BY <2>2 DEF Terminal
  <2> QED
    BY <1>3, <2>1, <2>2 DEF Opened
<1> QED
  BY <1>1, <1>2, <1>3 DEF Closed

(* While only the loop starts turns, no turn vanishes without a terminal   *)
(* event: a dead task's turn was reported, or its aborter is about to.     *)
THEOREM EndedTurnIsReportedHolds == Spec => [](LoopStartsTurns => EndedTurnIsReported)
<1>1. LoopInv => (LoopStartsTurns => EndedTurnIsReported)
  BY ClosedIsTerminal DEF LoopInv, DeadIsReported, EndedTurnIsReported, Victim
<1> QED
  BY <1>1, LoopInvariant, PTL

(* While only the loop starts turns, ShutdownComplete comes after the last *)
(* task has stopped working, but for one that another caller is aborting.  *)
THEOREM ShutdownStopsWorkHolds == Spec => [](LoopStartsTurns => ShutdownStopsWork)
<1>1. ASSUME IInv, CancelledHasVictim, LoopOnly, pc["loop"] = "exited",
             NEW t \in Turns, Live(t)
      PROVE  \E p \in Clients : victim[p] = t
  <2>1. activeTask = 0 /\ t # 0
    BY <1>1, Bounds DEF LoopOnly
  <2>2. cancelled[t]
    BY <1>1, <2>1 DEF IInv, RunningTaskIsActive
  <2>3. PICK p \in Procs : pc[p] = "abort" /\ victim[p] = t
    BY <1>1, <2>2 DEF CancelledHasVictim
  <2> QED
    BY <1>1, <2>3 DEF Procs
<1>2. IInv /\ CancelledHasVictim /\ LoopInv => (LoopStartsTurns => ShutdownStopsWork)
  BY <1>1 DEF LoopInv, ShutdownStopsWork
<1> QED
  BY <1>2, LoopInvariant, PTL

-----------------------------------------------------------------------------
(* A non-empty set of naturals has a least element. *)
LEMMA LeastNat ==
    ASSUME NEW T, T \subseteq Nat, T # {}
    PROVE  \E x \in T : \A y \in T : x <= y
<1> DEFINE R == OpToRel(<, Nat)
<1>1. IsWellFoundedOn(R, Nat)
  BY NatLessThanWellFounded
<1>2. \A x, y \in Nat : x < y => <<x, y>> \in R
  BY DEF OpToRel
<1> HIDE DEF R
<1>3. PICK x \in T : \A y \in T : ~ (<<y, x>> \in R)
  BY <1>1, WFMin
<1>4. ASSUME NEW y \in T PROVE x <= y
  <2>1. x \in Nat /\ y \in Nat /\ ~(y < x)
    BY <1>2, <1>3
  <2> QED
    BY <2>1
<1> QED
  BY <1>4

(* The sequence ss flattened up to each place, as FlattenSeq computes it. *)
IsFlat(f, ss, n) == f = [i \in 1 .. n |-> IF i = 1 THEN ss[i] ELSE f[i - 1] \o ss[i]]

(* Of the lengths without one, the least would extend the one before it. *)
LEMMA FlatExists ==
    ASSUME NEW ss, NEW m \in Nat PROVE \E f : IsFlat(f, ss, m)
<1> DEFINE Bad == {n \in Nat : ~\E f : IsFlat(f, ss, n)}
<1>1. SUFFICES ASSUME Bad # {} PROVE FALSE
  OBVIOUS
<1>2. PICK n \in Bad : \A k \in Bad : n <= k
  BY <1>1, LeastNat
<1>3. CASE n = 0
  <2>1. 1 .. 0 = {}
    OBVIOUS
  <2>2. IsFlat([i \in 1 .. 0 |-> ss[i]], ss, 0)
    BY <2>1 DEF IsFlat
  <2> QED
    BY <1>2, <1>3, <2>2
<1>4. CASE n # 0
  <2>1. n - 1 \in Nat /\ n - 1 \notin Bad
    BY <1>2, <1>4
  <2>2. PICK f : IsFlat(f, ss, n - 1)
    BY <2>1
  <2> DEFINE last == IF n = 1 THEN ss[n] ELSE f[n - 1] \o ss[n]
             g == [k \in 1 .. n |-> IF k = n THEN last ELSE f[k]]
  <2>3. \A k \in 1 .. n : g[k] = IF k = n THEN last ELSE f[k]
    OBVIOUS
  <2>4. /\ \A k \in 1 .. n : k # 1 => k - 1 \in 1 .. n /\ k - 1 # n
        /\ \A k \in 1 .. n : k # n => k \in 1 .. (n - 1)
    BY <2>1
  <2>5. \A k \in 1 .. (n - 1) : f[k] = IF k = 1 THEN ss[k] ELSE f[k - 1] \o ss[k]
    BY <2>2 DEF IsFlat
  <2> HIDE DEF g
  <2>6. \A k \in 1 .. n : g[k] = IF k = 1 THEN ss[k] ELSE g[k - 1] \o ss[k]
    BY <1>4, <2>3, <2>4, <2>5
  <2>7. g = [k \in 1 .. n |-> g[k]]
    BY DEF g
  <2>8. IsFlat(g, ss, n)
    BY <2>6, <2>7 DEF IsFlat
  <2> QED
    BY <1>2, <2>8
<1> QED
  BY <1>3, <1>4

LEMMA FlattenIs ==
    ASSUME NEW S, NEW ss \in Seq(S), ss # <<>>
    PROVE  /\ Len(ss) \in Nat \ {0}
           /\ \E f : IsFlat(f, ss, Len(ss)) /\ FlattenSeq(ss) = f[Len(ss)]
<1>1. Len(ss) \in Nat \ {0}
  BY EmptySeq
<1> DEFINE f == CHOOSE g : IsFlat(g, ss, Len(ss))
<1>2. IsFlat(f, ss, Len(ss))
  BY <1>1, FlatExists
<1>3. FlattenSeq(ss) = f[Len(ss)]
  BY <1>1 DEF FlattenSeq, IsFlat
<1> QED
  BY <1>1, <1>2, <1>3

LEMMA ToSetConcat ==
    ASSUME NEW S, NEW s \in Seq(S), NEW t \in Seq(S)
    PROVE  ToSet(s \o t) = ToSet(s) \cup ToSet(t)
<1>1. /\ Len(s) \in Nat /\ DOMAIN s = 1 .. Len(s) /\ Len(t) \in Nat /\ DOMAIN t = 1 .. Len(t)
  BY LenProperties
<1>2. /\ s \o t \in Seq(S) /\ Len(s \o t) = Len(s) + Len(t)
      /\ \A i \in 1 .. Len(s) + Len(t) : (s \o t)[i] = IF i <= Len(s) THEN s[i] ELSE t[i - Len(s)]
  BY ConcatProperties
<1>3. DOMAIN (s \o t) = 1 .. Len(s) + Len(t)
  BY <1>2, LenProperties
<1>4. ASSUME NEW i \in DOMAIN (s \o t) PROVE (s \o t)[i] \in ToSet(s) \cup ToSet(t)
  <2>1. CASE i <= Len(s)
    BY <1>1, <1>2, <1>3, <2>1 DEF ToSet
  <2>2. CASE ~(i <= Len(s))
    <3>1. i - Len(s) \in DOMAIN t
      BY <1>1, <1>3, <2>2
    <3> QED
      BY <1>2, <1>3, <2>2, <3>1 DEF ToSet
  <2> QED
    BY <2>1, <2>2
<1>5. ASSUME NEW i \in DOMAIN s PROVE s[i] \in ToSet(s \o t)
  <2>1. i \in DOMAIN (s \o t) /\ (s \o t)[i] = s[i]
    BY <1>1, <1>2, <1>3
  <2> QED
    BY <2>1 DEF ToSet
<1>6. ASSUME NEW i \in DOMAIN t PROVE t[i] \in ToSet(s \o t)
  <2>1. i + Len(s) \in DOMAIN (s \o t) /\ (s \o t)[i + Len(s)] = t[i]
    BY <1>1, <1>2, <1>3
  <2> QED
    BY <2>1 DEF ToSet
<1> QED
  BY <1>4, <1>5, <1>6 DEF ToSet

LEMMA ConcatInjective ==
    ASSUME NEW S, NEW s \in Seq(S), NEW t \in Seq(S)
    PROVE  /\ IsInjective(s) /\ IsInjective(t) /\ ToSet(s) \cap ToSet(t) = {} => IsInjective(s \o t)
           /\ IsInjective(s \o t) => IsInjective(s)
<1>1. Len(s) \in Nat /\ DOMAIN s = 1 .. Len(s) /\ Len(t) \in Nat /\ DOMAIN t = 1 .. Len(t)
  BY LenProperties
<1>2. /\ \A i \in 1 .. Len(s) + Len(t) : (s \o t)[i] = IF i <= Len(s) THEN s[i] ELSE t[i - Len(s)]
      /\ DOMAIN (s \o t) = 1 .. Len(s) + Len(t)
  BY ConcatProperties, LenProperties
<1> DEFINE d == s \o t
<1> HIDE DEF d
<1>3. /\ \A i \in DOMAIN s : i \in DOMAIN d /\ d[i] = s[i]
      /\ \A i \in DOMAIN d : i \notin DOMAIN s => i - Len(s) \in DOMAIN t /\ d[i] = t[i - Len(s)]
      /\ \A i, j \in DOMAIN d : i - Len(s) = j - Len(s) => i = j
  <2>1. \A i \in DOMAIN s : i \in DOMAIN d /\ i <= Len(s)
    BY <1>1, <1>2 DEF d
  <2>2. \A i \in DOMAIN d : i \notin DOMAIN s => i - Len(s) \in DOMAIN t /\ ~(i <= Len(s))
    BY <1>1, <1>2 DEF d
  <2>3. \A i, j \in DOMAIN d : i - Len(s) = j - Len(s) => i = j
    BY <1>1, <1>2 DEF d
  <2> QED
    BY <1>2, <2>1, <2>2, <2>3 DEF d
<1>4. IsInjective(d) => IsInjective(s)
  BY <1>3 DEF IsInjective
<1>5. ASSUME IsInjective(s), IsInjective(t), ToSet(s) \cap ToSet(t) = {} PROVE IsInjective(d)
  <2>1. SUFFICES ASSUME NEW i \in DOMAIN d, NEW j \in DOMAIN d, d[i] = d[j] PROVE i = j
    BY DEF IsInjective
  <2>2. \A x \in DOMAIN s, y \in DOMAIN t : s[x] # t[y]
    BY <1>5 DEF ToSet
  <2>3. CASE i \in DOMAIN s /\ j \in DOMAIN s
    BY <1>3, <1>5, <2>1, <2>3 DEF IsInjective
  <2>4. CASE i \notin DOMAIN s /\ j \notin DOMAIN s
    BY <1>3, <1>5, <2>1, <2>4 DEF IsInjective
  <2>5. CASE (i \in DOMAIN s) # (j \in DOMAIN s)
    BY <1>3, <2>1, <2>2, <2>5
  <2> QED
    BY <2>3, <2>4, <2>5
<1> QED
  BY <1>4, <1>5 DEF d

LEMMA EmptyQueue == IsInjective(<<>>) /\ ToSet(<<>>) = {} /\ \A S : <<>> \in Seq(S)
BY DEF IsInjective, ToSet

LEMMA OneItem ==
    ASSUME NEW S, NEW x \in S
    PROVE  <<x>> \in Seq(S) /\ IsInjective(<<x>>) /\ ToSet(<<x>>) = {x}
BY DEF IsInjective, ToSet

(* Two queues that share nothing and repeat nothing, one after the other. *)
LEMMA JoinQueues ==
    ASSUME NEW S, NEW s \in Seq(S), NEW t \in Seq(S)
    PROVE  /\ s \o t \in Seq(S)
           /\ ToSet(s \o t) = ToSet(s) \cup ToSet(t)
           /\ IsInjective(s) /\ IsInjective(t) /\ ToSet(s) \cap ToSet(t) = {} => IsInjective(s \o t)
BY ToSetConcat, ConcatInjective, ConcatProperties

(* What run_hooks_and_record_inputs lets through: all but the blocked, and nothing repeated. *)
LEMMA AcceptedIs ==
    ASSUME NEW S, NEW items \in Seq(S), IsInjective(items), NEW blocked
    PROVE  /\ Accepted(items, blocked) \in Seq(S)
           /\ ToSet(Accepted(items, blocked)) = ToSet(items) \ blocked
           /\ IsInjective(Accepted(items, blocked))
<1> DEFINE part(k) == IF items[k] \in blocked THEN <<>> ELSE <<items[k]>>
           ss == [k \in DOMAIN items |-> part(k)]
           n == Len(items)
<1>0. n \in Nat /\ DOMAIN items = 1 .. n /\ \A k \in 1 .. n : items[k] \in S
  BY LenProperties, ElementOfSeq
<1>1. ss \in Seq(Seq(S)) /\ Len(ss) = n
  <2>1. \A k \in 1 .. n : part(k) \in Seq(S)
    BY <1>0
  <2> HIDE DEF part
  <2> QED
    BY <1>0, <2>1
<1>2. Accepted(items, blocked) = FlattenSeq(ss)
  BY DEF Accepted
<1>3. CASE n = 0
  <2>0. ToSet(items) = {}
    <3>1. 1 .. 0 = {}
      OBVIOUS
    <3> QED
      BY <1>0, <1>3, <3>1 DEF ToSet
  <2>1. FlattenSeq(ss) = <<>>
    <3>1. ss = <<>>
      BY <1>1, <1>3, EmptySeq
    <3> QED
      BY <3>1 DEF FlattenSeq
  <2> QED
    BY <1>2, <2>0, <2>1, EmptyQueue
<1>4. CASE n # 0
  <2>0. ss # <<>>
    BY <1>1, <1>4
  <2>1. PICK f : IsFlat(f, ss, n) /\ FlattenSeq(ss) = f[n]
    BY <1>1, <2>0, FlattenIs
  <2> DEFINE First(k) == {items[j] : j \in 1 .. k}
             Good(k) == f[k] \in Seq(S) /\ ToSet(f[k]) = First(k) \ blocked /\ IsInjective(f[k])
             Bad == {k \in 1 .. n : ~Good(k)}
  <2>2. \A k \in 1 .. n : f[k] = IF k = 1 THEN part(k) ELSE f[k - 1] \o part(k)
    BY <1>0, <2>1 DEF IsFlat
  <2>3. \A k \in 1 .. n : /\ part(k) \in Seq(S) /\ IsInjective(part(k))
                          /\ ToSet(part(k)) = {items[k]} \ blocked
    <3> TAKE k \in 1 .. n
    <3>1. CASE items[k] \in blocked
      BY <3>1, EmptyQueue
    <3>2. CASE items[k] \notin blocked
      <4>1. /\ <<items[k]>> \in Seq(S) /\ IsInjective(<<items[k]>>)
            /\ ToSet(<<items[k]>>) = {items[k]}
        BY <1>0, OneItem
      <4> QED
        BY <3>2, <4>1
    <3> QED
      BY <3>1, <3>2
  <2>4. Bad = {}
    <3> SUFFICES ASSUME Bad # {} PROVE FALSE
      OBVIOUS
    <3>0. Bad \subseteq Nat
      OBVIOUS
    <3>1. PICK k \in Bad : \A j \in Bad : k <= j
      <4> HIDE DEF Bad
      <4> QED
        BY <3>0, LeastNat
    <3> HIDE DEF Good, part
    <3>2. k \in 1 .. n /\ ~Good(k) /\ \A j \in 1 .. n : j < k => Good(j)
      BY <3>1
    <3> HIDE DEF Bad
    <3>3. CASE k = 1
      <4>1. First(k) = {items[k]}
        <5>1. \A j : j \in 1 .. 1 <=> j = 1
          OBVIOUS
        <5> QED
          BY <3>3, <5>1
      <4>2. f[k] = part(k)
        BY <2>2, <3>2, <3>3
      <4> QED
        BY <2>3, <3>2, <4>1, <4>2 DEF Good
    <3>4. CASE k # 1
      <4>1. k - 1 \in 1 .. n /\ k - 1 < k
        BY <1>0, <3>2, <3>4
      <4>2. Good(k - 1)
        BY <3>2, <4>1
      <4>3. First(k) = First(k - 1) \cup {items[k]}
        <5>1. \A j : j \in 1 .. k <=> j \in 1 .. (k - 1) \/ j = k
          BY <1>0, <3>2, <4>1
        <5> QED
          BY <5>1
      <4>4. items[k] \notin First(k - 1)
        <5>1. \A j \in 1 .. (k - 1) : j \in 1 .. n /\ j # k
          BY <1>0, <3>2
        <5> QED
          BY <1>0, <3>2, <5>1 DEF IsInjective
      <4> DEFINE a == f[k - 1]  b == part(k)
      <4>5. /\ a \in Seq(S) /\ ToSet(a) = First(k - 1) \ blocked /\ IsInjective(a)
            /\ b \in Seq(S) /\ ToSet(b) = {items[k]} \ blocked /\ IsInjective(b)
            /\ f[k] = a \o b
        BY <2>2, <2>3, <3>2, <3>4, <4>2 DEF Good
      <4> HIDE DEF a, b, First
      <4>6. a \o b \in Seq(S) /\ ToSet(a \o b) = ToSet(a) \cup ToSet(b) /\ IsInjective(a \o b)
        <5>1. ToSet(a) \cap ToSet(b) = {}
          BY <4>4, <4>5
        <5> QED
          BY <4>5, <5>1, JoinQueues
      <4>7. f[k] \in Seq(S) /\ ToSet(f[k]) = First(k) \ blocked /\ IsInjective(f[k])
        BY <4>3, <4>5, <4>6
      <4> QED
        BY <3>2, <4>7 DEF Good, First
    <3> QED
      BY <3>3, <3>4
  <2>5. n \in 1 .. n
    BY <1>0, <1>4
  <2>6. Good(n)
    BY <2>4, <2>5
  <2>7. First(n) = ToSet(items)
    BY <1>0 DEF ToSet
  <2> QED
    BY <1>2, <2>1, <2>6, <2>7
<1> QED
  BY <1>3, <1>4

(***************************************************************************)
(* Where an item can be, between its submission and the history: the       *)
(* queues of the turn states, the mailbox, and the locals of tasks and     *)
(* calls that hold items they took from a queue.                           *)
(***************************************************************************)
Place ==
    ({"pending"} \X States) \cup ({"input", "batch"} \X Turns)
        \cup ({"given", "taken"} \X Procs) \cup ({"history", "mailbox"} \X {0})

Queue(a) ==
    CASE a[1] = "pending" -> pending[a[2]]
      [] a[1] = "input"   -> run[a[2]].input
      [] a[1] = "batch"   -> run[a[2]].batch
      [] a[1] = "given"   -> local[a[2]].input
      [] a[1] = "taken"   -> local[a[2]].items
      [] a[1] = "history" -> history
      [] a[1] = "mailbox" -> mailbox

Queues == [a \in Place |-> Queue(a)]

(* In the queues q no item is twice, nor in two of them, nor among the items of u. *)
Apart(q, u) ==
    /\ \A a \in Place : q[a] \in Seq(Items) /\ IsInjective(q[a]) /\ ToSet(q[a]) \cap u = {}
    /\ \A a, b \in Place : a # b => ToSet(q[a]) \cap ToSet(q[b]) = {}

(* Every item is in one place, once, or still with the environment. *)
Placed == Apart(Queues, unsent)

Spared(q, r, B) == \A c \in Place \ B : r[c] = q[c] \/ r[c] = <<>>

(* Items are dropped, and nothing is moved. *)
LEMMA DropApart ==
    ASSUME NEW q, NEW r, NEW u, NEW v, Apart(q, u), Spared(q, r, {}), v \subseteq u
    PROVE  Apart(r, v)
<1>1. \A c \in Place : r[c] = q[c] \/ (r[c] \in Seq(Items) /\ IsInjective(r[c]) /\ ToSet(r[c]) = {})
  BY EmptyQueue DEF Spared
<1>2. \A c \in Place : /\ r[c] \in Seq(Items) /\ IsInjective(r[c])
                       /\ ToSet(r[c]) \cap v = {} /\ ToSet(r[c]) \subseteq ToSet(q[c])
  BY <1>1 DEF Apart
<1> QED
  BY <1>2 DEF Apart

(* The queue of a becomes one of items that were in the places of B, which *)
(* are emptied, or were still with the environment.                        *)
LEMMA MergeApart ==
    ASSUME NEW q, NEW r, NEW u, NEW v, Apart(q, u),
           NEW a \in Place, NEW B \in SUBSET Place, NEW new,
           Spared(q, r, B \cup {a}), \A b \in B \ {a} : r[b] = <<>>,
           r[a] \in Seq(Items), IsInjective(r[a]),
           \A x \in ToSet(r[a]) : x \in new \/ \E b \in B : x \in ToSet(q[b]),
           new \subseteq u, v = u \ new
    PROVE  Apart(r, v)
<1>1. \A c \in Place \ {a} : r[c] = q[c] \/ (r[c] \in Seq(Items) /\ IsInjective(r[c]) /\ ToSet(r[c]) = {})
  BY EmptyQueue DEF Spared
<1>2. \A c \in Place \ {a} : /\ r[c] \in Seq(Items) /\ IsInjective(r[c])
                             /\ ToSet(r[c]) \subseteq ToSet(q[c])
  BY <1>1 DEF Apart
<1>3. \A c \in Place \ {a} : ToSet(r[c]) \cap ToSet(r[a]) = {}
  <2> SUFFICES ASSUME NEW c \in Place \ {a}, NEW x \in ToSet(r[c]), x \in ToSet(r[a]) PROVE FALSE
    OBVIOUS
  <2>1. x \in ToSet(q[c])
    BY <1>2
  <2>2. x \notin new
    BY <2>1 DEF Apart
  <2>3. PICK b \in B : x \in ToSet(q[b])
    BY <2>2
  <2>4. b = c
    BY <2>1, <2>3 DEF Apart
  <2>5. r[c] = <<>>
    BY <2>3, <2>4
  <2> QED
    BY <2>5, EmptyQueue
<1>4. \A c, d \in Place \ {a} : c # d => ToSet(r[c]) \cap ToSet(r[d]) = {}
  BY <1>2 DEF Apart
<1>5. \A c \in Place \ {a} : ToSet(r[c]) \cap v = {}
  BY <1>2 DEF Apart
<1>6. ToSet(r[a]) \cap v = {}
  <2> SUFFICES ASSUME NEW x \in ToSet(r[a]), x \in v PROVE FALSE
    OBVIOUS
  <2>1. PICK b \in B : x \in ToSet(q[b])
    OBVIOUS
  <2> QED
    BY <2>1 DEF Apart
<1> QED
  BY <1>2, <1>3, <1>4, <1>5, <1>6 DEF Apart

LEMMA Places ==
    /\ \A s \in States : <<"pending", s>> \in Place
    /\ \A t \in Turns : <<"input", t>> \in Place /\ <<"batch", t>> \in Place
    /\ \A p \in Procs : <<"given", p>> \in Place /\ <<"taken", p>> \in Place
    /\ <<"history", 0>> \in Place /\ <<"mailbox", 0>> \in Place
BY DEF Place

LEMMA QueueAt ==
    /\ \A s \in States : Queues[<<"pending", s>>] = pending[s]
    /\ \A t \in Turns : Queues[<<"input", t>>] = run[t].input /\ Queues[<<"batch", t>>] = run[t].batch
    /\ \A p \in Procs : Queues[<<"given", p>>] = local[p].input /\ Queues[<<"taken", p>>] = local[p].items
    /\ Queues[<<"history", 0>>] = history /\ Queues[<<"mailbox", 0>>] = mailbox
BY Places DEF Queues, Queue

(* What a step may do to the places outside B: leave them, or empty them. *)
Spares(B) ==
    /\ \A s \in States : <<"pending", s>> \notin B => pending'[s] \in {pending[s], <<>>}
    /\ \A t \in Turns : <<"input", t>> \notin B => run'[t].input \in {run[t].input, <<>>}
    /\ \A t \in Turns : <<"batch", t>> \notin B => run'[t].batch \in {run[t].batch, <<>>}
    /\ \A p \in Procs : <<"given", p>> \notin B => local'[p].input \in {local[p].input, <<>>}
    /\ \A p \in Procs : <<"taken", p>> \notin B => local'[p].items \in {local[p].items, <<>>}
    /\ <<"history", 0>> \notin B => history' = history
    /\ <<"mailbox", 0>> \notin B => mailbox' \in {mailbox, <<>>}

LEMMA SparesIs == ASSUME NEW B, Spares(B) PROVE Spared(Queues, Queues', B)
<1> SUFFICES ASSUME NEW c \in Place \ B PROVE Queue(c)' = Queue(c) \/ Queue(c)' = <<>>
  BY DEF Spared, Queues
<1>1. CASE c \in {"pending"} \X States
  BY <1>1 DEF Spares, Queue
<1>2. CASE c \in {"input"} \X Turns
  BY <1>2 DEF Spares, Queue
<1>3. CASE c \in {"batch"} \X Turns
  BY <1>3 DEF Spares, Queue
<1>4. CASE c \in {"given"} \X Procs
  BY <1>4 DEF Spares, Queue
<1>5. CASE c \in {"taken"} \X Procs
  BY <1>5 DEF Spares, Queue
<1>6. CASE c \in {"history"} \X {0}
  BY <1>6 DEF Spares, Queue
<1>7. CASE c \in {"mailbox"} \X {0}
  BY <1>7 DEF Spares, Queue
<1> QED
  BY <1>1, <1>2, <1>3, <1>4, <1>5, <1>6, <1>7 DEF Place

LEMMA QueueAtNext ==
    /\ \A s \in States : Queues'[<<"pending", s>>] = pending'[s]
    /\ \A t \in Turns : /\ Queues'[<<"input", t>>] = run'[t].input
                        /\ Queues'[<<"batch", t>>] = run'[t].batch
    /\ \A p \in Procs : /\ Queues'[<<"given", p>>] = local'[p].input
                        /\ Queues'[<<"taken", p>>] = local'[p].items
    /\ Queues'[<<"history", 0>>] = history' /\ Queues'[<<"mailbox", 0>>] = mailbox'
BY Places DEF Queues, Queue

LEMMA Dropped ==
    ASSUME Placed, Spares({}), unsent' \subseteq unsent
    PROVE  Placed'
BY SparesIs, DropApart DEF Placed

(* The queue of c becomes w, whose items came from the places of B. *)
LEMMA Moved ==
    ASSUME Placed, NEW c \in Place, NEW B \in SUBSET Place, NEW w \in Seq(Items), IsInjective(w),
           \A x \in ToSet(w) : \E b \in B : x \in ToSet(Queues[b]),
           Spares(B \cup {c}), \A b \in B \ {c} : Queues'[b] = <<>>, Queues'[c] = w,
           unsent' = unsent
    PROVE  Placed'
<1>1. Spared(Queues, Queues', B \cup {c})
  BY SparesIs
<1> DEFINE new == {}
<1>2. /\ unsent' = unsent \ new /\ new \subseteq unsent
      /\ \A x \in ToSet(Queues'[c]) : x \in new \/ \E b \in B : x \in ToSet(Queues[b])
  OBVIOUS
<1>3. Queues'[c] \in Seq(Items) /\ IsInjective(Queues'[c])
  OBVIOUS
<1> HIDE DEF new
<1> QED
  BY <1>1, <1>2, <1>3, MergeApart DEF Placed

(* Items of b, or some of them, go to the end of the queue of a. *)
LEMMA Joined ==
    ASSUME Placed, NEW a \in Place, NEW b \in Place, a # b,
           NEW t \in Seq(Items), IsInjective(t), ToSet(t) \subseteq ToSet(Queues[b]),
           Spares({a, b}), Queues'[a] = Queues[a] \o t, Queues'[b] = <<>>, unsent' = unsent
    PROVE  Placed'
<1> DEFINE s == Queues[a]
<1>1. /\ s \in Seq(Items) /\ IsInjective(s) /\ ToSet(s) \cap ToSet(Queues[b]) = {}
  BY DEF Placed, Apart
<1> HIDE DEF s
<1>2. s \o t \in Seq(Items) /\ IsInjective(s \o t) /\ ToSet(s \o t) = ToSet(s) \cup ToSet(t)
  BY <1>1, JoinQueues
<1>3. \A x \in ToSet(s \o t) : \E c \in {a, b} : x \in ToSet(Queues[c])
  BY <1>2 DEF s
<1>4. {a, b} \cup {a} = {a, b} /\ {a, b} \ {a} = {b}
  OBVIOUS
<1>5. Queues'[a] = s \o t
  BY DEF s
<1> DEFINE w == s \o t
           B == {a, b}
<1>6. /\ w \in Seq(Items) /\ IsInjective(w) /\ B \in SUBSET Place
      /\ \A x \in ToSet(w) : \E c \in B : x \in ToSet(Queues[c])
      /\ Spares(B \cup {a}) /\ \A c \in B \ {a} : Queues'[c] = <<>>
      /\ Queues'[a] = w
  BY <1>2, <1>3, <1>4, <1>5
<1> HIDE DEF w, B
<1> QED
  BY <1>6, Moved

(* An item the environment submits goes to c, into an empty queue or at the end. *)
LEMMA Arrived ==
    ASSUME Placed, NEW c \in Place, NEW x \in Items, x \in unsent, Spares({c}),
           Queues'[c] = <<x>> \/ Queues'[c] = Queues[c] \o <<x>>, unsent' = unsent \ {x}
    PROVE  Placed'
<1>1. <<x>> \in Seq(Items) /\ IsInjective(<<x>>) /\ ToSet(<<x>>) = {x}
  BY OneItem
<1> DEFINE s == Queues[c]  t == <<x>>  w == Queues'[c]
<1>2. s \in Seq(Items) /\ IsInjective(s) /\ ToSet(s) \cap {x} = {}
  BY DEF Placed, Apart
<1>3. w = t \/ w = s \o t
  OBVIOUS
<1>4. t \in Seq(Items) /\ IsInjective(t) /\ ToSet(t) = {x}
  BY <1>1
<1> HIDE DEF s, t, w
<1>5. s \o t \in Seq(Items) /\ IsInjective(s \o t) /\ ToSet(s \o t) = ToSet(s) \cup {x}
  BY <1>2, <1>4, JoinQueues
<1>6. w \in Seq(Items) /\ IsInjective(w) /\ \A y \in ToSet(w) : y = x \/ y \in ToSet(s)
  BY <1>3, <1>4, <1>5
<1>7. Spared(Queues, Queues', {c})
  BY SparesIs
<1> DEFINE B == {c}  new == {x}
<1>8. /\ B \in SUBSET Place /\ B \cup {c} = {c} /\ B \ {c} = {} /\ new \subseteq unsent
      /\ unsent' = unsent \ new
      /\ \A y \in ToSet(Queues'[c]) : y \in new \/ \E b \in B : y \in ToSet(Queues[b])
  BY <1>6 DEF s, w
<1>9. Queues'[c] \in Seq(Items) /\ IsInjective(Queues'[c])
  BY <1>6 DEF w
<1>10. /\ Spared(Queues, Queues', B \cup {c}) /\ \A b \in B \ {c} : Queues'[b] = <<>>
  BY <1>7, <1>8
<1> HIDE DEF B, new
<1> QED
  BY <1>8, <1>9, <1>10, MergeApart DEF Placed

(* The places get_pending_input takes from. *)
Drained == (IF activeState = 0 THEN {} ELSE {<<"pending", activeState>>})
             \cup (IF AcceptsMailboxDelivery THEN {<<"mailbox", 0>>} ELSE {})

LEMMA PendingInputIs ==
    ASSUME Placed, QueueTyped
    PROVE  /\ Drained \in SUBSET Place
           /\ GetPendingInput \in Seq(Items) /\ IsInjective(GetPendingInput)
           /\ \A x \in ToSet(GetPendingInput) : \E b \in Drained : x \in ToSet(Queues[b])
<1> DEFINE s == PendingOfActive
           t == IF AcceptsMailboxDelivery THEN mailbox ELSE <<>>
           a == <<"pending", activeState>>
           m == <<"mailbox", 0>>
<1>0. activeState # 0 => activeState \in States
  BY StateBounds DEF QueueTyped
<1>1. Drained \in SUBSET Place
  BY <1>0, Places DEF Drained
<1>2. activeState # 0 => s = Queues[a] /\ a \in Place /\ a \in Drained
  BY <1>0, QueueAt, Places DEF PendingOfActive, Drained
<1>3. m \in Place /\ Queues[m] = mailbox /\ a # m /\ (AcceptsMailboxDelivery => m \in Drained)
  BY QueueAt, Places DEF Drained
<1>4. activeState = 0 => s = <<>>
  BY DEF PendingOfActive
<1>5. GetPendingInput = s \o t
  BY DEF GetPendingInput
<1>6. /\ s \in Seq(Items) /\ IsInjective(s)
      /\ \A x \in ToSet(s) : \E b \in Drained : b = a /\ x \in ToSet(Queues[b])
  <2> HIDE DEF s, a
  <2>1. CASE activeState = 0
    BY <1>4, <2>1, EmptyQueue
  <2>2. CASE activeState # 0
    BY <1>2, <2>2 DEF Placed, Apart
  <2> QED
    BY <2>1, <2>2
<1>7. /\ t \in Seq(Items) /\ IsInjective(t)
      /\ \A x \in ToSet(t) : \E b \in Drained : b = m /\ x \in ToSet(Queues[b])
  <2> HIDE DEF m
  <2>1. CASE ~AcceptsMailboxDelivery
    BY <2>1, EmptyQueue
  <2>2. CASE AcceptsMailboxDelivery
    BY <1>3, <2>2 DEF Placed, Apart
  <2> QED
    BY <2>1, <2>2
<1> HIDE DEF s, t, a, m
<1>8. ToSet(s) \cap ToSet(t) = {}
  BY <1>1, <1>3, <1>6, <1>7 DEF Placed, Apart
<1>9. s \o t \in Seq(Items) /\ IsInjective(s \o t) /\ ToSet(s \o t) = ToSet(s) \cup ToSet(t)
  BY <1>6, <1>7, <1>8, JoinQueues
<1> QED
  BY <1>1, <1>5, <1>6, <1>7, <1>9

RunSpares ==
    \A t \in Turns : /\ run'[t].input \in {run[t].input, <<>>}
                     /\ run'[t].batch \in {run[t].batch, <<>>}
LocalSpares ==
    \A p \in Procs : /\ local'[p].input \in {local[p].input, <<>>}
                     /\ local'[p].items \in {local[p].items, <<>>}
PendingSpares == \A s \in States : pending'[s] \in {pending[s], <<>>}

LEMMA SparesAll ==
    ASSUME RunSpares, LocalSpares, PendingSpares, history' = history, mailbox' = mailbox
    PROVE  Spares({})
BY DEF Spares, RunSpares, LocalSpares, PendingSpares

LEMMA UnchangedSpares ==
    /\ UNCHANGED run => RunSpares
    /\ UNCHANGED local => LocalSpares
    /\ UNCHANGED pending => PendingSpares
BY DEF RunSpares, LocalSpares, PendingSpares

(* A turn that is being finished holds on to the turn state it gave up. *)
LeftoverHasState == \A t \in Turns : taskPc[t] = "leftover" => run[t].state \in States

LEMMA EndsSpares == ASSUME RunTyped, NEW t, Ends(t) PROVE RunSpares
<1>1. NoRun.input = <<>> /\ NoRun.batch = <<>>
  BY DEF NoRun, NewRun
<1> QED
  BY <1>1 DEF RunTyped, Ends, RunSpares

LEMMA TaskRunSpares ==
    ASSUME RunTyped, NEW t \in Turns,
           \/ Begin(t) \/ DropInput(t) \/ OutputMessage(t) \/ OutputToolCall(t) \/ SamplingEnds(t)
           \/ RetryWithoutImages(t) \/ FollowUp(t) \/ NoFollowUp(t) \/ RunTurnAgain(t)
           \/ RunCompact(t) \/ TaskFinished(t) \/ EmitTerminal(t) \/ ClearActive(t)
    PROVE  RunSpares
<1> USE DEF RunTyped, RunType
<1>1. CASE Begin(t) \/ OutputMessage(t) \/ SamplingEnds(t) \/ EmitTerminal(t)
  BY <1>1, UnchangedSpares DEF Begin, OutputMessage, SamplingEnds, EmitTerminal, taskVars
<1>2. CASE DropInput(t)
  <2>1. PICK b : run' = [run EXCEPT ![t].failed = b, ![t].input = <<>>]
    BY <1>2 DEF DropInput
  <2> QED
    BY <2>1 DEF RunSpares
<1>3. CASE OutputToolCall(t)
  BY <1>3 DEF OutputToolCall, RunSpares
<1>4. CASE RetryWithoutImages(t)
  BY <1>4 DEF RetryWithoutImages, RunSpares
<1>5. CASE FollowUp(t)
  <2>1. \/ \E b : run' = [run EXCEPT ![t].drain = b, ![t].follow = FALSE]
        \/ \E b : run' = [run EXCEPT ![t].failed = b, ![t].follow = FALSE]
    BY <1>5 DEF FollowUp
  <2>2. ASSUME NEW b, run' = [run EXCEPT ![t].drain = b, ![t].follow = FALSE] PROVE RunSpares
    BY <2>2 DEF RunSpares
  <2>3. ASSUME NEW b, run' = [run EXCEPT ![t].failed = b, ![t].follow = FALSE] PROVE RunSpares
    BY <2>3 DEF RunSpares
  <2> QED
    BY <2>1, <2>2, <2>3
<1>6. CASE NoFollowUp(t)
  <2>1. \/ run' = [run EXCEPT ![t].drain = TRUE, ![t].samples = @ + 1]
        \/ run' = run
    BY <1>6 DEF NoFollowUp
  <2>2. CASE run' = [run EXCEPT ![t].drain = TRUE, ![t].samples = @ + 1]
    BY <2>2 DEF RunSpares
  <2> QED
    BY <2>1, <2>2, UnchangedSpares
<1>7. CASE RunTurnAgain(t)
  BY <1>7 DEF RunTurnAgain, RunSpares
<1>8. CASE RunCompact(t)
  BY <1>8 DEF RunCompact, RunSpares
<1>9. CASE TaskFinished(t)
  <2>1. CASE LeavesQuietly(t)
    BY <1>9, <2>1, EndsSpares DEF TaskFinished
  <2>2. CASE ~LeavesQuietly(t)
    <3>1. run' = [run EXCEPT ![t].state = activeState]
      BY <1>9, <2>2 DEF TaskFinished
    <3> QED
      BY <3>1 DEF RunSpares
  <2> QED
    BY <2>1, <2>2
<1>10. CASE ClearActive(t)
  BY <1>10, EndsSpares DEF ClearActive
<1> QED
  BY <1>1, <1>2, <1>3, <1>4, <1>5, <1>6, <1>7, <1>8, <1>9, <1>10

(* The items of place b are recorded, but for the blocked ones. *)
LEMMA Recorded ==
    ASSUME Placed, NEW b \in Place, b # <<"history", 0>>, NEW blocked,
           history' = history \o Accepted(Queues[b], blocked),
           Spares({<<"history", 0>>, b}), Queues'[b] = <<>>, unsent' = unsent
    PROVE  Placed'
<1> DEFINE h == <<"history", 0>>
           t == Accepted(Queues[b], blocked)
<1>1. h \in Place /\ Queues[h] = history /\ Queues'[h] = history'
  BY Places, QueueAt, QueueAtNext
<1>2. Queues[b] \in Seq(Items) /\ IsInjective(Queues[b])
  BY DEF Placed, Apart
<1>3. t \in Seq(Items) /\ IsInjective(t) /\ ToSet(t) \subseteq ToSet(Queues[b])
  BY <1>2, AcceptedIs
<1>4. Queues'[h] = Queues[h] \o t /\ Spares({h, b}) /\ h # b
  BY <1>1
<1> HIDE DEF h, t
<1> QED
  BY <1>1, <1>3, <1>4, Joined

LEMMA TaskKeepsPlaces ==
    ASSUME Placed, LeftoverHasState, QueueTyped, RunTyped, LocalTyped, NEW t \in Turns, TaskStep(t)
    PROVE  Placed'
<1> DEFINE h == <<"history", 0>>
<1>1. CASE \/ Begin(t) \/ DropInput(t) \/ OutputMessage(t) \/ OutputToolCall(t) \/ SamplingEnds(t)
           \/ RetryWithoutImages(t) \/ FollowUp(t) \/ NoFollowUp(t) \/ RunTurnAgain(t)
           \/ RunCompact(t) \/ TaskFinished(t) \/ EmitTerminal(t) \/ ClearActive(t)
  <2>1. RunSpares
    BY <1>1, TaskRunSpares
  <2>2. UNCHANGED <<pending, mailbox, history, local, unsent>>
    BY <1>1 DEF Begin, DropInput, OutputMessage, OutputToolCall, SamplingEnds,
         RetryWithoutImages, FollowUp, NoFollowUp, RunTurnAgain, RunCompact, TaskFinished,
         EmitTerminal, ClearActive, queueVars, logVars, procVars, envVars
  <2> QED
    BY <2>1, <2>2, SparesAll, UnchangedSpares, Dropped
<1>2. CASE RecordInput(t)
  <2> DEFINE b == <<"input", t>>
  <2>1. /\ run'[t].input = <<>> /\ run'[t].batch = run[t].batch
        /\ \A u \in Turns \ {t} : run'[u].input = run[u].input /\ run'[u].batch = run[u].batch
    BY <1>2 DEF RecordInput, RunTyped, RunType
  <2>2. UNCHANGED <<pending, mailbox, local, unsent>>
    BY <1>2 DEF RecordInput, queueVars, procVars, envVars
  <2>3. PICK blocked : history' = history \o Accepted(run[t].input, blocked)
    BY <1>2 DEF RecordInput, Record
  <2>4. Spares({h, b})
    BY <2>1, <2>2 DEF Spares
  <2>5. b \in Place /\ b # h /\ Queues[b] = run[t].input /\ Queues'[b] = <<>>
    BY <2>1, Places, QueueAt, QueueAtNext
  <2> HIDE DEF b
  <2> QED
    BY <2>2, <2>3, <2>4, <2>5, Recorded
<1>3. CASE RecordPending(t)
  <2> DEFINE b == <<"batch", t>>
  <2>1. /\ run'[t].batch = <<>> /\ run'[t].input = run[t].input
        /\ \A u \in Turns \ {t} : run'[u].input = run[u].input /\ run'[u].batch = run[u].batch
    BY <1>3 DEF RecordPending, RunTyped, RunType
  <2>2. UNCHANGED <<pending, mailbox, local, unsent>>
    BY <1>3 DEF RecordPending, queueVars, procVars, envVars
  <2>3. PICK blocked : history' = history \o Accepted(run[t].batch, blocked)
    BY <1>3 DEF RecordPending, Record
  <2>4. Spares({h, b})
    BY <2>1, <2>2 DEF Spares
  <2>5. b \in Place /\ b # h /\ Queues[b] = run[t].batch /\ Queues'[b] = <<>>
    BY <2>1, Places, QueueAt, QueueAtNext
  <2> HIDE DEF b
  <2> QED
    BY <2>2, <2>3, <2>4, <2>5, Recorded
<1>4. CASE RecordLeftover(t)
  <2> DEFINE s == run[t].state
             b == <<"pending", s>>
  <2>1. s \in States
    BY <1>4 DEF RecordLeftover, LeftoverHasState
  <2>2. pending' = [pending EXCEPT ![s] = <<>>] /\ UNCHANGED <<run, mailbox, local, unsent>>
    BY <1>4 DEF RecordLeftover, procVars, envVars
  <2>3. PICK blocked : history' = history \o Accepted(pending[s], blocked)
    BY <1>4 DEF RecordLeftover, Record, Leftover
  <2> HIDE DEF s
  <2>4. /\ pending'[s] = <<>> /\ \A x \in States \ {s} : pending'[x] = pending[x]
    BY <2>1, <2>2 DEF QueueTyped
  <2>5. Spares({h, b})
    BY <2>2, <2>4 DEF Spares
  <2>6. b \in Place /\ b # h /\ Queues[b] = pending[s] /\ Queues'[b] = <<>>
    BY <2>1, <2>4, Places, QueueAt, QueueAtNext
  <2> HIDE DEF b
  <2> QED
    BY <2>2, <2>3, <2>5, <2>6, Recorded
<1>5. CASE Drain(t)
  <2>1. CASE ~run[t].drain
    <3>1. UNCHANGED <<run, pending, mailbox, history, local, unsent>>
      BY <1>5, <2>1 DEF Drain, queueVars, logVars, procVars, envVars
    <3> QED
      BY <3>1, SparesAll, UnchangedSpares, Dropped
  <2>2. CASE run[t].drain
    <3> DEFINE c == <<"batch", t>>
               w == GetPendingInput
    <3>1. /\ run' = [run EXCEPT ![t].batch = w] /\ DrainPending
          /\ UNCHANGED <<history, local, unsent>>
      BY <1>5, <2>2 DEF Drain, logVars, procVars, envVars
    <3>2. /\ Drained \in SUBSET Place /\ w \in Seq(Items) /\ IsInjective(w)
          /\ \A x \in ToSet(w) : \E b \in Drained : x \in ToSet(Queues[b])
      BY PendingInputIs
    <3> HIDE DEF w
    <3>3. /\ run'[t].batch = w /\ run'[t].input = run[t].input
          /\ \A u \in Turns \ {t} : run'[u].input = run[u].input /\ run'[u].batch = run[u].batch
      BY <3>1 DEF RunTyped, RunType
    <3>4. /\ \A x \in States : pending'[x] = IF x = activeState THEN <<>> ELSE pending[x]
          /\ mailbox' = IF AcceptsMailboxDelivery THEN <<>> ELSE mailbox
      BY <3>1, StateBounds DEF DrainPending, TakenPending, QueueTyped
    <3>5. Spares(Drained \cup {c})
      <4>1. /\ \A u \in Turns : <<"batch", u>> \notin Drained \cup {c} => u # t
            /\ <<"history", 0>> \notin Drained \cup {c}
        BY DEF Drained
      <4> QED
        BY <3>1, <3>3, <3>4, <4>1 DEF Spares
    <3>6. \A b \in Drained \ {c} : Queues'[b] = <<>>
      <4>1. activeState # 0 => activeState \in States
        BY StateBounds DEF QueueTyped
      <4> QED
        BY <3>4, <4>1, QueueAtNext DEF Drained
    <3>7. c \in Place /\ Queues'[c] = w
      BY <3>3, Places, QueueAtNext
    <3> HIDE DEF c
    <3> QED
      BY <3>1, <3>2, <3>5, <3>6, <3>7, Moved
  <2> QED
    BY <2>1, <2>2
<1> QED
  BY <1>1, <1>2, <1>3, <1>4, <1>5 DEF TaskStep

LEMMA EmptyLocal == NoLocal.input = <<>> /\ NoLocal.items = <<>>
BY DEF NoLocal

(* A call that only moves on, returns, or notes a turn state in its locals. *)
LEMMA LocalDropped ==
    ASSUME LocalTyped, NEW p,
           \/ UNCHANGED local \/ SetLocal(p, NoLocal)
           \/ \E s : SetLocal(p, [local[p] EXCEPT !.state = s])
           \/ \E s : SetLocal(p, [local[p] EXCEPT !.vstate = s])
    PROVE  LocalSpares
<1>1. CASE UNCHANGED local
  BY <1>1, UnchangedSpares
<1>2. CASE SetLocal(p, NoLocal)
  BY <1>2, EmptyLocal DEF LocalTyped, SetLocal, LocalSpares
<1>3. ASSUME NEW s, SetLocal(p, [local[p] EXCEPT !.state = s]) PROVE LocalSpares
  BY <1>3 DEF LocalTyped, LocalType, SetLocal, LocalSpares
<1>4. ASSUME NEW s, SetLocal(p, [local[p] EXCEPT !.vstate = s]) PROVE LocalSpares
  BY <1>4 DEF LocalTyped, LocalType, SetLocal, LocalSpares
<1> QED
  BY <1>1, <1>2, <1>3, <1>4

LEMMA CallLocalSpares ==
    ASSUME LocalTyped, NEW p \in Procs,
           \/ MaybeStart(p) \/ ReserveTurn(p) \/ AbortAll(p) \/ AbortTask(p) \/ EmitAborted(p)
           \/ ClearPending(p) \/ TryReserve(p) \/ TryCheck(p) \/ ClearReservedIdleTurn(p)
           \/ TryConfirm(p)
    PROVE  LocalSpares
<1>1. CASE MaybeStart(p) \/ ReserveTurn(p)
  BY <1>1, LocalDropped DEF MaybeStart, ReserveTurn, Return
<1>2. CASE AbortAll(p)
  <2>1. CASE activeTask = 0
    BY <1>2, <2>1, LocalDropped DEF AbortAll, NothingToAbort, Return
  <2>2. CASE activeTask # 0
    BY <1>2, <2>2, LocalDropped DEF AbortAll, TakeForAbort
  <2> QED
    BY <2>1, <2>2
<1>3. CASE AbortTask(p) \/ EmitAborted(p) \/ TryCheck(p) \/ TryConfirm(p)
  BY <1>3, LocalDropped DEF AbortTask, EmitAborted, TryCheck, TryConfirm
<1>4. CASE ClearPending(p)
  BY <1>4, LocalDropped DEF ClearPending
<1>5. CASE TryReserve(p)
  BY <1>5, LocalDropped DEF TryReserve, Return
<1>6. CASE ClearReservedIdleTurn(p)
  BY <1>6, LocalDropped DEF ClearReservedIdleTurn
<1> QED
  BY <1>1, <1>2, <1>3, <1>4, <1>5, <1>6

(* What a call took goes to the end of the input of turn state s. *)
LEMMA TakenJoins ==
    ASSUME Placed, QueueTyped, LocalTyped, NEW p \in Procs, NEW s \in States,
           pending' = ExtendPending(s, local[p].items), local'[p].items = <<>>,
           local'[p].input \in {local[p].input, <<>>},
           \A q \in Procs \ {p} : local'[q] = local[q],
           UNCHANGED <<run, mailbox, history, unsent>>
    PROVE  Placed'
<1> DEFINE a == <<"pending", s>>  b == <<"taken", p>>
           t == local[p].items
<1>1. pending'[s] = pending[s] \o t /\ \A x \in States \ {s} : pending'[x] = pending[x]
  BY DEF ExtendPending, QueueTyped
<1>2. Spares({a, b})
  BY <1>1 DEF Spares
<1>3. /\ a \in Place /\ b \in Place /\ a # b /\ Queues[a] = pending[s] /\ Queues[b] = t
      /\ Queues'[a] = pending'[s] /\ Queues'[b] = <<>>
  BY Places, QueueAt, QueueAtNext
<1> HIDE DEF a, b, t
<1>4. t \in Seq(Items) /\ IsInjective(t) /\ ToSet(t) \subseteq ToSet(Queues[b])
  BY <1>3 DEF Placed, Apart
<1> QED
  BY <1>1, <1>2, <1>3, <1>4, Joined

LEMMA CallKeepsPlaces ==
    ASSUME Placed, QueueTyped, RunTyped, LocalTyped, NEW p \in Procs, Continue(p)
    PROVE  Placed'
<1>0. local \in [Procs -> LocalType]
  BY DEF LocalTyped
<1>1. CASE \/ MaybeStart(p) \/ ReserveTurn(p) \/ AbortAll(p) \/ AbortTask(p) \/ EmitAborted(p)
           \/ ClearPending(p) \/ TryReserve(p) \/ TryCheck(p) \/ ClearReservedIdleTurn(p)
           \/ TryConfirm(p)
  <2>1. LocalSpares
    BY <1>1, CallLocalSpares
  <2>2. UNCHANGED <<mailbox, history, unsent>>
    BY <1>1 DEF MaybeStart, ReserveTurn, AbortAll, AbortTask, EmitAborted, ClearPending,
         TryReserve, TryCheck, ClearReservedIdleTurn, TryConfirm, queueVars, logVars, envVars
  <2>3. RunSpares
    <3>1. CASE AbortTask(p)
      BY <3>1, EndsSpares DEF AbortTask, Killed
    <3>2. CASE ~AbortTask(p)
      BY <1>1, <3>2, UnchangedSpares DEF MaybeStart, ReserveTurn, AbortAll, EmitAborted,
           ClearPending, TryReserve, TryCheck, ClearReservedIdleTurn, TryConfirm, taskVars
    <3> QED
      BY <3>1, <3>2
  <2>4. PendingSpares
    <3>1. CASE ClearPending(p)
      BY <3>1 DEF ClearPending, PendingSpares, QueueTyped
    <3>2. CASE ~ClearPending(p)
      BY <1>1, <3>2, UnchangedSpares DEF MaybeStart, ReserveTurn, AbortAll, AbortTask,
           EmitAborted, TryReserve, TryCheck, ClearReservedIdleTurn, TryConfirm, queueVars
    <3> QED
      BY <3>1, <3>2
  <2> QED
    BY <2>1, <2>2, <2>3, <2>4, SparesAll, Dropped
<1>2. CASE StartTake(p)
  <2> DEFINE c == <<"taken", p>>
             w == GetPendingInput
  <2>1. /\ local' = [local EXCEPT ![p] = [local[p] EXCEPT !.items = w]] /\ DrainPending
        /\ UNCHANGED <<run, history, unsent>>
    BY <1>2 DEF StartTake, SetLocal, logVars, taskVars, envVars
  <2>2. /\ Drained \in SUBSET Place /\ w \in Seq(Items) /\ IsInjective(w)
        /\ \A x \in ToSet(w) : \E b \in Drained : x \in ToSet(Queues[b])
    BY PendingInputIs
  <2> HIDE DEF w
  <2>3. /\ local'[p].items = w /\ local'[p].input = local[p].input
        /\ \A q \in Procs \ {p} : local'[q] = local[q]
    BY <1>0, <2>1 DEF LocalType
  <2>4. /\ \A x \in States : pending'[x] = IF x = activeState THEN <<>> ELSE pending[x]
        /\ mailbox' = IF AcceptsMailboxDelivery THEN <<>> ELSE mailbox
    BY <2>1, StateBounds DEF DrainPending, TakenPending, QueueTyped
  <2>5. Spares(Drained \cup {c})
    <3>1. /\ \A q \in Procs : <<"taken", q>> \notin Drained \cup {c} => q # p
          /\ <<"history", 0>> \notin Drained \cup {c}
      BY DEF Drained
    <3> QED
      BY <2>1, <2>3, <2>4, <3>1 DEF Spares
  <2>6. \A b \in Drained \ {c} : Queues'[b] = <<>>
    <3>1. activeState # 0 => activeState \in States
      BY StateBounds DEF QueueTyped
    <3> QED
      BY <2>4, <3>1, QueueAtNext DEF Drained
  <2>7. c \in Place /\ Queues'[c] = w
    BY <2>3, Places, QueueAtNext
  <2> HIDE DEF c
  <2> QED
    BY <2>1, <2>2, <2>5, <2>6, <2>7, Moved
<1>3. CASE StartJoin(p)
  <2>1. activeState' \in States
    BY <1>3, StateBounds DEF StartJoin, NewActiveTurn, QueueTyped
  <2>2. /\ local'[p].items = <<>> /\ local'[p].input = local[p].input
        /\ \A q \in Procs \ {p} : local'[q] = local[q]
    BY <1>0, <1>3 DEF StartJoin, SetLocal, LocalType
  <2>3. /\ pending' = ExtendPending(activeState', local[p].items)
        /\ UNCHANGED <<run, mailbox, history, unsent>>
    BY <1>3 DEF StartJoin, logVars, taskVars, envVars
  <2> DEFINE s == activeState'
  <2>4. s \in States /\ pending' = ExtendPending(s, local[p].items)
    BY <2>1, <2>3
  <2> HIDE DEF s
  <2> QED
    BY <2>2, <2>3, <2>4, TakenJoins
<1>4. CASE StartInstall(p)
  <2> DEFINE t == turn[p]
             c == <<"input", t>>
             b == <<"given", p>>
             w == local[p].input
  <2>1. /\ Install(t, local[p].kind, w) /\ local' = [local EXCEPT ![p] = NoLocal]
        /\ UNCHANGED <<pending, mailbox, history, unsent>>
    BY <1>4 DEF StartInstall, Return, SetLocal, queueVars, envVars
  <2>2. /\ local'[p].items = <<>> /\ local'[p].input = <<>>
        /\ \A q \in Procs \ {p} : local'[q] = local[q]
    BY <1>0, <2>1, EmptyLocal
  <2>3. \A u \in Turns : \/ u = t /\ run'[u] = NewRun(local[p].kind, w)
                         \/ u # t /\ (run'[u] = NoRun \/ run'[u] = run[u])
    BY <2>1 DEF Install
  <2>4. /\ NewRun(local[p].kind, w).input = w /\ NewRun(local[p].kind, w).batch = <<>>
        /\ NoRun.input = <<>> /\ NoRun.batch = <<>>
    BY DEF NewRun, NoRun
  <2>5. /\ \A u \in Turns : u # t => run'[u].input \in {run[u].input, <<>>}
        /\ \A u \in Turns : run'[u].batch \in {run[u].batch, <<>>}
        /\ t \in Turns => run'[t].input = w
    BY <2>3, <2>4
  <2>6. Queues[b] = w /\ Queues'[b] = <<>> /\ b \in Place /\ b # c
    BY <2>2, Places, QueueAt, QueueAtNext
  <2> HIDE DEF t, w
  <2>7. CASE t \in Turns
    <3>1. c \in Place /\ Queues'[c] = w
      BY <2>5, <2>7, Places, QueueAtNext
    <3>2. Spares({b} \cup {c})
      BY <2>1, <2>2, <2>5 DEF Spares
    <3>3. w \in Seq(Items) /\ IsInjective(w)
      BY <2>6 DEF Placed, Apart
    <3> DEFINE B == {b}
    <3>4. /\ B \in SUBSET Place /\ Spares(B \cup {c}) /\ \A x \in B \ {c} : Queues'[x] = <<>>
          /\ \A x \in ToSet(w) : \E y \in B : x \in ToSet(Queues[y])
      BY <2>6, <3>2
    <3> HIDE DEF B, b, c
    <3> QED
      BY <2>1, <3>1, <3>3, <3>4, Moved
  <2>8. CASE t \notin Turns
    <3>1. RunSpares /\ LocalSpares
      BY <2>2, <2>5, <2>8 DEF RunSpares, LocalSpares
    <3> QED
      BY <2>1, <3>1, UnchangedSpares, SparesAll, Dropped
  <2> QED
    BY <2>7, <2>8
<1>5. CASE RecordItems(p)
  <2> DEFINE h == <<"history", 0>>
             b == <<"taken", p>>
             t == local[p].items
  <2>1. /\ history' = history \o t /\ local' = [local EXCEPT ![p] = NoLocal]
        /\ UNCHANGED <<pending, mailbox, run, unsent>>
    BY <1>5 DEF RecordItems, Return, SetLocal, queueVars, taskVars, envVars
  <2>2. /\ local'[p].items = <<>> /\ local'[p].input = <<>>
        /\ \A q \in Procs \ {p} : local'[q] = local[q]
    BY <1>0, <2>1, EmptyLocal
  <2>3. Spares({h, b})
    BY <2>1, <2>2 DEF Spares
  <2>4. /\ h \in Place /\ b \in Place /\ h # b /\ Queues[h] = history /\ Queues'[h] = history'
        /\ Queues[b] = t /\ Queues'[b] = <<>>
    BY <2>2, Places, QueueAt, QueueAtNext
  <2> HIDE DEF h, b, t
  <2>5. t \in Seq(Items) /\ IsInjective(t) /\ ToSet(t) \subseteq ToSet(Queues[b])
    BY <2>4 DEF Placed, Apart
  <2> QED
    BY <2>1, <2>3, <2>4, <2>5, Joined
<1>6. CASE TryExtend(p)
  <2> DEFINE s == local[p].state
  <2>1. /\ pending' = ExtendPending(s, local[p].items) /\ local' = [local EXCEPT ![p] = NoLocal]
        /\ UNCHANGED <<mailbox, run, history, unsent>>
    BY <1>6 DEF TryExtend, SetLocal, logVars, taskVars, envVars
  <2>2. /\ local'[p].items = <<>> /\ local'[p].input = <<>>
        /\ \A q \in Procs \ {p} : local'[q] = local[q]
    BY <1>0, <2>1, EmptyLocal
  <2> HIDE DEF s
  <2>3. CASE s \in States
    BY <2>1, <2>2, <2>3, TakenJoins
  <2>4. CASE s \notin States
    <3>1. PendingSpares /\ LocalSpares
      BY <2>1, <2>2, <2>4 DEF ExtendPending, QueueTyped, PendingSpares, LocalSpares
    <3> QED
      BY <2>1, <3>1, UnchangedSpares, SparesAll, Dropped
  <2> QED
    BY <2>3, <2>4
<1> QED
  BY <1>1, <1>2, <1>3, <1>4, <1>5, <1>6 DEF Continue

(* An item submitted to turn state s goes to the end of its input. *)
LEMMA ArrivesInTurn ==
    ASSUME Placed, QueueTyped, NEW s \in States, NEW x \in Items, x \in unsent,
           pending' = ExtendPending(s, <<x>>), unsent' = unsent \ {x},
           UNCHANGED <<run, local, mailbox, history>>
    PROVE  Placed'
<1> DEFINE c == <<"pending", s>>
<1>1. pending'[s] = pending[s] \o <<x>> /\ \A y \in States \ {s} : pending'[y] = pending[y]
  BY DEF ExtendPending, QueueTyped
<1>2. Spares({c})
  BY <1>1 DEF Spares
<1>3. c \in Place /\ Queues'[c] = Queues[c] \o <<x>>
  BY <1>1, Places, QueueAt, QueueAtNext
<1> HIDE DEF c
<1> QED
  BY <1>2, <1>3, Arrived

(* An item submitted with a call is held by the caller. *)
LEMMA ArrivesInCall ==
    ASSUME Placed, LocalTyped, NEW p \in Procs, NEW x \in Items, x \in unsent,
           unsent' = unsent \ {x}, UNCHANGED <<run, pending, mailbox, history>>,
           NEW l, local' = [local EXCEPT ![p] = l],
           \/ l.input = <<x>> /\ l.items = <<>>
           \/ l.input = <<>> /\ l.items = <<x>>
    PROVE  Placed'
<1>1. local'[p] = l /\ \A q \in Procs \ {p} : local'[q] = local[q]
  BY DEF LocalTyped
<1> DEFINE g == <<"given", p>>  k == <<"taken", p>>
<1>2. /\ g \in Place /\ Queues'[g] = l.input
      /\ k \in Place /\ Queues'[k] = l.items
  BY <1>1, Places, QueueAtNext
<1>3. CASE l.input = <<x>> /\ l.items = <<>>
  <2>1. Spares({g})
    BY <1>1, <1>3 DEF Spares
  <2> HIDE DEF g
  <2> QED
    BY <1>2, <1>3, <2>1, Arrived
<1>4. CASE l.input = <<>> /\ l.items = <<x>>
  <2>1. Spares({k})
    BY <1>1, <1>4 DEF Spares
  <2> HIDE DEF k
  <2> QED
    BY <1>2, <1>4, <2>1, Arrived
<1> QED
  BY <1>3, <1>4

LEMMA SpawnDrops ==
    ASSUME LocalTyped, NEW k, NEW then, Spawn(k, <<>>, then) PROVE LocalSpares
<1> DEFINE l == [NoLocal EXCEPT !.kind = k, !.input = <<>>, !.then = then]
<1>1. l.input = <<>> /\ l.items = <<>>
  BY DEF NoLocal
<1>2. local' = [local EXCEPT !["loop"] = l]
  BY DEF Spawn, SetLocal
<1> HIDE DEF l
<1> QED
  BY <1>1, <1>2 DEF LocalTyped, LocalSpares

LEMMA RequestKeepsPlaces ==
    ASSUME Placed, DataTyped,
           Submission \/ ShutdownComplete \/ \E p \in Clients : Call(p)
    PROVE  Placed'
<1>0. /\ QueueTyped /\ LocalTyped /\ "loop" \in Procs /\ unsent \subseteq Items
      /\ (activeState # 0 => activeState \in States)
      /\ (Steerable => activeState \in States)
  BY StateBounds DEF DataTyped, QueueTyped, EnvTyped, Procs, Steerable
<1>1. CASE UserInput
  <2>1. PICK i \in Inputs \cap unsent :
          /\ Submit({i})
          /\ \/ Steerable /\ Steer(i) /\ UNCHANGED <<rejected, pc, local>>
             \/ /\ activeTask = 0
                /\ Spawn("regular", <<i>>, "start")
                /\ UNCHANGED <<queueVars, rejected, owner>>
             \/ /\ activeTask # 0 /\ ~Steerable
                /\ rejected' = rejected \cup {i}
                /\ UNCHANGED <<queueVars, owner, pc, local>>
    BY <1>1 DEF UserInput
  <2>2. i \in Items /\ i \in unsent /\ unsent' = unsent \ {i} /\ UNCHANGED <<run, history>>
    BY <1>1, <2>1 DEF UserInput, Submit, Items, taskVars
  <2>3. CASE Steerable /\ Steer(i) /\ UNCHANGED local
    BY <1>0, <2>2, <2>3, ArrivesInTurn DEF Steer
  <2>4. CASE Spawn("regular", <<i>>, "start") /\ UNCHANGED queueVars
    <3> DEFINE l == [NoLocal EXCEPT !.kind = "regular", !.input = <<i>>, !.then = "start"]
    <3>1. l.input = <<i>> /\ l.items = <<>>
      BY DEF NoLocal
    <3>2. local' = [local EXCEPT !["loop"] = l] /\ UNCHANGED <<pending, mailbox>>
      BY <2>4 DEF Spawn, SetLocal, queueVars
    <3> HIDE DEF l
    <3> QED
      BY <1>0, <2>2, <3>1, <3>2, ArrivesInCall
  <2>5. CASE UNCHANGED <<queueVars, local>>
    BY <2>2, <2>5, UnchangedSpares, SparesAll, Dropped DEF queueVars
  <2> QED
    BY <2>1, <2>3, <2>4, <2>5
<1>2. CASE InterAgentCommunication
  <2>1. PICK m \in Mails \cap unsent : Submit({m}) /\ mailbox' = Append(mailbox, m)
    BY <1>2 DEF InterAgentCommunication
  <2>2. m \in Items /\ m \in unsent /\ unsent' = unsent \ {m} /\ UNCHANGED <<run, history, local, pending>>
    BY <1>2, <2>1 DEF InterAgentCommunication, Submit, Items, taskVars, logVars
  <2> DEFINE c == <<"mailbox", 0>>
  <2>3. mailbox' = mailbox \o <<m>>
    BY <1>0, <2>1, <2>2, AppendIsConcat DEF QueueTyped
  <2>4. Spares({c})
    BY <2>2 DEF Spares
  <2>5. c \in Place /\ Queues'[c] = Queues[c] \o <<m>>
    BY <2>3, Places, QueueAt, QueueAtNext
  <2> HIDE DEF c
  <2> QED
    BY <2>2, <2>4, <2>5, Arrived
<1>3. CASE Interrupt \/ Compact \/ Shutdown
  <2>1. UNCHANGED <<run, history, pending, mailbox, unsent>>
    BY <1>3 DEF Interrupt, Compact, Shutdown, SubmitOp, queueVars, logVars, taskVars
  <2>2. LocalSpares
    BY <1>0, <1>3, SpawnDrops DEF Interrupt, Compact, Shutdown
  <2> QED
    BY <2>1, <2>2, UnchangedSpares, SparesAll, Dropped
<1>4. CASE ShutdownComplete
  <2>1. UNCHANGED <<run, history, pending, mailbox, unsent, local>>
    BY <1>4 DEF ShutdownComplete, queueVars, logVars, taskVars, envVars
  <2> QED
    BY <2>1, UnchangedSpares, SparesAll, Dropped
<1>5. ASSUME NEW p \in Clients, Call(p) PROVE Placed'
  <2>0. p \in Procs
    BY <1>5 DEF Procs
  <2>1. CASE SteerInput(p)
    <3>1. PICK i \in Inputs \cap unsent : Submit({i}) /\ Steer(i)
      BY <2>1 DEF SteerInput
    <3>2. /\ i \in Items /\ i \in unsent /\ unsent' = unsent \ {i} /\ Steerable
          /\ pending' = ExtendPending(activeState, <<i>>) /\ UNCHANGED <<run, history, local, mailbox>>
      BY <2>1, <3>1 DEF SteerInput, Submit, Steer, Items, taskVars, procVars
    <3> QED
      BY <1>0, <3>2, ArrivesInTurn
  <2>2. CASE InjectNoNewTurn(p)
    <3>1. PICK x \in Injections \cap unsent :
            /\ Submit({x})
            /\ IF activeState # 0
                 THEN /\ pending' = ExtendPending(activeState, <<x>>)
                      /\ UNCHANGED <<pc, local>>
                 ELSE /\ Move(p, "recordItems")
                      /\ SetLocal(p, [NoLocal EXCEPT !.items = <<x>>])
                      /\ UNCHANGED pending
      BY <2>2 DEF InjectNoNewTurn
    <3>2. /\ x \in Items /\ x \in unsent /\ unsent' = unsent \ {x}
          /\ UNCHANGED <<run, history, mailbox>>
      BY <2>2, <3>1 DEF InjectNoNewTurn, Submit, Items, taskVars, logVars
    <3>3. CASE activeState # 0
      BY <1>0, <3>1, <3>2, <3>3, ArrivesInTurn
    <3>4. CASE activeState = 0
      <4> DEFINE l == [NoLocal EXCEPT !.items = <<x>>]
      <4>1. l.input = <<>> /\ l.items = <<x>>
        BY DEF NoLocal
      <4>2. local' = [local EXCEPT ![p] = l] /\ UNCHANGED pending
        BY <3>1, <3>4 DEF SetLocal
      <4> HIDE DEF l
      <4> QED
        BY <1>0, <2>0, <3>2, <4>1, <4>2, ArrivesInCall
    <3> QED
      BY <3>3, <3>4
  <2>3. CASE AbortTurnIfActive(p)
    <3>1. UNCHANGED <<run, history, pending, mailbox, unsent>>
      BY <2>3 DEF AbortTurnIfActive, SubmitOp, queueVars, logVars
    <3> DEFINE l == [NoLocal EXCEPT !.vstate = activeState]
    <3>2. l.input = <<>> /\ l.items = <<>>
      BY DEF NoLocal
    <3>3. local' = [local EXCEPT ![p] = l]
      BY <2>3 DEF AbortTurnIfActive, TakeForAbort, SetLocal
    <3> HIDE DEF l
    <3>4. LocalSpares
      BY <1>0, <3>2, <3>3 DEF LocalTyped, LocalSpares
    <3> QED
      BY <3>1, <3>4, UnchangedSpares, SparesAll, Dropped
  <2>4. CASE TryStartTurnIfIdle(p)
    <3>1. PICK x \in Injections \cap unsent :
            Submit({x}) /\ SetLocal(p, [NoLocal EXCEPT !.items = <<x>>])
      BY <2>4 DEF TryStartTurnIfIdle
    <3>2. /\ x \in Items /\ x \in unsent /\ unsent' = unsent \ {x}
          /\ UNCHANGED <<run, history, pending, mailbox>>
      BY <2>4, <3>1 DEF TryStartTurnIfIdle, Submit, Items, taskVars, logVars, queueVars
    <3> DEFINE l == [NoLocal EXCEPT !.items = <<x>>]
    <3>3. l.input = <<>> /\ l.items = <<x>>
      BY DEF NoLocal
    <3>4. local' = [local EXCEPT ![p] = l]
      BY <3>1 DEF SetLocal
    <3> HIDE DEF l
    <3> QED
      BY <1>0, <2>0, <3>2, <3>3, <3>4, ArrivesInCall
  <2> QED
    BY <1>5, <2>1, <2>2, <2>3, <2>4 DEF Call
<1> QED
  BY <1>1, <1>2, <1>3, <1>4, <1>5 DEF Submission

LEMMA LeftoverStep ==
    ASSUME LeftoverHasState, IInv, DataTyped, Next PROVE LeftoverHasState'
<1>0. /\ QueueTyped /\ run \in [Turns -> RunType] /\ taskPc \in [Turns -> Working \cup Finishing \cup {"none", "dead"}]
      /\ (activeTask # 0 => activeState \in States)
  BY StateBounds DEF DataTyped, QueueTyped, RunTyped, IInv, ControlTyped
<1>1. ASSUME NEW t, Ends(t) PROVE LeftoverHasState'
  BY <1>0, <1>1 DEF Ends, Goto, LeftoverHasState
<1>2. ASSUME NEW t \in Turns, TaskStep(t) PROVE LeftoverHasState'
  <2>1. CASE TaskFinished(t)
    <3>1. CASE LeavesQuietly(t)
      BY <1>1, <2>1, <3>1 DEF TaskFinished
    <3>2. CASE ~LeavesQuietly(t)
      <4>1. /\ run' = [run EXCEPT ![t].state = activeState] /\ activeState \in States
            /\ taskPc' = [taskPc EXCEPT ![t] = "leftover"]
        BY <1>0, <2>1, <3>2 DEF TaskFinished, LeavesQuietly, Goto
      <4> QED
        BY <1>0, <4>1 DEF LeftoverHasState, RunType
    <3> QED
      BY <3>1, <3>2
  <2>2. CASE ClearActive(t)
    BY <1>1, <2>2 DEF ClearActive
  <2>3. CASE ~TaskFinished(t) /\ ~ClearActive(t)
    <3>1. \A u \in Turns \ {t} : run'[u] = run[u] /\ taskPc'[u] = taskPc[u]
      BY <1>0, <1>2, <2>3 DEF TaskStep, Goto, Begin, RecordInput, DropInput, Drain, RecordPending,
           OutputMessage, OutputToolCall, SamplingEnds, RetryWithoutImages, FollowUp, NoFollowUp,
           RunTurnAgain, RunCompact, RecordLeftover, EmitTerminal, taskVars
    <3>2. taskPc'[t] # "leftover"
      BY <1>0, <1>2, <2>3 DEF TaskStep, Goto, Begin, RecordInput, DropInput, Drain, RecordPending,
           OutputMessage, OutputToolCall, SamplingEnds, RetryWithoutImages, FollowUp, NoFollowUp,
           RunTurnAgain, RunCompact, RecordLeftover, EmitTerminal, taskVars
    <3> QED
      BY <3>1, <3>2 DEF LeftoverHasState
  <2> QED
    BY <2>1, <2>2, <2>3
<1>3. ASSUME UNCHANGED <<taskPc, run>> PROVE LeftoverHasState'
  BY <1>3 DEF LeftoverHasState
<1>4. ASSUME NEW p \in Procs, Continue(p) PROVE LeftoverHasState'
  <2>1. CASE AbortTask(p)
    BY <1>1, <2>1 DEF AbortTask, Killed
  <2>2. CASE StartInstall(p)
    <3> DEFINE t == turn[p]
    <3>1. \A u \in Turns : taskPc'[u] = "leftover" => taskPc[u] = "leftover" /\ run'[u] = run[u]
      BY <2>2 DEF StartInstall, Install
    <3> QED
      BY <3>1 DEF LeftoverHasState
  <2>3. CASE ~AbortTask(p) /\ ~StartInstall(p)
    BY <1>3, <1>4, <2>3 DEF Continue, StartTake, StartJoin, MaybeStart, ReserveTurn, AbortAll,
         EmitAborted, ClearPending, RecordItems, TryReserve, TryCheck, ClearReservedIdleTurn,
         TryConfirm, TryExtend, taskVars
  <2> QED
    BY <2>1, <2>2, <2>3
<1>5. CASE Submission \/ ShutdownComplete \/ \E p \in Clients : Call(p)
  BY <1>3, <1>5 DEF Submission, UserInput, InterAgentCommunication, Interrupt, Compact, Shutdown,
       ShutdownComplete, Call, SteerInput, InjectNoNewTurn, AbortTurnIfActive, TryStartTurnIfIdle,
       taskVars
<1> QED
  BY <1>2, <1>4, <1>5 DEF Next

LEMMA InitPlaced == Init => Placed /\ LeftoverHasState
<1> SUFFICES ASSUME Init PROVE Placed /\ LeftoverHasState
  OBVIOUS
<1>1. NoRun.input = <<>> /\ NoRun.batch = <<>>
  BY DEF NoRun, NewRun
<1>2. /\ \A s \in States : pending[s] = <<>>
      /\ \A t \in Turns : run[t].input = <<>> /\ run[t].batch = <<>>
      /\ \A p \in Procs : local[p].input = <<>> /\ local[p].items = <<>>
      /\ history = <<>> /\ mailbox = <<>>
  BY <1>1, EmptyLocal DEF Init
<1>3. ASSUME NEW c \in Place PROVE Queue(c) = <<>>
  BY <1>2 DEF Place, Queue
<1>4. \A c \in Place : Queues[c] = <<>>
  BY <1>3 DEF Queues
<1>5. Placed
  BY <1>4, EmptyQueue DEF Placed, Apart
<1>6. LeftoverHasState
  BY DEF Init, LeftoverHasState
<1> QED
  BY <1>5, <1>6

(* However an item is moved between the queues of turn states, the mailbox *)
(* and the locals of tasks and calls, it is in one of them, once.          *)
THEOREM PlacesInvariant == Spec => [](Placed /\ LeftoverHasState)
<1>1. Init => Placed /\ LeftoverHasState
  BY InitPlaced
<1>2. Placed /\ LeftoverHasState /\ IInv /\ DataTyped /\ [Next]_vars => (Placed /\ LeftoverHasState)'
  <2> SUFFICES ASSUME Placed, LeftoverHasState, IInv, DataTyped, [Next]_vars
               PROVE  Placed' /\ LeftoverHasState'
    OBVIOUS
  <2>0. QueueTyped /\ RunTyped /\ LocalTyped
    BY DEF DataTyped
  <2>1. CASE Next
    <3>1. Placed'
      BY <2>0, <2>1, TaskKeepsPlaces, CallKeepsPlaces, RequestKeepsPlaces DEF Next
    <3> QED
      BY <2>1, <3>1, LeftoverStep
  <2>2. CASE UNCHANGED vars
    <3>1. UNCHANGED <<run, local, pending, history, mailbox, unsent, taskPc>>
      BY <2>2 DEF vars, queueVars, logVars, taskVars, procVars, envVars
    <3>2. Placed'
      BY <3>1, UnchangedSpares, SparesAll, Dropped
    <3> QED
      BY <3>1, <3>2 DEF LeftoverHasState
  <2> QED
    BY <2>1, <2>2
<1> QED
  BY <1>1, <1>2, DataInvariant, PTL DEF Spec

(* No item is recorded in the history twice: the history is one of the     *)
(* places, and record_pending_input, the loop's steer and the injections   *)
(* take an item out of the place they record it from.                      *)
THEOREM RecordedOnceHolds == Spec => []RecordedOnce
<1>1. Placed => RecordedOnce
  BY Places, QueueAt DEF Placed, Apart, RecordedOnce
<1> QED
  BY <1>1, PlacesInvariant, PTL

(***************************************************************************)
(* When the submission loop is alone in starting and aborting turns: no    *)
(* caller beside it uses try_start_turn_if_idle or abort_turn_if_active.   *)
(***************************************************************************)
LoopAlone == ClientOps \cap {"tryStart", "abortTurn"} = {}

AbortingCalls == {"abort", "aborted", "clear"}
AloneLabels == AbortingCalls \cup StartingCalls
                 \cup {"idle", "abortAll", "maybe", "reserve", "exit", "exited"}

(* The clients are at most about to record an injection; the loop has no   *)
(* active task when it starts one, and no active turn while it aborts one. *)
OneCaller ==
    /\ \A p \in Clients : pc[p] \in {"idle", "recordItems"} /\ local[p].then = "recv"
    /\ pc["loop"] \in AloneLabels
    /\ pc["loop"] \in AbortingCalls => activeState = 0
    /\ pc["loop"] \in StartingCalls => activeTask = 0
    /\ local["loop"].input # <<>> => local["loop"].kind = "regular"

LEMMA OneCallerStep ==
    ASSUME IInv, DataTyped, LoopAlone, OneCaller, Next PROVE OneCaller'
<1>0. /\ pc \in [Procs -> Labels] /\ local \in [Procs -> LocalType]
      /\ "loop" \in Procs /\ Clients \subseteq Procs /\ "loop" \notin Clients
      /\ Procs = Clients \cup {"loop"}
      /\ activeState = 0 => activeTask = 0
      /\ "tryStart" \notin ClientOps /\ "abortTurn" \notin ClientOps
  BY Bounds, SessionAssumption
     DEF IInv, ControlTyped, DataTyped, QueueTyped, LocalTyped, Procs, LoopAlone
<1>1. ASSUME UNCHANGED <<pc, local>>, activeTask' \in {activeTask, 0}, activeState' \in {activeState, 0}
      PROVE  OneCaller'
  BY <1>1 DEF OneCaller
<1>2. ASSUME NEW p \in Clients, pc'[p] \in {"idle", "recordItems"}, local'[p].then = "recv",
             activeTask' = activeTask, activeState' = activeState,
             \A q \in Procs \ {p} : pc'[q] = pc[q] /\ local'[q] = local[q]
      PROVE  OneCaller'
  BY <1>0, <1>2 DEF OneCaller
<1>3. ASSUME pc'["loop"] \in AloneLabels,
             pc'["loop"] \in AbortingCalls => activeState' = 0,
             pc'["loop"] \in StartingCalls => activeTask' = 0,
             local'["loop"].input # <<>> => local'["loop"].kind = "regular",
             \A q \in Procs \ {"loop"} : pc'[q] = pc[q] /\ local'[q] = local[q]
      PROVE  OneCaller'
  BY <1>0, <1>3 DEF OneCaller
<1>4. ASSUME NEW t \in Turns, TaskStep(t) PROVE OneCaller'
  <2>1. /\ UNCHANGED <<pc, local>> /\ activeTask' \in {activeTask, 0}
        /\ activeState' \in {activeState, 0}
    BY <1>4 DEF TaskStep, Begin, RecordInput, DropInput, Drain, RecordPending, OutputMessage,
       OutputToolCall, SamplingEnds, RetryWithoutImages, FollowUp, NoFollowUp, RunTurnAgain,
       RunCompact, TaskFinished, RecordLeftover, EmitTerminal, ClearActive, procVars
  <2> QED
    BY <2>1, <1>1
<1>5. ASSUME NEW p \in Clients, Continue(p) PROVE OneCaller'
  <2>1. RecordItems(p)
    BY <1>5 DEF Continue, StartTake, StartJoin, StartInstall, MaybeStart, ReserveTurn, AbortAll,
       AbortTask, EmitAborted, ClearPending, TryReserve, TryCheck, ClearReservedIdleTurn,
       TryConfirm, TryExtend, OneCaller
  <2>2. /\ UNCHANGED <<activeState, activeTask>>
        /\ \A q \in Procs \ {p} : pc'[q] = pc[q] /\ local'[q] = local[q]
        /\ pc'[p] = "idle" /\ local'[p] = NoLocal
    BY <1>0, <1>5, <2>1 DEF RecordItems, Return, Move, SetLocal, OneCaller
  <2>3. NoLocal.then = "recv"
    BY DEF NoLocal
  <2> QED
    BY <1>2, <2>2, <2>3
<1>6. ASSUME Continue("loop") PROVE OneCaller'
  <2>0. /\ pc["loop"] \in AloneLabels
        /\ local["loop"] \in LocalType
        /\ pc["loop"] \in AbortingCalls => activeState = 0
        /\ pc["loop"] \in StartingCalls => activeTask = 0
        /\ local["loop"].input # <<>> => local["loop"].kind = "regular"
    BY <1>0 DEF OneCaller
  <2>1. \A q \in Procs \ {"loop"} : pc'[q] = pc[q] /\ local'[q] = local[q]
    BY <1>0, <1>6 DEF Continue, StartTake, StartJoin, StartInstall, MaybeStart,
       ReserveTurn, AbortAll, NothingToAbort, TakeForAbort, AbortTask, EmitAborted, ClearPending,
       RecordItems, TryReserve, TryCheck, ClearReservedIdleTurn, TryConfirm, TryExtend, Move,
       Return, SetLocal
  <2>a. ASSUME local' = local \/ SetLocal("loop", NoLocal)
               \/ (\E x : SetLocal("loop", [local["loop"] EXCEPT !.vstate = x]))
               \/ (\E x : SetLocal("loop", [local["loop"] EXCEPT !.items = x]))
        PROVE  local'["loop"].input # <<>> => local'["loop"].kind = "regular"
    <3>1. CASE local' = local
      BY <2>0, <3>1
    <3>2. CASE SetLocal("loop", NoLocal)
      BY <1>0, <3>2, EmptyLocal DEF SetLocal
    <3>3. ASSUME NEW x, SetLocal("loop", [local["loop"] EXCEPT !.vstate = x])
          PROVE  local'["loop"].input # <<>> => local'["loop"].kind = "regular"
      BY <1>0, <2>0, <3>3 DEF SetLocal, LocalType
    <3>4. ASSUME NEW x, SetLocal("loop", [local["loop"] EXCEPT !.items = x])
          PROVE  local'["loop"].input # <<>> => local'["loop"].kind = "regular"
      BY <1>0, <2>0, <3>4 DEF SetLocal, LocalType
    <3> QED
      BY <2>a, <3>1, <3>2, <3>3, <3>4
  <2>2. CASE StartTake("loop") \/ StartJoin("loop")
    <3>1. pc'["loop"] \in Starting /\ activeTask' = 0
      BY <2>2, <2>0, <1>0 DEF StartTake, StartJoin, Move, StartingCalls, Starting
    <3>2. \E x : SetLocal("loop", [local["loop"] EXCEPT !.items = x])
      BY <2>2 DEF StartTake, StartJoin
    <3> QED
      BY <1>3, <2>1, <2>a, <3>1, <3>2 DEF AloneLabels, StartingCalls, Starting, AbortingCalls
  <2>3. CASE StartInstall("loop")
    <3>1. pc'["loop"] \in {"idle", "exit"} /\ SetLocal("loop", NoLocal)
      BY <2>3, <1>0 DEF StartInstall, Return, Move
    <3> QED
      BY <1>3, <2>1, <2>a, <3>1 DEF AloneLabels, StartingCalls, AbortingCalls
  <2>4. CASE AbortAll("loop")
    <3>1. activeTask' = 0 /\ activeState' = 0 /\ pc'["loop"] \in {"start", "idle", "exit", "abort"}
      BY <2>4, <1>0 DEF AbortAll, NothingToAbort, TakeForAbort, Return, Move
    <3>2. \/ local' = local \/ SetLocal("loop", NoLocal)
          \/ \E x : SetLocal("loop", [local["loop"] EXCEPT !.vstate = x])
      BY <2>4 DEF AbortAll, NothingToAbort, TakeForAbort, Return
    <3> QED
      BY <1>3, <2>1, <2>a, <3>1, <3>2 DEF AloneLabels, StartingCalls, AbortingCalls
  <2>5. CASE AbortTask("loop") \/ EmitAborted("loop")
    <3>1. activeState' = 0 /\ pc'["loop"] \in {"aborted", "clear"} /\ local' = local
      BY <2>5, <2>0, <1>0 DEF AbortTask, EmitAborted, Move, AbortingCalls
    <3> QED
      BY <1>3, <2>1, <2>a, <3>1 DEF AloneLabels, StartingCalls, AbortingCalls
  <2>6. CASE ClearPending("loop")
    <3>1. activeTask' = 0 /\ pc'["loop"] \in {"start", "maybe"}
      BY <2>6, <2>0, <1>0 DEF ClearPending, Move, AbortingCalls
    <3>2. \E x : SetLocal("loop", [local["loop"] EXCEPT !.vstate = x])
      BY <2>6 DEF ClearPending
    <3> QED
      BY <1>3, <2>1, <2>a, <3>1, <3>2 DEF AloneLabels, StartingCalls, AbortingCalls
  <2>7. CASE MaybeStart("loop")
    <3>1. pc'["loop"] \in {"idle", "exit", "reserve"} /\ (local' = local \/ SetLocal("loop", NoLocal))
      BY <2>7, <1>0 DEF MaybeStart, Return, Move
    <3> QED
      BY <1>3, <2>1, <2>a, <3>1 DEF AloneLabels, StartingCalls, AbortingCalls
  <2>8. CASE ReserveTurn("loop")
    <3>1. /\ pc'["loop"] \in {"idle", "exit", "start"} /\ (local' = local \/ SetLocal("loop", NoLocal))
          /\ pc'["loop"] = "start" => activeTask' = 0
      BY <2>8, <1>0 DEF ReserveTurn, Return, Move, NoActiveTurn
    <3> QED
      BY <1>3, <2>1, <2>a, <3>1 DEF AloneLabels, StartingCalls, AbortingCalls
  <2> QED
    BY <1>6, <2>0, <2>2, <2>3, <2>4, <2>5, <2>6, <2>7, <2>8 DEF Continue, RecordItems,
       TryReserve, TryCheck, ClearReservedIdleTurn, TryConfirm, TryExtend, AloneLabels,
       StartingCalls, AbortingCalls
<1>7. ASSUME Submission \/ ShutdownComplete PROVE OneCaller'
  <2>1. \A q \in Procs \ {"loop"} : pc'[q] = pc[q] /\ local'[q] = local[q]
    BY <1>0, <1>7 DEF Submission, UserInput, InterAgentCommunication, Interrupt, Compact,
       Shutdown, ShutdownComplete, Spawn, Move, SetLocal
  <2>2. pc'["loop"] \in {"idle", "abortAll", "maybe", "exited"}
    BY <1>0, <1>7 DEF Submission, UserInput, InterAgentCommunication, Interrupt, Compact,
       Shutdown, ShutdownComplete, Spawn, Move
  <2>3. \/ local' = local
        \/ \E k, i, x : (i = <<>> \/ k = "regular") /\ local' =
              [local EXCEPT !["loop"] = [NoLocal EXCEPT !.kind = k, !.input = i, !.then = x]]
    BY <1>7 DEF Submission, UserInput, InterAgentCommunication, Interrupt, Compact,
       Shutdown, ShutdownComplete, Spawn, SetLocal
  <2>4. local'["loop"].input # <<>> => local'["loop"].kind = "regular"
    <3>1. CASE local' = local
      BY <3>1 DEF OneCaller
    <3>2. ASSUME NEW k, NEW i, NEW x, i = <<>> \/ k = "regular",
                 local' = [local EXCEPT !["loop"] = [NoLocal EXCEPT !.kind = k, !.input = i, !.then = x]]
          PROVE  local'["loop"].input # <<>> => local'["loop"].kind = "regular"
      <4> DEFINE l == [NoLocal EXCEPT !.kind = k, !.input = i, !.then = x]
      <4>1. l.input = i /\ l.kind = k
        BY DEF NoLocal
      <4>2. local'["loop"] = l
        BY <1>0, <3>2
      <4> HIDE DEF l
      <4> QED
        BY <3>2, <4>1, <4>2
    <3> QED
      BY <2>3, <3>1, <3>2
  <2> QED
    BY <1>3, <2>1, <2>2, <2>4 DEF AloneLabels, StartingCalls, AbortingCalls
<1>8. ASSUME NEW p \in Clients, Call(p) PROVE OneCaller'
  <2>1. SteerInput(p) \/ InjectNoNewTurn(p)
    BY <1>0, <1>8 DEF Call, TryStartTurnIfIdle, AbortTurnIfActive
  <2>2. UNCHANGED <<activeState, activeTask>>
    BY <2>1 DEF SteerInput, InjectNoNewTurn
  <2>3. \A q \in Procs \ {p} : pc'[q] = pc[q] /\ local'[q] = local[q]
    BY <2>1, <1>0, <1>8 DEF SteerInput, InjectNoNewTurn, Move, SetLocal, procVars
  <2>4. pc'[p] \in {"idle", "recordItems"}
    BY <2>1, <1>0, <1>8 DEF SteerInput, InjectNoNewTurn, Move, procVars, OneCaller
  <2>5. local'[p].then = "recv"
    <3>1. CASE local' = local
      BY <1>8, <3>1 DEF OneCaller
    <3>2. ASSUME NEW x, local' = [local EXCEPT ![p] = [NoLocal EXCEPT !.items = <<x>>]]
          PROVE  local'[p].then = "recv"
      BY <1>0, <1>8, <3>2 DEF NoLocal
    <3> QED
      BY <2>1, <3>1, <3>2 DEF SteerInput, InjectNoNewTurn, SetLocal, procVars
  <2> QED
    BY <1>2, <1>8, <2>2, <2>3, <2>4, <2>5
<1> QED
  BY <1>0, <1>4, <1>5, <1>6, <1>7, <1>8 DEF Next

(* The turn state of a task that is finishing is its own: not that of a    *)
(* task at work, of a task being started or aborted, or of another one     *)
(* that is finishing.                                                      *)
OwnState ==
    /\ activeState <= states
    /\ \A t \in Turns :
         taskPc[t] \in Finishing =>
            /\ run[t].state \in 1 .. states
            /\ activeTask # 0 \/ pc["loop"] \in StartingCalls => run[t].state # activeState
            /\ pc["loop"] \in AbortingCalls => run[t].state # local["loop"].vstate
    /\ \A t, u \in Turns :
         taskPc[t] \in Finishing /\ taskPc[u] \in Finishing /\ run[t].state = run[u].state => t = u

LEMMA OwnStateStep ==
    ASSUME IInv, DataTyped, LoopAlone, OneCaller, OwnState, Next PROVE OwnState'
<1>0. /\ pc \in [Procs -> Labels] /\ local \in [Procs -> LocalType]
      /\ taskPc \in [Turns -> Working \cup Finishing \cup {"none", "dead"}]
      /\ run \in [Turns -> RunType]
      /\ "loop" \in Procs /\ Clients \subseteq Procs /\ "loop" \notin Clients
      /\ Procs = Clients \cup {"loop"} /\ 0 \notin Turns
      /\ activeState = 0 => activeTask = 0
      /\ states \in Nat /\ activeState \in Nat
      /\ "tryStart" \notin ClientOps /\ "abortTurn" \notin ClientOps
  BY Bounds, SessionAssumption
     DEF IInv, ControlTyped, DataTyped, QueueTyped, RunTyped, LocalTyped, Procs, LoopAlone
<1>a. Working \cap Finishing = {} /\ "none" \notin Finishing /\ "dead" \notin Finishing
  BY DEF Working, Finishing
<1>b. ASSUME NEW t \in Turns, taskPc[t] \in Finishing
      PROVE  run[t].state \in 1 .. states /\ run[t].state # 0 /\ run[t].state # states + 1
  BY <1>0, <1>b DEF OwnState
<1>1. ASSUME \A t \in Turns : taskPc'[t] \in Finishing => /\ taskPc[t] \in Finishing
                                                          /\ run'[t].state = run[t].state,
             states' = states \/ states' = states + 1,
             activeState' <= states',
             \A t \in Turns : /\ taskPc[t] \in Finishing
                              /\ activeTask' # 0 \/ pc'["loop"] \in StartingCalls
                              => run[t].state # activeState',
             \A t \in Turns : taskPc[t] \in Finishing /\ pc'["loop"] \in AbortingCalls
                              => run[t].state # local'["loop"].vstate
      PROVE  OwnState'
  <2>1. \A n \in 1 .. states : n \in 1 .. states'
    BY <1>0, <1>1
  <2> QED
    BY <1>1, <2>1 DEF OwnState
<1>2. ASSUME \A t \in Turns : taskPc'[t] \in Finishing => /\ taskPc[t] \in Finishing
                                                          /\ run'[t].state = run[t].state,
             UNCHANGED <<activeTask, states>>,
             activeState' = activeState \/ activeState' = 0,
             pc'["loop"] \in StartingCalls => pc["loop"] \in StartingCalls,
             pc'["loop"] \in AbortingCalls =>
                pc["loop"] \in AbortingCalls /\ local'["loop"].vstate = local["loop"].vstate
      PROVE  OwnState'
  <2>1. activeState' <= states'
    BY <1>0, <1>2 DEF OwnState
  <2>2. \A t \in Turns : /\ taskPc[t] \in Finishing
                         /\ activeTask' # 0 \/ pc'["loop"] \in StartingCalls
                         => run[t].state # activeState'
    BY <1>b, <1>2 DEF OwnState
  <2>3. \A t \in Turns : taskPc[t] \in Finishing /\ pc'["loop"] \in AbortingCalls
                         => run[t].state # local'["loop"].vstate
    BY <1>2 DEF OwnState
  <2> QED
    BY <1>1, <1>2, <2>1, <2>2, <2>3
<1>3. ASSUME NEW t \in Turns, TaskStep(t) PROVE OwnState'
  <2>1. UNCHANGED <<pc, local, states>>
    BY <1>3 DEF TaskStep, Begin, RecordInput, DropInput, Drain, RecordPending, OutputMessage,
       OutputToolCall, SamplingEnds, RetryWithoutImages, FollowUp, NoFollowUp, RunTurnAgain,
       RunCompact, TaskFinished, RecordLeftover, EmitTerminal, ClearActive, procVars, idVars
  <2>2. CASE TaskFinished(t) /\ ~LeavesQuietly(t)
    <3>1. /\ run' = [run EXCEPT ![t].state = activeState] /\ activeTask # 0 /\ activeTask' = 0
          /\ taskPc' = [taskPc EXCEPT ![t] = "leftover"] /\ activeState' = activeState
      BY <2>2 DEF TaskFinished, LeavesQuietly, Goto
    <3>2. pc["loop"] \notin StartingCalls /\ pc["loop"] \notin AbortingCalls
      BY <1>0, <3>1 DEF OneCaller
    <3>3. activeState \in 1 .. states
      BY <1>0, <3>1 DEF OwnState
    <3>4. run'[t].state = activeState /\ \A u \in Turns \ {t} : run'[u] = run[u] /\ taskPc'[u] = taskPc[u]
      BY <1>0, <3>1 DEF RunType
    <3>5. \A u \in Turns \ {t} : taskPc'[u] \in Finishing => run'[u].state # activeState
      BY <3>1, <3>4 DEF OwnState
    <3>6. \A u \in Turns : taskPc'[u] \in Finishing => run'[u].state \in 1 .. states
      BY <3>3, <3>4 DEF OwnState
    <3>7. \A u, v \in Turns : taskPc'[u] \in Finishing /\ taskPc'[v] \in Finishing
                              /\ run'[u].state = run'[v].state => u = v
      <4> SUFFICES ASSUME NEW u \in Turns, NEW v \in Turns, taskPc'[u] \in Finishing,
                          taskPc'[v] \in Finishing, run'[u].state = run'[v].state
                   PROVE  u = v
        OBVIOUS
      <4>1. CASE u = t \/ v = t
        BY <3>4, <3>5, <4>1
      <4>2. CASE u # t /\ v # t
        BY <3>4, <4>2 DEF OwnState
      <4> QED
        BY <4>1, <4>2
    <3> QED
      BY <2>1, <3>1, <3>2, <3>3, <3>6, <3>7 DEF OwnState
  <2>3. CASE ~(TaskFinished(t) /\ ~LeavesQuietly(t))
    <3>1. UNCHANGED activeTask /\ (activeState' = activeState \/ activeState' = 0)
      BY <1>3, <2>3 DEF TaskStep, Begin, RecordInput, DropInput, Drain, RecordPending,
         OutputMessage, OutputToolCall, SamplingEnds, RetryWithoutImages, FollowUp, NoFollowUp,
         RunTurnAgain, RunCompact, TaskFinished, RecordLeftover, EmitTerminal, ClearActive
    <3>2. \A u \in Turns \ {t} : run'[u] = run[u] /\ taskPc'[u] = taskPc[u]
      BY <1>0, <1>3, <2>3 DEF TaskStep, Begin, RecordInput, DropInput, Drain, RecordPending,
         OutputMessage, OutputToolCall, SamplingEnds, RetryWithoutImages, FollowUp, NoFollowUp,
         RunTurnAgain, RunCompact, TaskFinished, RecordLeftover, EmitTerminal, ClearActive, Goto,
         Ends, taskVars
    <3>3. taskPc'[t] \in Finishing => taskPc[t] \in Finishing /\ run' = run
      <4>1. CASE RecordLeftover(t) \/ EmitTerminal(t)
        BY <4>1 DEF RecordLeftover, EmitTerminal, Finishing
      <4>2. CASE ClearActive(t) \/ TaskFinished(t)
        BY <1>0, <1>a, <2>3, <4>2 DEF ClearActive, TaskFinished, Ends, Goto
      <4>3. CASE ~(RecordLeftover(t) \/ EmitTerminal(t) \/ ClearActive(t) \/ TaskFinished(t))
        BY <1>0, <1>3, <4>3 DEF TaskStep, Begin, RecordInput, DropInput, Drain, RecordPending,
           OutputMessage, OutputToolCall, SamplingEnds, RetryWithoutImages, FollowUp, NoFollowUp,
           RunTurnAgain, RunCompact, Goto, Finishing, taskVars
      <4> QED
        BY <4>1, <4>2, <4>3
    <3> QED
      BY <1>2, <2>1, <3>1, <3>2, <3>3
  <2> QED
    BY <2>2, <2>3
<1>c. ASSUME UNCHANGED <<taskPc, run>>
      PROVE  \A t \in Turns : taskPc'[t] \in Finishing => /\ taskPc[t] \in Finishing
                                                          /\ run'[t].state = run[t].state
  BY <1>c
<1>4. ASSUME NEW p \in Clients, Continue(p) PROVE OwnState'
  <2>1. RecordItems(p)
    BY <1>4 DEF Continue, StartTake, StartJoin, StartInstall, MaybeStart, ReserveTurn, AbortAll,
       AbortTask, EmitAborted, ClearPending, TryReserve, TryCheck, ClearReservedIdleTurn,
       TryConfirm, TryExtend, OneCaller
  <2>2. /\ UNCHANGED <<activeState, activeTask, states, taskPc, run>>
        /\ pc'["loop"] = pc["loop"] /\ local'["loop"] = local["loop"]
    BY <1>0, <1>4, <2>1 DEF RecordItems, Return, Move, SetLocal, taskVars, idVars
  <2> QED
    BY <1>2, <1>c, <2>2
<1>5. ASSUME Submission \/ ShutdownComplete PROVE OwnState'
  <2>1. /\ UNCHANGED <<activeState, activeTask, states, taskPc, run>>
        /\ pc'["loop"] \in {"idle", "abortAll", "maybe", "exited"}
    BY <1>0, <1>5 DEF Submission, UserInput, InterAgentCommunication, Interrupt, Compact,
       Shutdown, ShutdownComplete, Spawn, Move, taskVars, idVars
  <2> QED
    BY <1>2, <1>c, <2>1 DEF StartingCalls, AbortingCalls
<1>6. ASSUME NEW p \in Clients, Call(p) PROVE OwnState'
  <2>1. SteerInput(p) \/ InjectNoNewTurn(p)
    BY <1>0, <1>6 DEF Call, TryStartTurnIfIdle, AbortTurnIfActive
  <2>2. /\ UNCHANGED <<activeState, activeTask, states, taskPc, run>>
        /\ pc'["loop"] = pc["loop"] /\ local'["loop"] = local["loop"]
    BY <1>0, <1>6, <2>1 DEF SteerInput, InjectNoNewTurn, Move, SetLocal, procVars, taskVars, idVars
  <2> QED
    BY <1>2, <1>c, <2>2
<1>7. ASSUME Continue("loop") PROVE OwnState'
  <2>0. /\ pc["loop"] \in AloneLabels /\ local["loop"] \in LocalType
        /\ pc["loop"] \in AbortingCalls => activeState = 0
        /\ pc["loop"] \in StartingCalls => activeTask = 0
    BY <1>0 DEF OneCaller
  <2>a. "start" \in StartingCalls /\ "join" \in StartingCalls /\ "install" \in StartingCalls
    BY DEF StartingCalls
  <2>1. CASE StartTake("loop")
    <3>1. /\ UNCHANGED <<activeState, activeTask, states, taskPc, run>>
          /\ pc["loop"] \in StartingCalls /\ pc'["loop"] = "join"
      BY <1>0, <2>1 DEF StartTake, Move, taskVars, StartingCalls
    <3> QED
      BY <1>2, <1>c, <3>1 DEF AbortingCalls
  <2>b. ASSUME UNCHANGED <<taskPc, run, activeTask>>, pc'["loop"] \notin AbortingCalls,
               \/ states' = states + 1 /\ activeState' = states + 1
               \/ UNCHANGED <<activeState, states>> /\ pc["loop"] \in StartingCalls
        PROVE  OwnState'
    <3>1. activeState' <= states'
      BY <1>0, <2>b DEF OwnState
    <3>2. \A t \in Turns : taskPc[t] \in Finishing => run[t].state # activeState'
      BY <1>b, <2>b DEF OwnState
    <3> QED
      BY <1>1, <1>c, <2>b, <3>1, <3>2
  <2>2. CASE StartJoin("loop")
    BY <1>0, <2>2, <2>b DEF StartJoin, NewActiveTurn, Move, taskVars, AbortingCalls, StartingCalls
  <2>3. CASE StartInstall("loop")
    <3>1. /\ activeTask = 0 /\ pc["loop"] \in StartingCalls
          /\ pc'["loop"] \in {"idle", "exit"}
          /\ \/ states' = states + 1 /\ activeState' = states + 1
             \/ UNCHANGED <<activeState, states>>
      BY <1>0, <2>0, <2>a, <2>3 DEF StartInstall, NewActiveTurn, Return, Move
    <3>2. \A t \in Turns : taskPc'[t] \in Finishing => taskPc[t] \in Finishing /\ run'[t] = run[t]
      BY <1>0, <2>3, <3>1 DEF StartInstall, Install, Finishing
    <3>3. activeState' <= states'
      BY <1>0, <3>1 DEF OwnState
    <3>4. \A t \in Turns : taskPc[t] \in Finishing => run[t].state # activeState'
      BY <1>b, <3>1 DEF OwnState
    <3> QED
      BY <1>1, <3>1, <3>2, <3>3, <3>4 DEF AbortingCalls
  <2>4. CASE MaybeStart("loop")
    <3>1. /\ UNCHANGED <<activeState, activeTask, states, taskPc, run>>
          /\ pc'["loop"] \in {"idle", "exit", "reserve"}
      BY <1>0, <2>4 DEF MaybeStart, Return, Move, taskVars, idVars
    <3> QED
      BY <1>2, <1>c, <3>1 DEF AbortingCalls, StartingCalls
  <2>5. CASE ReserveTurn("loop")
    <3>1. CASE NoActiveTurn
      BY <1>0, <2>5, <2>b, <3>1 DEF ReserveTurn, NewActiveTurn, Move, taskVars, AbortingCalls
    <3>2. CASE ~NoActiveTurn
      <4>1. /\ UNCHANGED <<activeState, activeTask, states, taskPc, run>>
            /\ pc'["loop"] \in {"idle", "exit"}
        BY <1>0, <2>5, <3>2 DEF ReserveTurn, Return, Move, taskVars
      <4> QED
        BY <1>2, <1>c, <4>1 DEF AbortingCalls, StartingCalls
    <3> QED
      BY <3>1, <3>2
  <2>6. CASE AbortAll("loop")
    <3>1. /\ activeState' = 0 /\ activeTask' = 0 /\ UNCHANGED <<states, taskPc, run>>
          /\ pc'["loop"] = "abort" => activeTask # 0 /\ local'["loop"].vstate = activeState
          /\ pc'["loop"] \in {"start", "idle", "exit", "abort"}
      BY <1>0, <2>0, <2>6 DEF AbortAll, NothingToAbort, TakeForAbort, Return, Move, SetLocal,
         LocalType, idVars
    <3>2. \A t \in Turns : taskPc[t] \in Finishing => run[t].state # activeState'
      BY <1>b, <3>1
    <3>3. \A t \in Turns : taskPc[t] \in Finishing /\ pc'["loop"] \in AbortingCalls
                           => run[t].state # local'["loop"].vstate
      BY <3>1 DEF OwnState, AbortingCalls
    <3>4. activeState' <= states'
      BY <1>0, <3>1
    <3> QED
      BY <1>1, <1>c, <3>1, <3>2, <3>3, <3>4
  <2>7. CASE AbortTask("loop")
    <3>1. /\ UNCHANGED <<activeState, activeTask, states, local>> /\ Ends(victim["loop"])
          /\ pc["loop"] \in AbortingCalls /\ pc'["loop"] = "aborted"
      BY <1>0, <2>7 DEF AbortTask, Killed, Move, idVars, AbortingCalls
    <3>2. \A t \in Turns : taskPc'[t] \in Finishing => taskPc[t] \in Finishing /\ run'[t] = run[t]
      BY <1>0, <1>a, <3>1 DEF Ends, Goto
    <3> QED
      BY <1>2, <3>1, <3>2 DEF StartingCalls
  <2>8. CASE EmitAborted("loop")
    <3>1. /\ UNCHANGED <<activeState, activeTask, states, local, taskPc, run>>
          /\ pc["loop"] \in AbortingCalls /\ pc'["loop"] = "clear"
      BY <1>0, <2>8 DEF EmitAborted, Move, idVars, taskVars, AbortingCalls
    <3> QED
      BY <1>2, <1>c, <3>1 DEF StartingCalls
  <2>9. CASE ClearPending("loop")
    <3>1. /\ UNCHANGED <<activeTask, states, taskPc, run>> /\ activeState' = 0
          /\ pc'["loop"] \in {"start", "maybe"}
      BY <1>0, <2>0, <2>9 DEF ClearPending, Move, idVars, taskVars, AbortingCalls
    <3>2. \A t \in Turns : taskPc[t] \in Finishing => run[t].state # activeState'
      BY <1>b, <3>1
    <3>3. activeState' <= states'
      BY <1>0, <3>1
    <3> QED
      BY <1>1, <1>c, <3>1, <3>2, <3>3 DEF AbortingCalls
  <2> QED
    BY <1>7, <2>0, <2>1, <2>2, <2>3, <2>4, <2>5, <2>6, <2>7, <2>8, <2>9 DEF Continue, RecordItems,
       TryReserve, TryCheck, ClearReservedIdleTurn, TryConfirm, TryExtend, AloneLabels,
       StartingCalls, AbortingCalls
<1> QED
  BY <1>0, <1>3, <1>4, <1>5, <1>6, <1>7 DEF Next

Completed == {<<"complete">>, <<"started", "complete">>}
Settled(i) == i \in ToSet(history) \/ i \in rejected

(* The turn t that accepted the input i still has it, or will not complete. *)
Has(t, i) ==
    \/ i \in ToSet(run[t].input) /\ taskPc[t] \in {"begin", "input"} /\ run[t].kind = "regular"
    \/ i \in ToSet(run[t].batch) /\ taskPc[t] = "record"
    \/ activeTask = t /\ i \in ToSet(pending[activeState])
    \/ taskPc[t] = "leftover" /\ i \in ToSet(pending[run[t].state])
    \/ cancelled[t]
    \/ taskPc[t] = "dead" /\ events[t] \notin Completed

InputIsKept == \A i \in Inputs : owner[i] # 0 => Settled(i) \/ Has(owner[i], i)

(* What the input of turn states loses in a step was not for turn t to record. *)
KeptFor(t) ==
    /\ activeTask = t => ToSet(pending[activeState]) \subseteq ToSet(pending'[activeState])
    /\ taskPc[t] = "leftover" =>
          ToSet(pending[run[t].state]) \subseteq ToSet(pending'[run[t].state])

PendingGrows == \A s \in States : ToSet(pending[s]) \subseteq ToSet(pending'[s])
HistoryGrows == ToSet(history) \subseteq ToSet(history') /\ rejected \subseteq rejected'

LEMMA ConcatGrows ==
    ASSUME Placed
    PROVE  \A x \in Seq(Items) : ToSet(history) \subseteq ToSet(history \o x)
<1>1. history \in Seq(Items)
  BY Places, QueueAt DEF Placed, Apart
<1> QED
  BY <1>1, ToSetConcat

(* Extending the input of a turn state takes nothing from any of them. *)
LEMMA ExtendGrows ==
    ASSUME QueueTyped, NEW s, NEW items \in Seq(Items), pending' = ExtendPending(s, items)
    PROVE  PendingGrows
<1> SUFFICES ASSUME NEW x \in States PROVE ToSet(pending[x]) \subseteq ToSet(pending'[x])
  BY DEF PendingGrows
<1>1. pending[x] \in Seq(Items) /\ pending'[x] = IF x = s THEN pending[x] \o items ELSE pending[x]
  BY DEF QueueTyped, ExtendPending
<1> QED
  BY <1>1, ToSetConcat

LEMMA GrowsKeeps ==
    ASSUME QueueTyped, OwnState, NEW t \in Turns, PendingGrows PROVE KeptFor(t)
<1>1. activeTask = t => activeState \in States
  BY Bounds, StateBounds DEF QueueTyped
<1>2. taskPc[t] = "leftover" => run[t].state \in States
  <2>1. taskPc[t] = "leftover" => run[t].state \in 1 .. states
    BY DEF OwnState, Finishing
  <2> QED
    BY <2>1, StateBounds DEF QueueTyped
<1> QED
  BY <1>1, <1>2 DEF KeptFor, PendingGrows

(* A turn whose task and locals a step leaves alone keeps what it has. *)
LEMMA OtherKeeps ==
    ASSUME NEW t \in Turns, NEW i, KeptFor(t),
           run'[t] = run[t], taskPc'[t] = taskPc[t], events'[t] = events[t],
           cancelled'[t] = cancelled[t],
           activeTask = t => activeTask' = t /\ activeState' = activeState,
           Has(t, i)
    PROVE  Has(t, i)'
<1>1. CASE activeTask = t /\ i \in ToSet(pending[activeState])
  BY <1>1 DEF Has, KeptFor
<1>2. CASE taskPc[t] = "leftover" /\ i \in ToSet(pending[run[t].state])
  BY <1>2 DEF Has, KeptFor
<1>3. CASE /\ ~(activeTask = t /\ i \in ToSet(pending[activeState]))
           /\ ~(taskPc[t] = "leftover" /\ i \in ToSet(pending[run[t].state]))
  BY <1>3 DEF Has
<1> QED
  BY <1>1, <1>2, <1>3

(* A step that changes no owner keeps the inputs if every turn keeps what it has. *)
LEMMA AllKeep ==
    ASSUME InputIsKept, LogTyped, owner' = owner, HistoryGrows,
           \A t \in Turns, i \in Inputs : Has(t, i) => Has(t, i)' \/ Settled(i)'
    PROVE  InputIsKept'
<1>1. \A i \in Inputs : owner[i] # 0 => owner[i] \in Turns
  BY Bounds DEF LogTyped
<1>2. \A i \in Inputs : Settled(i) => Settled(i)'
  BY DEF Settled, HistoryGrows
<1> QED
  BY <1>1, <1>2 DEF InputIsKept

(* What is recorded from a queue is settled. *)
LEMMA RecordSettles ==
    ASSUME Placed, NEW b \in Place, NEW blocked, Record(Queues[b], blocked)
    PROVE  /\ HistoryGrows
           /\ \A x \in ToSet(Queues[b]) : Settled(x)'
<1> DEFINE items == Queues[b]
           acc == Accepted(items, blocked)
<1>1. items \in Seq(Items) /\ IsInjective(items)
  BY DEF Placed, Apart
<1>2. acc \in Seq(Items) /\ ToSet(acc) = ToSet(items) \ blocked
  BY <1>1, AcceptedIs
<1>3. history \in Seq(Items)
  BY Places, QueueAt DEF Placed, Apart
<1>4. history' = history \o acc /\ rejected' = rejected \cup blocked
  BY DEF Record
<1> HIDE DEF items, acc
<1>5. ToSet(history') = ToSet(history) \cup ToSet(acc)
  BY <1>2, <1>3, <1>4, ToSetConcat
<1>6. HistoryGrows
  BY <1>4, <1>5 DEF HistoryGrows
<1>7. \A x \in ToSet(items) : x \in ToSet(history') \/ x \in rejected'
  BY <1>2, <1>4, <1>5
<1> QED
  BY <1>6, <1>7 DEF Settled, items

(* A turn without a terminal event is not completed by an abort. *)
LEMMA OpenedIsOpen ==
    \A e \in Opened : e \notin Completed /\ Append(e, "aborted") \notin Completed
<1>1. /\ Len(<<>>) = 0 /\ Len(<<"started">>) = 1 /\ Len(<<"complete">>) = 1 /\ Len(<<"aborted">>) = 1
      /\ Len(<<"started", "complete">>) = 2 /\ Len(<<"started", "aborted">>) = 2
  OBVIOUS
<1>2. /\ <<"started">>[1] = "started" /\ <<"complete">>[1] = "complete" /\ <<"aborted">>[1] = "aborted"
      /\ <<"started", "complete">>[2] = "complete" /\ <<"started", "aborted">>[2] = "aborted"
  OBVIOUS
<1>3. <<>> \notin Completed /\ <<"started">> \notin Completed
  BY <1>1, <1>2 DEF Completed
<1>4. <<"aborted">> \notin Completed /\ <<"started", "aborted">> \notin Completed
  BY <1>1, <1>2 DEF Completed
<1> QED
  BY <1>3, <1>4, Events DEF Opened

LEMMA TaskKeepsInputs ==
    ASSUME IInv, DataTyped, CancelledHasVictim, OneCaller, OwnState, Placed, InputIsKept,
           NEW u \in Turns, TaskStep(u)
    PROVE  InputIsKept'
<1>0. /\ QueueTyped /\ LogTyped /\ states \in 0 .. MaxTurns
      /\ run \in [Turns -> RunType] /\ cancelled \in [Turns -> BOOLEAN]
      /\ taskPc \in [Turns -> Working \cup Finishing \cup {"none", "dead"}]
      /\ DOMAIN events = Turns /\ 0 \notin Turns
      /\ activeTask # 0 => activeState \in States /\ taskPc[activeTask] \in Working
      /\ cancelled[u] => taskPc[u] \in Working
      /\ taskPc[u] \in Working /\ ~cancelled[u] => activeTask = u
  BY Bounds, StateBounds
     DEF IInv, ControlTyped, DataTyped, QueueTyped, RunTyped, ActiveTaskIsLive, CancelledIsLive,
         RunningTaskIsActive, Live
<1>1. owner' = owner
  BY DEF TaskStep, Begin, RecordInput, DropInput, Drain, RecordPending, OutputMessage,
       OutputToolCall, SamplingEnds, RetryWithoutImages, FollowUp, NoFollowUp, RunTurnAgain,
       RunCompact, TaskFinished, RecordLeftover, EmitTerminal, ClearActive, logVars
<1>2. \A t \in Turns \ {u} : /\ run'[t] = run[t] /\ taskPc'[t] = taskPc[t]
                             /\ events'[t] = events[t] /\ cancelled'[t] = cancelled[t]
  BY <1>0 DEF TaskStep, Begin, RecordInput, DropInput, Drain, RecordPending, OutputMessage,
       OutputToolCall, SamplingEnds, RetryWithoutImages, FollowUp, NoFollowUp, RunTurnAgain,
       RunCompact, TaskFinished, RecordLeftover, EmitTerminal, ClearActive, logVars, taskVars,
       Goto, Emit, Ends
<1>3. \A t \in Turns \ {u} : activeTask = t => activeTask' = t /\ activeState' = activeState
  <2>1. CASE ClearActive(u)
    BY <1>0, <2>1 DEF ClearActive, StillMine
  <2>2. CASE TaskFinished(u)
    BY <1>0, <2>2 DEF TaskFinished, LeavesQuietly, Working
  <2>3. CASE ~(ClearActive(u) \/ TaskFinished(u))
    BY <2>3 DEF TaskStep, Begin, RecordInput, DropInput, Drain, RecordPending, OutputMessage,
       OutputToolCall, SamplingEnds, RetryWithoutImages, FollowUp, NoFollowUp, RunTurnAgain,
       RunCompact, RecordLeftover, EmitTerminal
  <2> QED
    BY <2>1, <2>2, <2>3
<1>4. ASSUME NEW t \in Turns \ {u}, NEW i \in Inputs, KeptFor(t), Has(t, i) PROVE Has(t, i)'
  BY <1>2, <1>3, <1>4, OtherKeeps
<1>5. ASSUME HistoryGrows, \A t \in Turns \ {u} : KeptFor(t),
             \A i \in Inputs : Has(u, i) => Has(u, i)' \/ Settled(i)'
      PROVE  InputIsKept'
  <2>1. \A t \in Turns, i \in Inputs : Has(t, i) => Has(t, i)' \/ Settled(i)'
    BY <1>4, <1>5
  <2> QED
    BY <1>0, <1>1, <1>5, <2>1, AllKeep
<1>6. UNCHANGED pending => \A t \in Turns : KeptFor(t)
  BY DEF KeptFor
<1>7. UNCHANGED <<history, rejected>> => HistoryGrows
  BY DEF HistoryGrows
<1>8. CASE Begin(u)
  <2>1. /\ UNCHANGED <<pending, history, rejected, run, cancelled, activeTask, activeState>>
        /\ taskPc[u] = "begin"
        /\ run[u].kind = "regular" => taskPc'[u] = "input"
    BY <1>0, <1>8 DEF Begin, Goto, queueVars
  <2>2. \A i \in Inputs : Has(u, i) => Has(u, i)'
    BY <2>1 DEF Has
  <2> QED
    BY <1>5, <1>6, <1>7, <2>1, <2>2
<1>9. CASE \/ OutputMessage(u) \/ OutputToolCall(u) \/ SamplingEnds(u) \/ RetryWithoutImages(u)
           \/ FollowUp(u) \/ NoFollowUp(u) \/ RunTurnAgain(u) \/ RunCompact(u)
           \/ (Drain(u) /\ ~run[u].drain)
  <2>1. /\ UNCHANGED <<pending, history, rejected, cancelled, activeTask, activeState>>
        /\ taskPc[u] \notin {"begin", "input", "record", "leftover", "dead"}
    BY <1>9 DEF OutputMessage, OutputToolCall, SamplingEnds, RetryWithoutImages, FollowUp,
       NoFollowUp, RunTurnAgain, RunCompact, Drain, queueVars, logVars, taskVars
  <2>2. \A i \in Inputs : Has(u, i) => Has(u, i)'
    BY <2>1 DEF Has
  <2> QED
    BY <1>5, <1>6, <1>7, <2>1, <2>2
<1>10. CASE RecordInput(u)
  <2> DEFINE b == <<"input", u>>
  <2>1. PICK blocked : Record(run[u].input, blocked)
    BY <1>10 DEF RecordInput
  <2>2. b \in Place /\ Queues[b] = run[u].input
    BY Places, QueueAt
  <2>3. HistoryGrows /\ \A x \in ToSet(run[u].input) : Settled(x)'
    BY <2>1, <2>2, RecordSettles
  <2>4. /\ UNCHANGED <<pending, cancelled, activeTask, activeState>> /\ taskPc[u] = "input"
    BY <1>10 DEF RecordInput, queueVars
  <2>5. \A i \in Inputs : Has(u, i) => Has(u, i)' \/ Settled(i)'
    BY <2>3, <2>4 DEF Has
  <2> QED
    BY <1>5, <1>6, <2>3, <2>4, <2>5
<1>11. CASE DropInput(u)
  <2>1. /\ UNCHANGED <<pending, cancelled, activeTask, activeState, history>> /\ taskPc[u] = "input"
        /\ rejected' = rejected \cup UserInputsOf(run[u].input)
    BY <1>11 DEF DropInput, queueVars
  <2>2. \A i \in Inputs : i \in ToSet(run[u].input) => i \in rejected'
    BY <2>1 DEF UserInputsOf, Contains, ToSet
  <2>3. HistoryGrows
    BY <2>1 DEF HistoryGrows
  <2>4. \A i \in Inputs : Has(u, i) => Has(u, i)' \/ Settled(i)'
    BY <2>1, <2>2 DEF Has, Settled
  <2> QED
    BY <1>5, <1>6, <2>1, <2>3, <2>4
<1>12. CASE RecordPending(u)
  <2> DEFINE b == <<"batch", u>>
  <2>1. PICK blocked : Record(run[u].batch, blocked)
    BY <1>12 DEF RecordPending
  <2>2. b \in Place /\ Queues[b] = run[u].batch
    BY Places, QueueAt
  <2>3. HistoryGrows /\ \A x \in ToSet(run[u].batch) : Settled(x)'
    BY <2>1, <2>2, RecordSettles
  <2>4. /\ UNCHANGED <<pending, cancelled, activeTask, activeState>> /\ taskPc[u] = "record"
    BY <1>12 DEF RecordPending, queueVars
  <2>5. \A i \in Inputs : Has(u, i) => Has(u, i)' \/ Settled(i)'
    BY <2>3, <2>4 DEF Has
  <2> QED
    BY <1>5, <1>6, <2>3, <2>4, <2>5
<1>13. CASE Drain(u) /\ run[u].drain
  <2>1. /\ taskPc[u] = "drain" /\ taskPc' = [taskPc EXCEPT ![u] = "record"]
        /\ run' = [run EXCEPT ![u].batch = GetPendingInput] /\ pending' = TakenPending
        /\ UNCHANGED <<history, rejected, cancelled>>
    BY <1>13 DEF Drain, Goto, DrainPending, logVars
  <2>2. taskPc'[u] = "record" /\ run'[u].batch = GetPendingInput
    BY <1>0, <2>1 DEF RunType
  <2>3. CASE cancelled[u]
    <3>1. activeState = 0
      <4>1. PICK p \in Procs : pc[p] = "abort" /\ victim[p] = u
        BY <2>3 DEF CancelledHasVictim
      <4> QED
        BY <4>1 DEF OneCaller, Procs, AbortingCalls
    <3>2. pending' = pending
      BY <2>1, <3>1 DEF TakenPending
    <3>3. \A i \in Inputs : Has(u, i)'
      BY <2>1, <2>3 DEF Has
    <3> QED
      BY <1>5, <1>6, <1>7, <2>1, <3>2, <3>3
  <2>4. CASE ~cancelled[u]
    <3>1. activeTask = u /\ activeState \in States
      BY <1>0, <2>1, <2>4 DEF Working
    <3>2. /\ pending' = [pending EXCEPT ![activeState] = <<>>]
          /\ \A s \in States \ {activeState} : pending'[s] = pending[s]
      BY <1>0, <2>1, <3>1 DEF TakenPending, QueueTyped, States
    <3>3. ASSUME NEW t \in Turns \ {u} PROVE KeptFor(t)
      <4>1. taskPc[t] = "leftover" => run[t].state \in States /\ run[t].state # activeState
        <5>1. taskPc[t] = "leftover" => run[t].state \in 1 .. states /\ run[t].state # activeState
          BY <1>0, <3>1 DEF OwnState, Finishing
        <5> QED
          BY <1>0, <5>1, StateBounds
      <4> QED
        BY <3>1, <3>2, <4>1 DEF KeptFor
    <3>4. \A i \in Inputs : i \in ToSet(pending[activeState]) => i \in ToSet(run'[u].batch)
      <4> DEFINE s == PendingOfActive
                 m == IF AcceptsMailboxDelivery THEN mailbox ELSE <<>>
      <4>1. s = pending[activeState]
        BY <3>1, StateBounds DEF PendingOfActive
      <4>2. s \in Seq(Items) /\ m \in Seq(Items)
        BY <1>0, <3>1, <4>1, EmptyQueue DEF QueueTyped
      <4>3. GetPendingInput = s \o m
        BY DEF GetPendingInput
      <4> HIDE DEF s, m
      <4>4. ToSet(GetPendingInput) = ToSet(s) \cup ToSet(m)
        BY <4>2, <4>3, ToSetConcat
      <4> QED
        BY <2>2, <4>1, <4>4
    <3>5. \A i \in Inputs : Has(u, i) => Has(u, i)'
      BY <2>1, <2>2, <2>4, <3>4 DEF Has
    <3> QED
      BY <1>5, <1>7, <2>1, <3>3, <3>5
  <2> QED
    BY <2>3, <2>4
<1>14. CASE TaskFinished(u)
  <2>0. UNCHANGED <<pending, history, rejected, events, activeState>> /\ taskPc[u] = "finish"
    BY <1>14 DEF TaskFinished, queueVars, logVars
  <2>1. CASE LeavesQuietly(u)
    <3>1. taskPc'[u] = "dead"
      BY <1>0, <1>14, <2>1 DEF TaskFinished, Ends, Goto
    <3>2. events[u] = <<"started">>
      BY <2>0 DEF IInv, EventsMatchTask, Steps, Working
    <3>3. <<"started">> \notin Completed
      BY OpenedIsOpen DEF Opened
    <3>4. \A i \in Inputs : Has(u, i)'
      BY <2>0, <3>1, <3>2, <3>3 DEF Has
    <3> QED
      BY <1>5, <1>6, <1>7, <2>0, <3>4
  <2>2. CASE ~LeavesQuietly(u)
    <3>1. /\ run' = [run EXCEPT ![u].state = activeState] /\ ~cancelled[u]
          /\ taskPc' = [taskPc EXCEPT ![u] = "leftover"]
      BY <1>14, <2>2 DEF TaskFinished, LeavesQuietly, Goto
    <3>2. taskPc'[u] = "leftover" /\ run'[u].state = activeState
      BY <1>0, <3>1 DEF RunType
    <3>3. \A i \in Inputs : Has(u, i) => Has(u, i)'
      BY <2>0, <3>1, <3>2 DEF Has
    <3> QED
      BY <1>5, <1>6, <1>7, <2>0, <3>3
  <2> QED
    BY <2>1, <2>2
<1>15. CASE RecordLeftover(u)
  <2> DEFINE s == run[u].state
             b == <<"pending", s>>
  <2>0. /\ taskPc[u] = "leftover" /\ taskPc[u] \in Finishing /\ taskPc[u] \notin Working
        /\ pending' = [pending EXCEPT ![s] = <<>>] /\ UNCHANGED <<run, cancelled, activeTask>>
    BY <1>15 DEF RecordLeftover, Finishing, Working
  <2>1. s \in States
    <3>1. s \in 1 .. states
      BY <2>0 DEF OwnState
    <3> QED
      BY <1>0, <3>1, StateBounds
  <2>2. b \in Place /\ Queues[b] = pending[s]
    BY <2>1, Places, QueueAt
  <2>3. PICK blocked : Record(pending[s], blocked)
    BY <1>15 DEF RecordLeftover, Leftover
  <2>4. HistoryGrows /\ \A x \in ToSet(pending[s]) : Settled(x)'
    BY <2>2, <2>3, RecordSettles
  <2>5. \A x \in States \ {s} : pending'[x] = pending[x]
    BY <1>0, <2>0 DEF QueueTyped
  <2>6. ASSUME NEW t \in Turns \ {u} PROVE KeptFor(t)
    <3>1. activeTask = t => activeState \in States /\ activeState # s
      BY <1>0, <2>0 DEF OwnState
    <3>2. taskPc[t] = "leftover" => run[t].state \in States /\ run[t].state # s
      <4>1. taskPc[t] = "leftover" => run[t].state \in 1 .. states /\ run[t].state # s
        BY <2>0 DEF OwnState, Finishing
      <4> QED
        BY <1>0, <4>1, StateBounds
    <3> QED
      BY <2>5, <3>1, <3>2 DEF KeptFor
  <2>7. \A i \in Inputs : Has(u, i) => Settled(i)'
    BY <1>0, <2>0, <2>4 DEF Has
  <2> QED
    BY <1>5, <2>4, <2>6, <2>7
<1>16. CASE EmitTerminal(u) \/ ClearActive(u)
  <2>1. /\ UNCHANGED <<pending, history, rejected>>
        /\ taskPc[u] \in {"terminal", "clear"} /\ taskPc[u] \notin Working
    BY <1>16 DEF EmitTerminal, ClearActive, queueVars, logVars, Working
  <2>2. \A i \in Inputs : ~Has(u, i)
    BY <1>0, <2>1 DEF Has
  <2> QED
    BY <1>5, <1>6, <1>7, <2>1, <2>2
<1> QED
  BY <1>8, <1>9, <1>10, <1>11, <1>12, <1>13, <1>14, <1>15, <1>16 DEF TaskStep

LEMMA KeptNext ==
    ASSUME \A i \in Inputs : owner'[i] # 0 =>
              Settled(i)' \/ \E t \in Turns : owner'[i] = t /\ Has(t, i)'
    PROVE  InputIsKept'
  BY DEF InputIsKept

(* The steps of the callers: no task that works or finishes is touched. *)
LEMMA CallerKeepsInputs ==
    ASSUME IInv, DataTyped, LoopAlone, OneCaller, OwnState, Placed, InputIsKept, Next,
           ~\E t \in Turns : TaskStep(t)
    PROVE  InputIsKept'
<1>a. /\ QueueTyped /\ LogTyped /\ unsent \subseteq Items
      /\ run \in [Turns -> RunType] /\ cancelled \in [Turns -> BOOLEAN]
      /\ local \in [Procs -> LocalType] /\ victim \in [Procs -> 0 .. MaxTurns]
      /\ taskPc \in [Turns -> Working \cup Finishing \cup {"none", "dead"}]
      /\ DOMAIN events = Turns /\ activeTask \in 0 .. MaxTurns
  BY DEF IInv, ControlTyped, DataTyped, QueueTyped, EnvTyped, RunTyped, LocalTyped
<1>b. /\ "loop" \in Procs /\ Clients \subseteq Procs /\ Procs = Clients \cup {"loop"}
      /\ "tryStart" \notin ClientOps /\ "abortTurn" \notin ClientOps
  BY DEF LoopAlone, Procs
<1>0. /\ 0 \notin Turns
      /\ activeTask # 0 => activeTask \in Turns
      /\ activeTask # 0 => activeState \in States
  BY <1>a, Bounds, StateBounds DEF IInv, QueueTyped
<1>1. ASSUME owner' = owner, HistoryGrows, UNCHANGED <<run, taskPc, events, cancelled, activeTask>>,
             activeTask # 0 => activeState' = activeState, \A t \in Turns : KeptFor(t)
      PROVE  InputIsKept'
  <2>1. \A t \in Turns, i \in Inputs : Has(t, i) => Has(t, i)'
    BY <1>0, <1>a, <1>b, <1>1, OtherKeeps
  <2> QED
    BY <1>0, <1>a, <1>b, <1>1, <2>1, AllKeep
<1>2. UNCHANGED pending => \A t \in Turns : KeptFor(t)
  BY DEF KeptFor
<1>3. UNCHANGED <<history, rejected>> => HistoryGrows
  BY DEF HistoryGrows
<1>4. ASSUME NEW i \in Inputs, Steer(i), activeTask # 0,
             UNCHANGED <<activeState, activeTask, history, rejected, run, taskPc, events, cancelled>>
      PROVE  InputIsKept'
  <2>1. /\ pending' = ExtendPending(activeState, <<i>>) /\ owner' = [owner EXCEPT ![i] = activeTask]
        /\ <<i>> \in Seq(Items)
    BY <1>4 DEF Steer, Items
  <2>2. PendingGrows
    BY <1>0, <1>a, <1>b, <2>1, ExtendGrows
  <2>3. \A t \in Turns : KeptFor(t)
    BY <1>0, <1>a, <1>b, <2>2, GrowsKeeps
  <2>4. \A t \in Turns, j \in Inputs : Has(t, j) => Has(t, j)'
    BY <1>4, <2>3, OtherKeeps
  <2>5. i \in ToSet(pending'[activeState])
    <3>1. pending'[activeState] = pending[activeState] \o <<i>> /\ pending[activeState] \in Seq(Items)
      BY <1>0, <1>a, <1>b, <1>4, <2>1 DEF ExtendPending, QueueTyped
    <3>2. i \in Items /\ ToSet(<<i>>) = {i}
      BY OneItem DEF Items
    <3>3. PICK x \in Seq(Items) : x = <<i>>
      BY <2>1
    <3>4. pending'[activeState] = pending[activeState] \o x /\ i \in ToSet(x)
      BY <3>1, <3>2, <3>3
    <3>5. ToSet(pending[activeState] \o x) = ToSet(pending[activeState]) \cup ToSet(x)
      BY <3>1, ToSetConcat
    <3> QED
      BY <3>4, <3>5
  <2>a. PICK a \in Turns : a = activeTask
    BY <1>0, <1>4
  <2>6. Has(a, i)'
    BY <1>4, <2>5, <2>a DEF Has
  <2>7. owner'[i] = a /\ \A j \in Inputs \ {i} : owner'[j] = owner[j]
    BY <1>a, <2>1, <2>a DEF LogTyped
  <2>8. \A j \in Inputs : owner[j] # 0 => owner[j] \in Turns
    BY <1>a, Bounds DEF LogTyped
  <2>9. \A j \in Inputs : Settled(j) => Settled(j)'
    BY <1>4 DEF Settled
  <2>10. ASSUME NEW j \in Inputs, owner'[j] # 0
         PROVE  Settled(j)' \/ \E t \in Turns : owner'[j] = t /\ Has(t, j)'
    <3>1. CASE j = i
      BY <2>6, <2>7, <3>1
    <3>2. CASE j # i
      BY <2>4, <2>7, <2>8, <2>9, <2>10, <3>2 DEF InputIsKept
    <3> QED
      BY <3>1, <3>2
  <2> QED
    BY <2>10, KeptNext
<1>5. CASE Submission \/ ShutdownComplete
  <2>1. CASE UserInput
    <3>0. UNCHANGED <<activeState, activeTask, history, events, run, taskPc, cancelled>>
      BY <2>1 DEF UserInput, taskVars
    <3>1. \/ \E i \in Inputs : Steerable /\ Steer(i) /\ UNCHANGED rejected
          \/ UNCHANGED <<pending, rejected, owner>>
          \/ \E i \in Inputs : rejected' = rejected \cup {i} /\ UNCHANGED <<pending, owner>>
      BY <2>1 DEF UserInput, queueVars
    <3>2. CASE \E i \in Inputs : Steerable /\ Steer(i) /\ UNCHANGED rejected
      BY <1>4, <3>0, <3>2 DEF Steerable
    <3>3. CASE UNCHANGED <<pending, rejected, owner>>
      BY <1>1, <1>2, <1>3, <3>0, <3>3
    <3>4. CASE \E i \in Inputs : rejected' = rejected \cup {i} /\ UNCHANGED <<pending, owner>>
      <4>1. HistoryGrows
        BY <3>0, <3>4 DEF HistoryGrows
      <4> QED
        BY <1>1, <1>2, <3>0, <3>4, <4>1
    <3> QED
      BY <3>1, <3>2, <3>3, <3>4
  <2>2. CASE InterAgentCommunication \/ Interrupt \/ Compact \/ Shutdown \/ ShutdownComplete
    <3>1. UNCHANGED <<activeState, activeTask, pending, history, rejected, events, owner, run,
                      taskPc, cancelled>>
      BY <2>2 DEF InterAgentCommunication, Interrupt, Compact, Shutdown, ShutdownComplete,
         queueVars, logVars, taskVars
    <3> QED
      BY <1>1, <1>2, <1>3, <3>1
  <2> QED
    BY <1>5, <2>1, <2>2 DEF Submission
<1>6. ASSUME NEW p \in Clients, Call(p) PROVE InputIsKept'
  <2>1. CASE SteerInput(p)
    BY <1>4, <2>1 DEF SteerInput, Steerable, taskVars
  <2>2. CASE InjectNoNewTurn(p)
    <3>1. /\ UNCHANGED <<activeState, activeTask, history, rejected, events, owner, run, taskPc,
                         cancelled>>
          /\ \/ UNCHANGED pending
             \/ \E x \in Injections : pending' = ExtendPending(activeState, <<x>>)
      BY <2>2 DEF InjectNoNewTurn, logVars, taskVars
    <3>2. \A t \in Turns : KeptFor(t)
      <4>1. ASSUME NEW x \in Injections, pending' = ExtendPending(activeState, <<x>>)
            PROVE  \A t \in Turns : KeptFor(t)
        <5>1. <<x>> \in Seq(Items)
          BY DEF Items
        <5>2. PendingGrows
          BY <1>0, <1>a, <1>b, <4>1, <5>1, ExtendGrows
        <5> QED
          BY <1>0, <1>a, <1>b, <5>2, GrowsKeeps
      <4> QED
        BY <1>2, <3>1, <4>1
    <3> QED
      BY <1>1, <1>3, <3>1, <3>2
  <2> QED
    BY <1>0, <1>a, <1>b, <1>6, <2>1, <2>2 DEF Call, TryStartTurnIfIdle, AbortTurnIfActive
<1>7. ASSUME NEW p \in Procs, RecordItems(p) PROVE InputIsKept'
  <2>1. /\ UNCHANGED <<activeState, activeTask, pending, rejected, events, owner, run, taskPc,
                       cancelled>>
        /\ history' = history \o local[p].items
    BY <1>7 DEF RecordItems, queueVars, taskVars
  <2>2. local[p].items \in Seq(Items)
    BY <1>0, <1>a, <1>b DEF LocalType
  <2>3. HistoryGrows
    BY <2>1, <2>2, ConcatGrows DEF HistoryGrows
  <2> QED
    BY <1>1, <1>2, <2>1, <2>3
<1>8. ASSUME Continue("loop") PROVE InputIsKept'
  <2>0. /\ pc["loop"] \in AloneLabels /\ local["loop"] \in LocalType
        /\ pc["loop"] \in AbortingCalls => activeState = 0
        /\ pc["loop"] \in StartingCalls => activeTask = 0
    BY <1>0, <1>a, <1>b DEF OneCaller
  <2>a. \A t \in Turns : taskPc[t] = "leftover" =>
           /\ run[t].state \in States
           /\ pc["loop"] \in StartingCalls => run[t].state # activeState
           /\ pc["loop"] \in AbortingCalls => run[t].state # local["loop"].vstate
    <3>1. \A t \in Turns : taskPc[t] = "leftover" =>
             /\ run[t].state \in 1 .. states
             /\ pc["loop"] \in StartingCalls => run[t].state # activeState
             /\ pc["loop"] \in AbortingCalls => run[t].state # local["loop"].vstate
      BY DEF OwnState, Finishing
    <3> QED
      BY <1>0, <1>a, <1>b, <3>1, StateBounds DEF QueueTyped
  <2>1. CASE StartTake("loop")
    <3>1. /\ UNCHANGED <<activeState, activeTask, history, rejected, events, owner, run, taskPc,
                         cancelled>>
          /\ pending' = TakenPending /\ pc["loop"] \in StartingCalls /\ activeTask = 0
      BY <2>0, <2>1 DEF StartTake, DrainPending, logVars, taskVars, StartingCalls
    <3>2. \A s \in States : s # activeState => pending'[s] = pending[s]
      BY <1>0, <1>a, <1>b, <3>1 DEF TakenPending, QueueTyped
    <3>3. \A t \in Turns : KeptFor(t)
      BY <1>0, <1>a, <1>b, <2>a, <3>1, <3>2 DEF KeptFor
    <3> QED
      BY <1>1, <1>3, <3>1, <3>3
  <2>2. CASE StartJoin("loop")
    <3>1. /\ UNCHANGED <<activeTask, history, rejected, events, owner, run, taskPc, cancelled>>
          /\ pending' = ExtendPending(activeState', local["loop"].items) /\ activeTask = 0
      BY <2>0, <2>2 DEF StartJoin, logVars, taskVars, StartingCalls
    <3>2. local["loop"].items \in Seq(Items)
      BY <2>0 DEF LocalType
    <3>a. PICK s : s = activeState'
      OBVIOUS
    <3>3. pending' = ExtendPending(s, local["loop"].items)
      BY <3>1, <3>a
    <3>4. PendingGrows
      BY <1>0, <1>a, <1>b, <3>2, <3>3, ExtendGrows
    <3>5. \A t \in Turns : KeptFor(t)
      BY <1>0, <1>a, <1>b, <3>4, GrowsKeeps
    <3> QED
      BY <1>1, <1>3, <3>1, <3>5
  <2>3. CASE StartInstall("loop")
    <3>a. PICK t : t = turn["loop"]
      OBVIOUS
    <3>b. PICK l : l = local["loop"]
      OBVIOUS
    <3>1. /\ activeTask = 0 /\ t \in Turns /\ taskPc[t] = "none"
      <4>1. pc["loop"] \in Starting /\ activeTask = 0
        BY <2>0, <2>3 DEF StartInstall, Starting, StartingCalls
      <4>2. t \in 1 .. turns /\ turns \in 0 .. MaxTurns /\ taskPc[t] = "none"
        BY <1>0, <1>a, <1>b, <3>a, <4>1 DEF IInv, StartedTurnIsNew, ControlTyped
      <4> QED
        BY <4>1, <4>2, Bounds
    <3>2. /\ Install(t, l.kind, l.input)
          /\ UNCHANGED <<pending, history, rejected, events, cancelled>>
      BY <2>3, <3>a, <3>b DEF StartInstall, queueVars
    <3>3. /\ run'[t] = NewRun(l.kind, l.input) /\ taskPc'[t] = "begin"
          /\ \A u \in Turns \ {t} : run'[u] = run[u] /\ taskPc'[u] = taskPc[u]
          /\ \A i \in Inputs : owner'[i] = IF Contains(l.input, i) THEN t ELSE owner[i]
      BY <1>0, <1>a, <1>b, <3>1, <3>2 DEF Install
    <3>4. l.input # <<>> => l.kind = "regular"
      BY <3>b DEF OneCaller
    <3>5. NewRun(l.kind, l.input).input = l.input /\ NewRun(l.kind, l.input).kind = l.kind
      BY DEF NewRun
    <3>6. \A u \in Turns \ {t}, i \in Inputs : Has(u, i) => Has(u, i)'
      BY <1>0, <1>a, <1>b, <1>2, <3>1, <3>2, <3>3, OtherKeeps
    <3>7. ~cancelled[t]
      BY <3>1 DEF IInv, CancelledIsLive, Live, Working
    <3>8. \A i \in Inputs : ~Has(t, i)
      BY <1>0, <1>a, <1>b, <3>1, <3>7 DEF Has
    <3>9. ASSUME NEW i \in Inputs, Contains(l.input, i) PROVE Has(t, i)'
      <4>1. i \in ToSet(l.input) /\ l.input # <<>>
        BY <3>9 DEF Contains, ToSet
      <4> QED
        BY <3>3, <3>4, <3>5, <4>1 DEF Has
    <3>10. \A j \in Inputs : owner[j] # 0 => owner[j] \in Turns
      BY <1>0, <1>a, <1>b, Bounds DEF LogTyped
    <3>11. \A i \in Inputs : Settled(i) => Settled(i)'
      BY <3>2 DEF Settled
    <3>12. ASSUME NEW i \in Inputs, owner'[i] # 0 
           PROVE  Settled(i)' \/ \E u \in Turns : owner'[i] = u /\ Has(u, i)'
      <4>1. CASE Contains(l.input, i)
        BY <3>1, <3>3, <3>9, <4>1
      <4>2. CASE ~Contains(l.input, i)
        BY <3>3, <3>6, <3>8, <3>10, <3>11, <3>12, <4>2 DEF InputIsKept
      <4> QED
        BY <4>1, <4>2
    <3> QED
      BY <3>12, KeptNext
  <2>4. CASE MaybeStart("loop") \/ ReserveTurn("loop")
    <3>1. /\ UNCHANGED <<activeTask, pending, history, rejected, events, owner, run, taskPc,
                         cancelled>>
          /\ activeTask # 0 => activeState' = activeState
      BY <2>4, <1>0, <1>a, <1>b DEF MaybeStart, ReserveTurn, NoActiveTurn, queueVars, logVars, taskVars,
         QueueTyped
    <3> QED
      BY <1>1, <1>2, <1>3, <3>1
  <2>5. CASE AbortAll("loop")
    <3>0. UNCHANGED <<pending, history, rejected, events, owner, run, taskPc>>
      BY <2>5 DEF AbortAll, queueVars, logVars
    <3>1. CASE activeTask = 0
      <4>1. UNCHANGED <<activeTask, cancelled>>
        BY <2>5, <3>1 DEF AbortAll, NothingToAbort
      <4> QED
        BY <1>1, <1>2, <1>3, <3>0, <3>1, <4>1
    <3>2. CASE activeTask # 0
      <4>1. cancelled' = [cancelled EXCEPT ![activeTask] = TRUE]
        BY <2>5, <3>2 DEF AbortAll, TakeForAbort, CancelActiveTask
      <4>2. cancelled'[activeTask] /\ \A t \in Turns \ {activeTask} : cancelled'[t] = cancelled[t]
        BY <1>0, <1>a, <1>b, <3>2, <4>1
      <4>3. \A t \in Turns \ {activeTask}, i \in Inputs : Has(t, i) => Has(t, i)'
        BY <1>2, <3>0, <4>2, OtherKeeps
      <4>4. \A t \in Turns, i \in Inputs : t = activeTask => Has(t, i)'
        BY <4>2 DEF Has
      <4> QED
        BY <1>0, <1>a, <1>b, <1>3, <3>0, <4>3, <4>4, AllKeep
    <3> QED
      BY <3>1, <3>2
  <2>6. CASE AbortTask("loop")
    <3>a. PICK v : v = victim["loop"]
      OBVIOUS
    <3>1. /\ UNCHANGED <<activeState, activeTask, pending, history, rejected, events, owner>>
          /\ Ends(v) /\ pc["loop"] \in Aborting
      BY <2>6, <3>a DEF AbortTask, Killed, queueVars, logVars, Aborting
    <3>2. v \in Turns /\ events[v] \in Opened
      BY <1>0, <1>a, <1>b, <3>1, <3>a DEF IInv, VictimIsUnreported
    <3>3. /\ taskPc'[v] = "dead"
          /\ \A t \in Turns \ {v} : /\ taskPc'[t] = taskPc[t] /\ run'[t] = run[t]
                                    /\ cancelled'[t] = cancelled[t]
      BY <1>0, <1>a, <1>b, <3>1, <3>2 DEF Ends, Goto
    <3>4. \A e \in Opened : e \notin Completed
      BY OpenedIsOpen
    <3>5. \A i \in Inputs : Has(v, i)'
      BY <3>1, <3>2, <3>3, <3>4 DEF Has
    <3>6. \A t \in Turns \ {v}, i \in Inputs : Has(t, i) => Has(t, i)'
      BY <1>2, <3>1, <3>3, OtherKeeps
    <3> QED
      BY <1>0, <1>a, <1>b, <1>3, <3>1, <3>5, <3>6, AllKeep
  <2>7. CASE EmitAborted("loop")
    <3>a. PICK v : v = victim["loop"]
      OBVIOUS
    <3>1. /\ UNCHANGED <<activeState, activeTask, pending, history, rejected, owner, taskPc, run,
                         cancelled>>
          /\ events' = [events EXCEPT ![v] = Append(events[v], "aborted")] /\ pc["loop"] = "aborted"
      BY <2>7, <3>a DEF EmitAborted, Emit, queueVars, taskVars
    <3>2. v \in Turns /\ events[v] \in Opened /\ taskPc[v] = "dead"
      BY <1>0, <1>a, <1>b, <3>1, <3>a DEF IInv, VictimIsUnreported, Aborting
    <3>3. events'[v] = Append(events[v], "aborted") /\ \A t \in Turns \ {v} : events'[t] = events[t]
      BY <1>0, <1>a, <1>b, <3>1, <3>2
    <3>4. events'[v] \notin Completed
      BY <3>2, <3>3, OpenedIsOpen
    <3>5. \A i \in Inputs : Has(v, i)'
      BY <3>1, <3>2, <3>4 DEF Has
    <3>6. \A t \in Turns \ {v}, i \in Inputs : Has(t, i) => Has(t, i)'
      BY <1>2, <3>1, <3>3, OtherKeeps
    <3> QED
      BY <1>0, <1>a, <1>b, <1>3, <3>1, <3>5, <3>6, AllKeep
  <2>8. CASE ClearPending("loop")
    <3>1. /\ UNCHANGED <<activeState, activeTask, history, rejected, events, owner, taskPc, run,
                         cancelled>>
          /\ pending' = [pending EXCEPT ![local["loop"].vstate] = <<>>]
          /\ pc["loop"] \in AbortingCalls /\ activeTask = 0
      BY <1>0, <1>a, <1>b, <2>0, <2>8 DEF ClearPending, logVars, taskVars, AbortingCalls, QueueTyped
    <3>2. \A s \in States : s # local["loop"].vstate => pending'[s] = pending[s]
      BY <1>0, <1>a, <1>b, <3>1 DEF QueueTyped
    <3>3. \A t \in Turns : KeptFor(t)
      BY <1>0, <1>a, <1>b, <2>a, <3>1, <3>2 DEF KeptFor
    <3> QED
      BY <1>1, <1>3, <3>1, <3>3
  <2> QED
    BY <1>0, <1>a, <1>b, <1>7, <1>8, <2>0, <2>1, <2>2, <2>3, <2>4, <2>5, <2>6, <2>7, <2>8 DEF Continue,
       TryReserve, TryCheck, ClearReservedIdleTurn, TryConfirm, TryExtend, AloneLabels,
       StartingCalls, AbortingCalls
<1>9. ASSUME NEW p \in Clients, Continue(p) PROVE InputIsKept'
  <2>1. RecordItems(p)
    BY <1>9 DEF Continue, StartTake, StartJoin, StartInstall, MaybeStart, ReserveTurn, AbortAll,
       AbortTask, EmitAborted, ClearPending, TryReserve, TryCheck, ClearReservedIdleTurn,
       TryConfirm, TryExtend, OneCaller
  <2> QED
    BY <1>0, <1>a, <1>b, <1>7, <1>9, <2>1
<1> QED
  BY <1>0, <1>a, <1>b, <1>5, <1>6, <1>8, <1>9 DEF Next

AloneInv == LoopAlone => OneCaller /\ OwnState /\ InputIsKept

LEMMA InitAlone == Init => AloneInv
<1> SUFFICES ASSUME Init PROVE OneCaller /\ OwnState /\ InputIsKept
  BY DEF AloneInv
<1>1. OneCaller
  BY DEF Init, OneCaller, NoLocal, AloneLabels, AbortingCalls, StartingCalls, Procs
<1>2. OwnState
  BY DEF Init, OwnState, Finishing
<1>3. InputIsKept
  BY DEF Init, InputIsKept
<1> QED
  BY <1>1, <1>2, <1>3

THEOREM AloneInvariant == Spec => [](IInv /\ Placed /\ AloneInv)
<1>1. /\ IInv /\ DataTyped /\ CancelledHasVictim /\ Placed /\ AloneInv /\ [Next]_vars
      => AloneInv'
  <2> SUFFICES ASSUME IInv, DataTyped, CancelledHasVictim, Placed, AloneInv, [Next]_vars
               PROVE  AloneInv'
    OBVIOUS
  <2>1. CASE LoopAlone /\ Next
    <3>0. OneCaller /\ OwnState /\ InputIsKept
      BY <2>1 DEF AloneInv
    <3>1. OneCaller'
      BY <2>1, <3>0, OneCallerStep
    <3>2. OwnState'
      BY <2>1, <3>0, OwnStateStep
    <3>3. InputIsKept'
      BY <2>1, <3>0, TaskKeepsInputs, CallerKeepsInputs
    <3> QED
      BY <3>1, <3>2, <3>3 DEF AloneInv
  <2>2. CASE LoopAlone /\ UNCHANGED vars
    <3>0. OneCaller /\ OwnState /\ InputIsKept
      BY <2>2 DEF AloneInv
    <3>1. UNCHANGED <<activeState, activeTask, pending, states, history, rejected, events, owner,
                      run, taskPc, cancelled, pc, local>>
      BY <2>2 DEF vars, queueVars, logVars, idVars, taskVars, procVars, envVars
    <3>2. OneCaller'
      BY <3>0, <3>1 DEF OneCaller
    <3>3. OwnState'
      BY <3>0, <3>1 DEF OwnState
    <3>4. InputIsKept'
      BY <3>0, <3>1 DEF InputIsKept, Settled, Has
    <3> QED
      BY <3>2, <3>3, <3>4 DEF AloneInv
  <2>3. CASE ~LoopAlone
    BY <2>3 DEF AloneInv, LoopAlone
  <2> QED
    BY <2>1, <2>2, <2>3
<1> QED
  BY <1>1, InitAlone, DataInvariant, LoopInvariant, PlacesInvariant, PTL DEF Spec

(* While the loop is alone in starting and aborting turns, what a client   *)
(* was told a turn accepted is recorded or refused before the client is    *)
(* told that the turn completed, input steered while on_task_finished ran  *)
(* included.                                                               *)
THEOREM CompletedTurnRecordedInputHolds == Spec => [](LoopAlone => CompletedTurnRecordedInput)
<1>1. ASSUME IInv, DataTyped, Placed, InputIsKept PROVE CompletedTurnRecordedInput
  <2> SUFFICES ASSUME NEW i \in Inputs, owner[i] # 0, Contains(events[owner[i]], "complete")
               PROVE  Contains(history, i) \/ i \in rejected
    BY DEF CompletedTurnRecordedInput
  <2>0. PICK t \in Turns : t = owner[i]
    BY <1>1, Bounds DEF DataTyped, LogTyped
  <2>1. events[t] \in Completed
    <3>1. PICK k \in 1 .. Len(events[t]) : events[t][k] = "complete"
      BY <2>0 DEF Contains
    <3>2. events[t] \in Opened \cup Closed
      <4>1. taskPc[t] \in Working \cup Finishing \cup {"none", "dead"}
        BY <1>1 DEF IInv, ControlTyped
      <4> QED
        BY <1>1, <4>1 DEF IInv, EventsMatchTask, Opened, Steps, Working, Finishing
    <3>3. events[t] \in Opened \/ events[t] = <<"aborted">> \/ events[t] = <<"started", "aborted">>
             => FALSE
      BY <3>1 DEF Opened
    <3> QED
      BY <3>2, <3>3 DEF Closed, Completed
  <2>2. taskPc[t] \in {"clear", "dead"}
    <3>1. events[t] \notin Opened
      BY <2>1, OpenedIsOpen
    <3>2. taskPc[t] \in Working \cup Finishing \cup {"none", "dead"}
      BY <1>1 DEF IInv, ControlTyped
    <3> QED
      BY <1>1, <3>1, <3>2 DEF IInv, EventsMatchTask, Opened, Steps, Working, Finishing
  <2>3. ~Has(t, i)
    <3>1. ~Live(t)
      BY <2>2 DEF Live, Working
    <3>2. ~cancelled[t] /\ activeTask # t
      BY <1>1, <3>1, Bounds DEF IInv, ActiveTaskIsLive, CancelledIsLive
    <3> QED
      BY <2>1, <2>2, <3>2 DEF Has
  <2>4. Settled(i)
    BY <1>1, <2>0, <2>3, Bounds DEF InputIsKept
  <2>5. history \in Seq(Items)
    BY <1>1, Places, QueueAt DEF Placed, Apart
  <2> QED
    BY <2>4, <2>5 DEF Settled, ToSet, Contains
<1>2. IInv /\ DataTyped /\ Placed /\ AloneInv => (LoopAlone => CompletedTurnRecordedInput)
  BY <1>1 DEF AloneInv
<1> QED
  BY <1>2, AloneInvariant, DataInvariant, PTL

(***************************************************************************)
(* SessionTurns implements TurnLifecycle.                                  *)
(***************************************************************************)
(* Whoever has a victim is aborting it. *)
VictimsAbort == \A p \in Procs : victim[p] # 0 => pc[p] \in Aborting

(* What a call records beside the turns was injected. *)
InjectsOnly == \A p \in Procs : pc[p] = "recordItems" => ToSet(local[p].items) \subseteq Injections

LEMMA VictimsStep ==
    ASSUME IInv, VictimsAbort, Next PROVE VictimsAbort'
<1>0. /\ pc \in [Procs -> Labels] /\ victim \in [Procs -> 0 .. MaxTurns]
      /\ "loop" \in Procs /\ Clients \subseteq Procs
  BY Bounds DEF IInv, ControlTyped
<1>1. ASSUME NEW p \in Procs, \A q \in Procs \ {p} : pc'[q] = pc[q] /\ victim'[q] = victim[q],
             victim'[p] # 0 => pc'[p] \in Aborting
      PROVE  VictimsAbort'
  BY <1>1 DEF VictimsAbort
<1>2. ASSUME NEW t \in Turns, TaskStep(t) PROVE VictimsAbort'
  <2>1. pc' = pc /\ victim' = victim
    BY <1>2 DEF TaskStep, Begin, RecordInput, DropInput, Drain, RecordPending, OutputMessage,
       OutputToolCall, SamplingEnds, RetryWithoutImages, FollowUp, NoFollowUp, RunTurnAgain,
       RunCompact, TaskFinished, RecordLeftover, EmitTerminal, ClearActive, procVars
  <2> QED
    BY <2>1 DEF VictimsAbort
<1>3. ASSUME NEW p \in Procs, Continue(p) PROVE VictimsAbort'
  <2>1. CASE AbortTask(p)
    BY <2>1, <1>0, <1>1 DEF AbortTask, Move, Aborting
  <2>2. CASE AbortAll(p)
    <3>1. CASE activeTask = 0
      BY <2>2, <3>1, <1>0, <1>1 DEF AbortAll, NothingToAbort, Move, Return, VictimsAbort, Aborting
    <3>2. CASE activeTask # 0
      BY <2>2, <3>2, <1>0, <1>1 DEF AbortAll, TakeForAbort, Move, Aborting
    <3> QED
      BY <3>1, <3>2
  <2>3. CASE EmitAborted(p)
    BY <2>3, <1>0, <1>1 DEF EmitAborted, Move
  <2>4. CASE ~AbortTask(p) /\ ~AbortAll(p) /\ ~EmitAborted(p)
    <3>1. victim' = victim /\ pc[p] \notin Aborting /\ \A q \in Procs \ {p} : pc'[q] = pc[q]
      BY <1>0, <1>3, <2>4 DEF Continue, StartTake, StartJoin, StartInstall, MaybeStart,
         ReserveTurn, ClearPending, RecordItems, TryReserve, TryCheck,
         ClearReservedIdleTurn, TryConfirm, TryExtend, Move, Return, Aborting
    <3> QED
      BY <3>1, <1>1 DEF VictimsAbort
  <2> QED
    BY <2>1, <2>2, <2>3, <2>4
<1>4. ASSUME Submission \/ ShutdownComplete PROVE VictimsAbort'
  <2>1. victim' = victim /\ pc["loop"] \notin Aborting /\ \A q \in Procs \ {"loop"} : pc'[q] = pc[q]
    BY <1>0, <1>4 DEF Submission, UserInput, InterAgentCommunication, Interrupt, Compact,
       Shutdown, ShutdownComplete, Spawn, Move, Aborting
  <2> QED
    BY <2>1, <1>0, <1>1 DEF VictimsAbort
<1>5. ASSUME NEW p \in Clients, Call(p) PROVE VictimsAbort'
  <2>1. CASE AbortTurnIfActive(p)
    BY <2>1, <1>0, <1>1 DEF AbortTurnIfActive, TakeForAbort, Move, Aborting
  <2>2. CASE ~AbortTurnIfActive(p)
    <3>1. victim' = victim /\ pc[p] \notin Aborting /\ \A q \in Procs \ {p} : pc'[q] = pc[q]
      BY <1>0, <1>5, <2>2 DEF Call, SteerInput, InjectNoNewTurn, TryStartTurnIfIdle, Move,
         procVars, Aborting
    <3> QED
      BY <3>1, <1>0, <1>1 DEF VictimsAbort
  <2> QED
    BY <2>1, <2>2
<1> QED
  BY <1>2, <1>3, <1>4, <1>5 DEF Next

LEMMA InjectsStep ==
    ASSUME IInv, LocalTyped, InjectsOnly, Next PROVE InjectsOnly'
<1>0. /\ pc \in [Procs -> Labels] /\ local \in [Procs -> LocalType]
      /\ "loop" \in Procs /\ Clients \subseteq Procs
  BY Bounds DEF IInv, ControlTyped, LocalTyped
<1>1. ASSUME NEW p \in Procs, \A q \in Procs \ {p} : pc'[q] = pc[q] /\ local'[q] = local[q],
             pc'[p] # "recordItems"
      PROVE  InjectsOnly'
  BY <1>1 DEF InjectsOnly
<1>2. ASSUME UNCHANGED <<pc, local>> PROVE InjectsOnly'
  BY <1>2 DEF InjectsOnly
<1>3. ASSUME NEW t \in Turns, TaskStep(t) PROVE InjectsOnly'
  BY <1>2, <1>3 DEF TaskStep, Begin, RecordInput, DropInput, Drain, RecordPending, OutputMessage,
     OutputToolCall, SamplingEnds, RetryWithoutImages, FollowUp, NoFollowUp, RunTurnAgain,
     RunCompact, TaskFinished, RecordLeftover, EmitTerminal, ClearActive, procVars
<1>4. ASSUME NEW p \in Procs, Continue(p) PROVE InjectsOnly'
  <2>1. pc'[p] # "recordItems"
    BY <1>0, <1>4 DEF Continue, StartTake, StartJoin, StartInstall, MaybeStart, ReserveTurn,
       AbortAll, NothingToAbort, TakeForAbort, AbortTask, EmitAborted, ClearPending, RecordItems,
       TryReserve, TryCheck, ClearReservedIdleTurn, TryConfirm, TryExtend, Move, Return
  <2>2. \A q \in Procs \ {p} : pc'[q] = pc[q]
    BY <1>0, <1>4 DEF Continue, StartTake, StartJoin, StartInstall, MaybeStart, ReserveTurn,
       AbortAll, NothingToAbort, TakeForAbort, AbortTask, EmitAborted, ClearPending, RecordItems,
       TryReserve, TryCheck, ClearReservedIdleTurn, TryConfirm, TryExtend, Move, Return
  <2>3. \A q \in Procs \ {p} : local'[q] = local[q]
    BY <1>0, <1>4 DEF Continue, StartTake, StartJoin, StartInstall, MaybeStart, ReserveTurn,
       AbortAll, NothingToAbort, TakeForAbort, AbortTask, EmitAborted, ClearPending, RecordItems,
       TryReserve, TryCheck, ClearReservedIdleTurn, TryConfirm, TryExtend, SetLocal, Return
  <2> QED
    BY <2>1, <2>2, <2>3, <1>1
<1>5. ASSUME Submission \/ ShutdownComplete PROVE InjectsOnly'
  <2>1. /\ UNCHANGED <<pc, local>> \/ pc'["loop"] # "recordItems"
        /\ \A q \in Procs \ {"loop"} : pc'[q] = pc[q] /\ local'[q] = local[q]
    BY <1>0, <1>5 DEF Submission, UserInput, InterAgentCommunication, Interrupt, Compact,
       Shutdown, ShutdownComplete, Spawn, Move, SetLocal
  <2> QED
    BY <2>1, <1>0, <1>1, <1>2
<1>6. ASSUME NEW p \in Clients, Call(p) PROVE InjectsOnly'
  <2>1. CASE SteerInput(p)
    BY <2>1, <1>2 DEF SteerInput, procVars
  <2>2. CASE AbortTurnIfActive(p)
    BY <2>2, <1>0, <1>1 DEF AbortTurnIfActive, TakeForAbort, Move, SetLocal
  <2>3. CASE TryStartTurnIfIdle(p)
    BY <2>3, <1>0, <1>1 DEF TryStartTurnIfIdle, Move, SetLocal
  <2>4. CASE InjectNoNewTurn(p)
    <3>1. CASE activeState # 0
      BY <2>4, <3>1, <1>2 DEF InjectNoNewTurn
    <3>2. CASE activeState = 0
      <4>1. PICK x \in Injections : local' = [local EXCEPT ![p] = [NoLocal EXCEPT !.items = <<x>>]]
        BY <2>4, <3>2 DEF InjectNoNewTurn, SetLocal
      <4>2. local'[p].items = <<x>>
        BY <4>1, <1>0 DEF NoLocal
      <4>3. ToSet(<<x>>) = {x}
        BY OneItem
      <4>4. ToSet(local'[p].items) \subseteq Injections
        BY <4>2, <4>3
      <4>5. \A q \in Procs \ {p} : pc'[q] = pc[q] /\ local'[q] = local[q]
        BY <2>4, <3>2, <4>1, <1>0 DEF InjectNoNewTurn, Move
      <4> QED
        BY <4>4, <4>5 DEF InjectsOnly
    <3> QED
      BY <3>1, <3>2
  <2> QED
    BY <1>6, <2>1, <2>2, <2>3, <2>4 DEF Call
<1> QED
  BY <1>3, <1>4, <1>5, <1>6 DEF Next

(* What the refinement needs to know of every state. *)
LifeInv ==
    /\ IInv /\ DataTyped /\ CancelledHasVictim /\ VictimsAbort /\ InjectsOnly
    /\ Placed /\ LeftoverHasState

LEMMA LifeInvariant == Spec => []LifeInv
<1>1. Init => VictimsAbort /\ InjectsOnly
  BY DEF Init, VictimsAbort, InjectsOnly
<1>2. IInv /\ DataTyped /\ VictimsAbort /\ InjectsOnly /\ [Next]_vars => (VictimsAbort /\ InjectsOnly)'
  <2> SUFFICES ASSUME IInv, DataTyped, VictimsAbort, InjectsOnly, [Next]_vars
               PROVE  VictimsAbort' /\ InjectsOnly'
    OBVIOUS
  <2>1. CASE Next
    BY <2>1, VictimsStep, InjectsStep DEF DataTyped
  <2>2. CASE UNCHANGED vars
    BY <2>2 DEF VictimsAbort, InjectsOnly, vars, procVars
  <2> QED
    BY <2>1, <2>2
<1>3. IInv /\ DataTyped /\ CancelledHasVictim /\ VictimsAbort /\ InjectsOnly /\ Placed /\ LeftoverHasState
        => LifeInv
  BY DEF LifeInv
<1> QED
  BY <1>1, <1>2, <1>3, DataInvariant, LoopInvariant, PlacesInvariant, PTL DEF Spec

(* Whoever is being aborted has had no terminal event, and works on only   *)
(* if its token is cancelled.                                              *)
LEMMA VictimIs ==
    ASSUME IInv, VictimsAbort, NEW t \in Turns, Victim(t)
    PROVE  /\ events[t] \in Opened
           /\ taskPc[t] = "dead" \/ (Live(t) /\ cancelled[t])
<1>1. PICK p \in Procs : victim[p] = t
  BY DEF Victim
<1>2. pc[p] \in Aborting
  BY <1>1, Bounds DEF VictimsAbort
<1> QED
  BY <1>1, <1>2 DEF IInv, VictimIsUnreported

(* The life of a turn, read off where its task is. *)
StatusFacts ==
    \A t \in Turns :
        /\ taskPc[t] = "none" => Status[t] = "new"
        /\ taskPc[t] # "none" /\ events[t] \in Closed => Status[t] = "over"
        /\ Victim(t) => Status[t] = "aborting"
        /\ Live(t) /\ cancelled[t] => Status[t] = "aborting"
        /\ Live(t) /\ ~cancelled[t] => Status[t] = "running"
        /\ taskPc[t] \in {"leftover", "terminal"} => Status[t] = "ending"
        /\ taskPc[t] = "dead" /\ events[t] \in Opened /\ ~Victim(t) => Status[t] = "lost"

LEMMA StatusIs == LifeInv => StatusFacts
<1> SUFFICES ASSUME LifeInv, NEW t \in Turns
             PROVE  /\ taskPc[t] = "none" => Status[t] = "new"
                    /\ taskPc[t] # "none" /\ events[t] \in Closed => Status[t] = "over"
                    /\ Victim(t) => Status[t] = "aborting"
                    /\ Live(t) /\ cancelled[t] => Status[t] = "aborting"
                    /\ Live(t) /\ ~cancelled[t] => Status[t] = "running"
                    /\ taskPc[t] \in {"leftover", "terminal"} => Status[t] = "ending"
                    /\ taskPc[t] = "dead" /\ events[t] \in Opened /\ ~Victim(t) => Status[t] = "lost"
  BY DEF StatusFacts
<1>0. IInv /\ CancelledHasVictim /\ VictimsAbort /\ EventsMatchTask
  BY DEF LifeInv, IInv
<1>1. Status[t] = IF taskPc[t] = "none" THEN "new"
                  ELSE IF Terminal(t) THEN "over"
                  ELSE IF Victim(t) THEN "aborting"
                  ELSE IF Live(t) THEN "running"
                  ELSE IF taskPc[t] \in Finishing THEN "ending" ELSE "lost"
  BY DEF Status
<1>2. /\ events[t] \in Closed => Terminal(t)
      /\ events[t] \in Opened => ~Terminal(t)
  BY ClosedIsTerminal
<1>3. Victim(t) => events[t] \in Opened /\ (taskPc[t] = "dead" \/ (Live(t) /\ cancelled[t]))
  BY <1>0, VictimIs
<1>4. Live(t) \/ taskPc[t] \in {"leftover", "terminal"} => events[t] \in Opened /\ taskPc[t] # "none"
  BY <1>0 DEF EventsMatchTask, Live, Steps, Working, Opened
<1>5. cancelled[t] => Victim(t)
  BY <1>0 DEF CancelledHasVictim, Victim
<1>6. Live(t) => taskPc[t] \notin Finishing \cup {"none", "dead"}
  BY DEF Live, Working, Finishing
<1>7. {"leftover", "terminal"} \subseteq Finishing /\ "dead" \notin Finishing /\ "none" \notin Finishing
  BY DEF Finishing
<1> QED
  BY <1>1, <1>2, <1>3, <1>4, <1>5, <1>6, <1>7

LEMMA SameStatus ==
    ASSUME NEW u \in Turns, taskPc'[u] = taskPc[u], events'[u] = events[u], Victim(u)' <=> Victim(u)
    PROVE  Status'[u] = Status[u]
<1>1. Terminal(u)' <=> Terminal(u)
  BY DEF Terminal
<1>2. Live(u)' <=> Live(u)
  BY DEF Live
<1> QED
  BY <1>1, <1>2 DEF Status

LEMMA StatusUpdate ==
    /\ (\A u \in Turns : Status'[u] = Status[u]) => Status' = Status
    /\ \A t \in Turns : (\A u \in Turns \ {t} : Status'[u] = Status[u])
                           => Status' = [Status EXCEPT ![t] = Status'[t]]
<1>1. Status = [u \in Turns |-> Status[u]] /\ Status' = [u \in Turns |-> Status'[u]]
  BY DEF Status
<1> QED
  BY <1>1

(* A step of its own task changes the life of that turn alone. *)
LEMMA TaskStatus ==
    ASSUME NEW t \in Turns, \A u \in Turns \ {t} : taskPc'[u] = taskPc[u] /\ events'[u] = events[u],
           victim' = victim
    PROVE  /\ Status' = [Status EXCEPT ![t] = Status'[t]]
           /\ Status'[t] = Status[t] => Status' = Status
<1>1. \A u \in Turns : Victim(u)' <=> Victim(u)
  BY DEF Victim
<1>2. \A u \in Turns \ {t} : Status'[u] = Status[u]
  BY <1>1, SameStatus
<1> QED
  BY <1>2, StatusUpdate

(* The first part of a concatenation. *)
LEMMA ConcatPrefix ==
    ASSUME NEW S, NEW s \in Seq(S), NEW t \in Seq(S)
    PROVE  IsPrefix(s, s \o t)
<1> DEFINE n == Len(s)  u == s \o t  v == SubSeq(u, 1, n)
<1>1. n \in Nat /\ DOMAIN s = 1 .. n /\ Len(t) \in Nat
  BY LenProperties
<1>2. /\ u \in Seq(S) /\ Len(u) = n + Len(t)
      /\ \A i \in 1 .. n + Len(t) : u[i] = IF i <= n THEN s[i] ELSE t[i - n]
  BY ConcatProperties
<1> HIDE DEF u, n
<1>3. \A i \in 1 .. n : i \in 1 .. n + Len(t) /\ i <= n
  BY <1>1
<1>4. \A i \in 1 .. n : u[i] = s[i] /\ u[i] \in S
  BY <1>1, <1>2, <1>3
<1>5. v \in Seq(S) /\ Len(v) = n /\ \A i \in 1 .. n : v[i] = u[i]
  <2>1. 1 \in Int /\ n \in Int /\ (1 <= n => (n - 1) + 1 = n) /\ (~(1 <= n) => n = 0) /\ n - 1 + 1 = n
        /\ \A i \in 1 .. n : 1 + i - 1 = i
    BY <1>1
  <2>2. /\ v \in Seq(S) /\ Len(v) = IF 1 <= n THEN n - 1 + 1 ELSE 0
        /\ \A i \in 1 .. (n - 1 + 1) : v[i] = u[1 + i - 1]
    BY <1>4, <2>1, SubSeqProperties
  <2> QED
    BY <2>1, <2>2
<1>6. v \in Seq(S) /\ Len(v) = Len(s) /\ \A i \in 1 .. Len(v) : v[i] = s[i]
  BY <1>4, <1>5 DEF n
<1>7. SubSeq(s, 1, n) = s /\ n <= Len(u)
  BY <1>1, <1>2, SubSeqFull DEF n
<1> HIDE DEF v
<1>8. v = s
  BY <1>6, SeqEqual
<1> QED
  BY <1>7, <1>8 DEF IsPrefix, n, u, v

(* The conversation gains items that were in no other place. *)
LEMMA HistoryGains ==
    ASSUME Placed, Placed', NEW S, NEW s \in Seq(Items), ToSet(s) \subseteq S,
           history' = history \o s, Status' = Status, events' = events
    PROVE  Lifecycle!Gains(S)
<1>1. history \in Seq(Items) /\ IsInjective(history')
  BY Places, QueueAt, QueueAtNext DEF Placed, Apart
<1>2. ToSet(history') = ToSet(history) \cup ToSet(s) /\ IsPrefix(history, history')
  BY <1>1, ToSetConcat, ConcatPrefix
<1>3. ToSet(history') \subseteq ToSet(history) \cup S
  BY <1>2
<1>4. /\ Lifecycle!IsPrefix(history, history') /\ Lifecycle!IsInjective(history')
      /\ Lifecycle!ToSet(history') \subseteq Lifecycle!ToSet(history) \cup S
  BY <1>1, <1>2, <1>3
     DEF Lifecycle!IsPrefix, IsPrefix, Lifecycle!IsInjective, IsInjective, Lifecycle!ToSet, ToSet
<1> QED
  BY <1>4 DEF Lifecycle!Gains

(* A task records the items of place b. *)
LEMMA TaskRecords ==
    ASSUME Placed, Placed', NEW b \in Place, NEW blocked, Record(Queues[b], blocked),
           NEW t \in Turns, Status[t] \in {"running", "ending", "aborting"},
           events[t] = <<"started">>, Status' = Status, events' = events
    PROVE  Lifecycle!LifeNext
<1> DEFINE s == Accepted(Queues[b], blocked)
<1>1. Queues[b] \in Seq(Items) /\ IsInjective(Queues[b])
  BY DEF Placed, Apart
<1>2. s \in Seq(Items) /\ history' = history \o s
  BY <1>1, AcceptedIs DEF Record
<1> HIDE DEF s
<1>3. ToSet(s) \subseteq Items
  BY <1>2 DEF ToSet
<1>4. Lifecycle!Gains(Items)
  BY <1>2, <1>3, HistoryGains
<1>5. Lifecycle!Record(t)
  BY <1>4 DEF Lifecycle!Record
<1> QED
  BY <1>5 DEF Lifecycle!LifeNext

(* A step of a task is a step of the life of its turn, or no step of it. *)
LEMMA TaskLife ==
    ASSUME LifeInv, LifeInv', NEW t \in Turns, TaskStep(t)
    PROVE  Lifecycle!LifeNext \/ UNCHANGED <<Status, events, history>>
<1>0. /\ IInv /\ IInv' /\ CancelledHasVictim /\ Placed /\ Placed' /\ LeftoverHasState
      /\ taskPc \in [Turns -> Working \cup Finishing \cup {"none", "dead"}]
      /\ cancelled \in [Turns -> BOOLEAN] /\ DOMAIN events = Turns
      /\ StatusFacts
  BY StatusIs DEF LifeInv, IInv, ControlTyped
<1>f. StatusFacts'
  <2>1. LifeInv' => StatusFacts'
    BY StatusIs, PTL
  <2> QED
    BY <2>1
<1>v. victim' = victim
  BY DEF TaskStep, Begin, RecordInput, DropInput, Drain, RecordPending, OutputMessage,
     OutputToolCall, SamplingEnds, RetryWithoutImages, FollowUp, NoFollowUp, RunTurnAgain,
     RunCompact, TaskFinished, RecordLeftover, EmitTerminal, ClearActive, procVars
(* A task that goes on working. *)
<1>w. ASSUME Live(t), NEW l \in Working, taskPc' = [taskPc EXCEPT ![t] = l], cancelled' = cancelled
      PROVE  /\ Status'[t] = Status[t] /\ Status[t] \in {"running", "aborting"}
             /\ \A u \in Turns \ {t} : taskPc'[u] = taskPc[u]
  <2>1. taskPc'[t] = l /\ \A u \in Turns \ {t} : taskPc'[u] = taskPc[u]
    BY <1>w, <1>0
  <2>2. Live(t)'
    BY <2>1 DEF Live
  <2>3. CASE cancelled[t]
    BY <1>w, <2>1, <2>2, <2>3, <1>0, <1>f DEF StatusFacts
  <2>4. CASE ~cancelled[t]
    BY <1>w, <2>1, <2>2, <2>4, <1>0, <1>f DEF StatusFacts
  <2> QED
    BY <2>3, <2>4
<1>x. ASSUME Live(t), NEW l \in Working, taskPc' = [taskPc EXCEPT ![t] = l], cancelled' = cancelled,
             events' = events
      PROVE  Status' = Status
  BY <1>w, <1>x, <1>v, TaskStatus
<1>1. CASE Begin(t)
  <2>1. Live(t) /\ events[t] = <<>> /\ cancelled' = cancelled /\ history' = history
    BY <1>1, <1>0 DEF Begin, IInv, EventsMatchTask, Live, Working
  <2>2. PICK l \in Working : taskPc' = [taskPc EXCEPT ![t] = l]
    BY <1>1 DEF Begin, Goto, Working
  <2>3. events' = [events EXCEPT ![t] = Append(@, "started")]
    BY <1>1 DEF Begin, Emit
  <2>4. \A u \in Turns \ {t} : events'[u] = events[u]
    BY <2>3, <1>0
  <2>5. Status' = Status /\ Status[t] \in {"running", "aborting"}
    BY <2>1, <2>2, <2>4, <1>w, <1>v, TaskStatus
  <2>6. Lifecycle!Announce(t)
    BY <2>1, <2>3, <2>5 DEF Lifecycle!Announce, Lifecycle!Sends
  <2> QED
    BY <2>6 DEF Lifecycle!LifeNext
<1>2. CASE RecordInput(t)
  <2>1. Live(t) /\ events[t] = <<"started">> /\ UNCHANGED <<cancelled, events>>
    BY <1>2, <1>0 DEF RecordInput, IInv, EventsMatchTask, Live, Steps, Working
  <2>2. PICK l \in Working : taskPc' = [taskPc EXCEPT ![t] = l]
    BY <1>2 DEF RecordInput, Goto, Working
  <2>3. PICK blocked : Record(run[t].input, blocked)
    BY <1>2 DEF RecordInput
  <2>4. Status' = Status /\ Status[t] \in {"running", "aborting"}
    BY <2>1, <2>2, <1>w, <1>x
  <2> DEFINE b == <<"input", t>>
  <2>5. b \in Place /\ Record(Queues[b], blocked)
    BY <2>3, Places, QueueAt
  <2> HIDE DEF b
  <2> QED
    BY <1>0, <2>1, <2>4, <2>5, TaskRecords
<1>3. CASE RecordPending(t)
  <2>1. Live(t) /\ events[t] = <<"started">> /\ UNCHANGED <<cancelled, events>>
    BY <1>3, <1>0 DEF RecordPending, IInv, EventsMatchTask, Live, Steps, Working
  <2>2. PICK l \in Working : taskPc' = [taskPc EXCEPT ![t] = l]
    BY <1>3 DEF RecordPending, Goto, Working
  <2>3. PICK blocked : Record(run[t].batch, blocked)
    BY <1>3 DEF RecordPending
  <2>4. Status' = Status /\ Status[t] \in {"running", "aborting"}
    BY <2>1, <2>2, <1>w, <1>x
  <2> DEFINE b == <<"batch", t>>
  <2>5. b \in Place /\ Record(Queues[b], blocked)
    BY <2>3, Places, QueueAt
  <2> HIDE DEF b
  <2> QED
    BY <1>0, <2>1, <2>4, <2>5, TaskRecords
<1>4. CASE DropInput(t) \/ Drain(t) \/ SamplingEnds(t) \/ RetryWithoutImages(t) \/ FollowUp(t)
           \/ NoFollowUp(t) \/ RunTurnAgain(t) \/ RunCompact(t)
  <2>1. Live(t) /\ UNCHANGED <<cancelled, events, history>>
    BY <1>4 DEF DropInput, Drain, SamplingEnds, RetryWithoutImages, FollowUp, NoFollowUp,
       RunTurnAgain, RunCompact, logVars, Live, Working
  <2>2. PICK l \in Working : taskPc' = [taskPc EXCEPT ![t] = l]
    BY <1>4 DEF DropInput, Drain, SamplingEnds, RetryWithoutImages, FollowUp, NoFollowUp,
       RunTurnAgain, RunCompact, Goto, Working
  <2> QED
    BY <2>1, <2>2, <1>x
<1>5. CASE OutputMessage(t) \/ OutputToolCall(t)
  <2>1. UNCHANGED <<taskPc, events, history>>
    BY <1>5 DEF OutputMessage, OutputToolCall, logVars, taskVars
  <2>2. \A u \in Turns : Victim(u)' <=> Victim(u)
    BY <1>v DEF Victim
  <2> QED
    BY <2>1, <2>2, SameStatus, StatusUpdate
<1>6. CASE TaskFinished(t)
  <2>1. /\ Live(t) /\ events[t] = <<"started">> /\ UNCHANGED <<events, history>>
    BY <1>6, <1>0 DEF TaskFinished, IInv, EventsMatchTask, Live, Steps, Working, logVars
  <2>2. CASE cancelled[t]
    <3>1. taskPc' = [taskPc EXCEPT ![t] = "dead"]
      BY <1>6, <2>2 DEF TaskFinished, LeavesQuietly, Ends, Goto
    <3>2. Victim(t) /\ Victim(t)'
      BY <2>2, <1>0, <1>v DEF CancelledHasVictim, Victim
    <3>3. Status'[t] = Status[t]
      BY <3>2, <1>0, <1>f DEF StatusFacts
    <3>4. \A u \in Turns \ {t} : taskPc'[u] = taskPc[u]
      BY <3>1, <1>0
    <3> QED
      BY <2>1, <3>3, <3>4, <1>v, TaskStatus
  <2>3. CASE ~cancelled[t]
    <3>1. activeTask = t
      BY <2>1, <2>3, <1>0 DEF IInv, RunningTaskIsActive
    <3>2. taskPc' = [taskPc EXCEPT ![t] = "leftover"]
      BY <1>6, <2>3, <3>1, Bounds DEF TaskFinished, LeavesQuietly, Goto
    <3>3. taskPc'[t] = "leftover" /\ \A u \in Turns \ {t} : taskPc'[u] = taskPc[u]
      BY <3>2, <1>0
    <3>4. Status[t] = "running" /\ Status'[t] = "ending"
      BY <2>1, <2>3, <3>3, <1>0, <1>f DEF StatusFacts
    <3>5. Status' = [Status EXCEPT ![t] = "ending"]
      BY <2>1, <3>3, <3>4, <1>v, TaskStatus
    <3>6. Lifecycle!Finish(t)
      BY <2>1, <3>4, <3>5 DEF Lifecycle!Finish, Lifecycle!Becomes
    <3> QED
      BY <3>6 DEF Lifecycle!LifeNext
  <2> QED
    BY <2>2, <2>3
<1>7. CASE RecordLeftover(t)
  <2>1. /\ taskPc[t] = "leftover" /\ taskPc' = [taskPc EXCEPT ![t] = "terminal"]
        /\ events[t] = <<"started">> /\ events' = events
    BY <1>7, <1>0 DEF RecordLeftover, Goto, IInv, EventsMatchTask, Steps
  <2>2. taskPc'[t] = "terminal" /\ \A u \in Turns \ {t} : taskPc'[u] = taskPc[u]
    BY <2>1, <1>0
  <2>3. Status[t] = "ending" /\ Status'[t] = "ending"
    BY <2>1, <2>2, <1>0, <1>f DEF StatusFacts
  <2>4. Status' = Status
    BY <2>1, <2>2, <2>3, <1>v, TaskStatus
  <2>5. PICK blocked : Record(pending[run[t].state], blocked)
    BY <1>7 DEF RecordLeftover, Leftover
  <2> DEFINE b == <<"pending", run[t].state>>
  <2>6. b \in Place /\ Record(Queues[b], blocked)
    BY <2>1, <2>5, <1>0, Places, QueueAt DEF LeftoverHasState
  <2> HIDE DEF b
  <2> QED
    BY <1>0, <2>1, <2>3, <2>4, <2>6, TaskRecords
<1>8. CASE EmitTerminal(t)
  <2>1. /\ taskPc[t] = "terminal" /\ taskPc' = [taskPc EXCEPT ![t] = "clear"]
        /\ history' = history
    BY <1>8 DEF EmitTerminal, Goto
  <2>2. taskPc'[t] = "clear" /\ \A u \in Turns \ {t} : taskPc'[u] = taskPc[u]
    BY <2>1, <1>0
  <2>3. Lifecycle!Sends(t, "complete") \/ Lifecycle!Sends(t, "aborted")
    BY <1>8 DEF EmitTerminal, Emit, Lifecycle!Sends
  <2>4. \A u \in Turns \ {t} : events'[u] = events[u]
    BY <2>3, <1>0 DEF Lifecycle!Sends
  <2>5. events'[t] \in Closed
    BY <2>2, <1>0 DEF IInv, EventsMatchTask
  <2>6. Status[t] = "ending" /\ Status'[t] = "over"
    BY <2>1, <2>2, <2>5, <1>0, <1>f DEF StatusFacts
  <2>7. Status' = [Status EXCEPT ![t] = "over"]
    BY <2>2, <2>4, <2>6, <1>v, TaskStatus
  <2>8. Lifecycle!Report(t)
    BY <2>1, <2>3, <2>6, <2>7 DEF Lifecycle!Report, Lifecycle!Becomes
  <2> QED
    BY <2>8 DEF Lifecycle!LifeNext
<1>9. CASE ClearActive(t)
  <2>1. /\ taskPc[t] = "clear" /\ taskPc' = [taskPc EXCEPT ![t] = "dead"]
        /\ events[t] \in Closed /\ UNCHANGED <<events, history>>
    BY <1>9, <1>0 DEF ClearActive, Ends, Goto, logVars, IInv, EventsMatchTask
  <2>2. taskPc'[t] = "dead" /\ \A u \in Turns \ {t} : taskPc'[u] = taskPc[u]
    BY <2>1, <1>0
  <2>3. Status'[t] = Status[t]
    BY <2>1, <2>2, <1>0, <1>f DEF StatusFacts
  <2> QED
    BY <2>1, <2>2, <2>3, <1>v, TaskStatus
<1> QED
  BY <1>1, <1>2, <1>3, <1>4, <1>5, <1>6, <1>7, <1>8, <1>9 DEF TaskStep

LEMMA StatusUnmoved ==
    ASSUME UNCHANGED <<taskPc, events, victim>>
    PROVE  Status' = Status
<1>1. \A u \in Turns : Victim(u)' <=> Victim(u)
  BY DEF Victim
<1> QED
  BY <1>1, SameStatus, StatusUpdate

(* A turn that runs is the one active_turn holds, and nobody aborts it. *)
LEMMA RunningIsActive ==
    ASSUME LifeInv
    PROVE  /\ \A u \in Turns : Status[u] = "running" => activeTask = u
           /\ activeTask # 0 =>
                /\ activeTask \in Turns /\ Live(activeTask) /\ ~cancelled[activeTask]
                /\ ~Victim(activeTask)
                /\ Status[activeTask] = "running" /\ events[activeTask] \in Opened
<1>0. IInv /\ CancelledHasVictim /\ VictimsAbort /\ StatusFacts
  BY StatusIs DEF LifeInv
<1>1. ASSUME NEW u \in Turns, Status[u] = "running" PROVE activeTask = u
  <2>1. Live(u) /\ ~Victim(u)
    BY <1>1 DEF Status
  <2>2. ~cancelled[u]
    BY <2>1, <1>0 DEF CancelledHasVictim, Victim
  <2> QED
    BY <2>1, <2>2, <1>0 DEF IInv, RunningTaskIsActive
<1>2. ASSUME activeTask # 0
      PROVE  /\ activeTask \in Turns /\ Live(activeTask) /\ ~cancelled[activeTask]
             /\ ~Victim(activeTask)
             /\ Status[activeTask] = "running" /\ events[activeTask] \in Opened
  <2>1. activeTask \in Turns /\ Live(activeTask) /\ ~cancelled[activeTask]
    BY <1>0, <1>2, Bounds DEF IInv, ControlTyped, ActiveTaskIsLive
  <2>2. taskPc[activeTask] # "dead"
    BY <2>1 DEF Live, Working
  <2>3. ~Victim(activeTask)
    BY <2>1, <2>2, <1>0, VictimIs
  <2>4. events[activeTask] \in Opened
    BY <2>1, <1>0 DEF IInv, EventsMatchTask, Live, Steps, Working, Opened
  <2> QED
    BY <2>1, <2>3, <2>4, <1>0 DEF StatusFacts
<1> QED
  BY <1>1, <1>2

(* active_turn is taken to abort its task. *)
LEMMA TakenLife ==
    ASSUME LifeInv, LifeInv', NEW p \in Procs, NEW l, pc[p] \notin Aborting, activeTask # 0,
           TakeForAbort(p, l), UNCHANGED <<taskPc, events, history>>
    PROVE  Lifecycle!LifeNext
<1>t. PICK t \in Turns : t = activeTask /\ ~Victim(t) /\ Status[t] = "running"
  BY RunningIsActive
<1>0. VictimsAbort /\ victim \in [Procs -> 0 .. MaxTurns]
  BY DEF LifeInv, IInv, ControlTyped
<1>f. StatusFacts'
  <2>1. LifeInv' => StatusFacts'
    BY StatusIs, PTL
  <2> QED
    BY <2>1
<1>1. victim' = [victim EXCEPT ![p] = t] /\ victim[p] = 0
  BY <1>0, <1>t DEF TakeForAbort, VictimsAbort
<1>2. Victim(t)'
  BY <1>0, <1>1 DEF Victim
<1>3. ASSUME NEW u \in Turns \ {t} PROVE Victim(u)' <=> Victim(u)
  <2>1. u # 0
    BY Bounds
  <2>2. \A q \in Procs : victim'[q] = u <=> victim[q] = u
    BY <1>0, <1>1, <1>3, <2>1
  <2> QED
    BY <2>2 DEF Victim
<1>4. \A u \in Turns \ {t} : Status'[u] = Status[u]
  BY <1>3, SameStatus
<1>5. Status'[t] = "aborting"
  BY <1>0, <1>2, <1>f DEF StatusFacts
<1>6. Status' = [Status EXCEPT ![t] = "aborting"]
  BY <1>0, <1>4, <1>5, StatusUpdate
<1>7. Lifecycle!Take(t)
  BY <1>t, <1>6 DEF Lifecycle!Take, Lifecycle!Becomes
<1> QED
  BY <1>0, <1>7 DEF Lifecycle!LifeNext

(* A task is installed: a turn starts, or takes the place of another. *)
LEMMA InstalledLife ==
    ASSUME LifeInv, LifeInv', NEW p \in Procs, StartInstall(p)
    PROVE  Lifecycle!LifeNext
<1>0. /\ IInv /\ StatusFacts /\ taskPc \in [Turns -> Working \cup Finishing \cup {"none", "dead"}]
      /\ cancelled \in [Turns -> BOOLEAN]
  BY StatusIs DEF LifeInv, IInv, ControlTyped
<1>f. StatusFacts'
  <2>1. LifeInv' => StatusFacts'
    BY StatusIs, PTL
  <2> QED
    BY <2>1
<1>1. pc[p] = "install" /\ UNCHANGED <<events, history, cancelled, victim>>
  BY DEF StartInstall
<1>2. PICK t \in Turns : t = turn[p] /\ taskPc[t] = "none" /\ Status[t] = "new"
  <2>1. turn[p] \in 1 .. turns /\ taskPc[turn[p]] = "none" /\ turns \in 0 .. MaxTurns
    BY <1>0, <1>1 DEF IInv, StartedTurnIsNew, Starting, ControlTyped
  <2>2. turn[p] \in Turns
    BY <2>1, Bounds
  <2> QED
    BY <2>1, <2>2, <1>0 DEF StatusFacts
<1>3. ~cancelled[t]
  BY <1>0, <1>2 DEF IInv, CancelledIsLive, Live, Working
<1>a. PICK a : a = activeTask
  OBVIOUS
<1>4. taskPc' = [u \in Turns |-> CASE u = t -> "begin"
                                   [] u = a /\ u # t -> "dead"
                                   [] OTHER -> taskPc[u]]
  BY <1>2, <1>a DEF StartInstall, Install
<1>5. /\ taskPc'[t] = "begin" /\ (a # t /\ a \in Turns => taskPc'[a] = "dead")
      /\ \A u \in Turns : u # t /\ u # a => taskPc'[u] = taskPc[u]
  BY <1>2, <1>4
<1>6. Status'[t] = "running"
  <2>1. Live(t)' /\ ~cancelled'[t]
    BY <1>1, <1>3, <1>5 DEF Live, Working
  <2> QED
    BY <2>1, <1>2, <1>f DEF StatusFacts
<1>7. \A u \in Turns : Victim(u)' <=> Victim(u)
  BY <1>1 DEF Victim
<1>8. \A u \in Turns : u # t /\ u # a => Status'[u] = Status[u]
  BY <1>1, <1>5, <1>7, SameStatus
<1>9. CASE a = 0
  <2>1. \A u \in Turns : u # a /\ Status[u] # "running"
    BY <1>9, <1>a, Bounds, RunningIsActive
  <2>2. Status' = [Status EXCEPT ![t] = "running"]
    BY <1>2, <1>6, <1>8, <2>1, StatusUpdate
  <2>3. Lifecycle!Start(t)
    BY <1>1, <1>2, <2>1, <2>2 DEF Lifecycle!Start, Lifecycle!Becomes
  <2> QED
    BY <1>2, <2>3 DEF Lifecycle!LifeNext
<1>10. CASE a # 0
  <2>1. a \in Turns /\ ~Victim(a) /\ Status[a] = "running" /\ events[a] \in Opened
    BY <1>10, <1>a, RunningIsActive
  <2>2. a # t
    BY <1>2, <2>1
  <2>3. taskPc'[a] = "dead" /\ events'[a] \in Opened /\ ~Victim(a)'
    BY <1>1, <1>5, <1>7, <2>1, <2>2
  <2>4. Status'[a] = "lost"
    BY <2>1, <2>3, <1>f DEF StatusFacts
  <2>5. Status = [u \in Turns |-> Status[u]] /\ Status' = [u \in Turns |-> Status'[u]]
    BY DEF Status
  <2>6. Status' = [Status EXCEPT ![t] = "running", ![a] = "lost"]
    BY <1>2, <1>6, <1>8, <2>1, <2>2, <2>4, <2>5
  <2>7. Lifecycle!Replace(t, a)
    BY <1>1, <1>2, <2>1, <2>6 DEF Lifecycle!Replace
  <2> QED
    BY <1>2, <2>1, <2>7 DEF Lifecycle!LifeNext
<1> QED
  BY <1>9, <1>10

(* The steps of a call that has begun. *)
LEMMA CallLife ==
    ASSUME LifeInv, LifeInv', NEW p \in Procs, Continue(p)
    PROVE  Lifecycle!LifeNext \/ UNCHANGED <<Status, events, history>>
<1>0. /\ IInv /\ VictimsAbort /\ Placed /\ Placed' /\ InjectsOnly /\ StatusFacts
      /\ taskPc \in [Turns -> Working \cup Finishing \cup {"none", "dead"}]
      /\ victim \in [Procs -> 0 .. MaxTurns] /\ DOMAIN events = Turns
  BY StatusIs DEF LifeInv, IInv, ControlTyped
<1>f. StatusFacts'
  <2>1. LifeInv' => StatusFacts'
    BY StatusIs, PTL
  <2> QED
    BY <2>1
<1>1. CASE StartInstall(p)
  BY <1>1, InstalledLife
<1>2. CASE AbortAll(p)
  <2>1. UNCHANGED <<taskPc, events, history>> /\ pc[p] \notin Aborting
    BY <1>2 DEF AbortAll, logVars, Aborting
  <2>2. CASE activeTask = 0
    <3>1. victim' = victim
      BY <1>2, <2>2 DEF AbortAll, NothingToAbort
    <3> QED
      BY <2>1, <3>1, StatusUnmoved
  <2>3. CASE activeTask # 0
    <3>1. TakeForAbort(p, local[p])
      BY <1>2, <2>3 DEF AbortAll
    <3> QED
      BY <2>1, <2>3, <3>1, TakenLife
  <2> QED
    BY <2>2, <2>3
<1>3. CASE AbortTask(p)
  <2>1. PICK t \in Turns :
           /\ t = victim[p] /\ taskPc' = [taskPc EXCEPT ![t] = "dead"]
           /\ UNCHANGED <<events, history, victim>>
    BY <1>3, <1>0 DEF AbortTask, Killed, Ends, Goto, logVars, IInv, VictimIsUnreported, Aborting
  <2>2. Victim(t) /\ Victim(t)'
    BY <2>1 DEF Victim
  <2>3. Status'[t] = Status[t]
    BY <2>1, <2>2, <1>0, <1>f DEF StatusFacts
  <2>4. \A u \in Turns \ {t} : taskPc'[u] = taskPc[u]
    BY <2>1, <1>0
  <2> QED
    BY <2>1, <2>3, <2>4, TaskStatus
<1>4. CASE EmitAborted(p)
  <2>1. PICK t \in Turns :
           /\ t = victim[p] /\ events[t] \in Opened /\ taskPc[t] = "dead"
           /\ events' = [events EXCEPT ![t] = Append(@, "aborted")]
           /\ victim' = [victim EXCEPT ![p] = 0] /\ UNCHANGED <<taskPc, history>>
    BY <1>4, <1>0 DEF EmitAborted, Emit, taskVars, IInv, VictimIsUnreported, Aborting
  <2>2. Victim(t)
    BY <2>1 DEF Victim
  <2>3. \A u \in Turns \ {t}, q \in Procs : victim'[q] = u <=> victim[q] = u
    BY <2>1, <1>0, Bounds
  <2>4. \A u \in Turns \ {t} : Victim(u)' <=> Victim(u)
    BY <2>3 DEF Victim
  <2>5. events'[t] = Append(events[t], "aborted") /\ \A u \in Turns \ {t} : events'[u] = events[u]
    BY <2>1, <1>0
  <2>6. events'[t] \in Closed
    BY <2>1, <2>5, Events DEF Opened, Closed
  <2>7. Status[t] = "aborting" /\ Status'[t] = "over"
    BY <2>1, <2>2, <2>6, <1>0, <1>f DEF StatusFacts
  <2>8. \A u \in Turns \ {t} : Status'[u] = Status[u]
    BY <2>1, <2>4, <2>5, SameStatus
  <2>9. Status' = [Status EXCEPT ![t] = "over"]
    BY <2>1, <2>7, <2>8, StatusUpdate
  <2>10. Lifecycle!Report(t)
    BY <2>1, <2>7, <2>9 DEF Lifecycle!Report, Lifecycle!Becomes, Lifecycle!Sends
  <2> QED
    BY <2>1, <2>10 DEF Lifecycle!LifeNext
<1>5. CASE RecordItems(p)
  <2>1. /\ UNCHANGED <<taskPc, events, victim>> /\ history' = history \o local[p].items
        /\ ToSet(local[p].items) \subseteq Injections
    BY <1>5, <1>0 DEF RecordItems, taskVars, InjectsOnly
  <2>2. local[p].items \in Seq(Items)
    BY <1>0, Places, QueueAt DEF Placed, Apart
  <2>3. Status' = Status
    BY <2>1, StatusUnmoved
  <2>4. Lifecycle!Gains(Injections)
    BY <1>0, <2>1, <2>2, <2>3, HistoryGains
  <2> QED
    BY <2>4 DEF Lifecycle!LifeNext
<1>6. CASE ~StartInstall(p) /\ ~AbortAll(p) /\ ~AbortTask(p) /\ ~EmitAborted(p) /\ ~RecordItems(p)
  <2>1. UNCHANGED <<taskPc, events, victim, history>>
    BY <1>6 DEF Continue, StartTake, StartJoin, MaybeStart, ReserveTurn, ClearPending, TryReserve,
       TryCheck, ClearReservedIdleTurn, TryConfirm, TryExtend, taskVars, logVars
  <2> QED
    BY <2>1, StatusUnmoved
<1> QED
  BY <1>1, <1>2, <1>3, <1>4, <1>5, <1>6

(* Every step of the session is a step of the lives of its turns, or none. *)
LEMMA LifeStep ==
    ASSUME LifeInv, LifeInv', [Next]_vars
    PROVE  [Lifecycle!LifeNext]_(Lifecycle!lifeVars)
<1>1. CASE UNCHANGED vars
  <2>1. UNCHANGED <<taskPc, events, victim, history>>
    BY <1>1 DEF vars, logVars, taskVars, procVars
  <2> QED
    BY <2>1, StatusUnmoved DEF Lifecycle!lifeVars
<1>2. ASSUME NEW t \in Turns, TaskStep(t) PROVE Lifecycle!LifeNext \/ UNCHANGED Lifecycle!lifeVars
  BY <1>2, TaskLife DEF Lifecycle!lifeVars
<1>3. ASSUME NEW p \in Procs, Continue(p) PROVE Lifecycle!LifeNext \/ UNCHANGED Lifecycle!lifeVars
  BY <1>3, CallLife DEF Lifecycle!lifeVars
<1>4. ASSUME Submission \/ ShutdownComplete PROVE UNCHANGED Lifecycle!lifeVars
  <2>1. UNCHANGED <<taskPc, events, victim, history>>
    BY <1>4 DEF Submission, UserInput, InterAgentCommunication, Interrupt, Compact, Shutdown,
       ShutdownComplete, taskVars, logVars
  <2> QED
    BY <2>1, StatusUnmoved DEF Lifecycle!lifeVars
<1>5. ASSUME NEW p \in Clients, Call(p) PROVE Lifecycle!LifeNext \/ UNCHANGED Lifecycle!lifeVars
  <2>1. CASE AbortTurnIfActive(p)
    <3>1. /\ activeTask # 0 /\ pc[p] \notin Aborting /\ TakeForAbort(p, NoLocal) /\ p \in Procs
          /\ UNCHANGED <<taskPc, events, history>>
      BY <1>5, <2>1, Bounds DEF AbortTurnIfActive, Steerable, Aborting, logVars
    <3> QED
      BY <3>1, TakenLife
  <2>2. CASE ~AbortTurnIfActive(p)
    <3>1. UNCHANGED <<taskPc, events, victim, history>>
      BY <1>5, <2>2 DEF Call, SteerInput, InjectNoNewTurn, TryStartTurnIfIdle, taskVars, logVars,
         procVars
    <3> QED
      BY <3>1, StatusUnmoved DEF Lifecycle!lifeVars
  <2> QED
    BY <2>1, <2>2
<1> QED
  BY <1>1, <1>2, <1>3, <1>4, <1>5 DEF Next

LEMMA LifeStart == Init => Lifecycle!LifeInit
<1> SUFFICES ASSUME Init PROVE Lifecycle!LifeInit
  OBVIOUS
<1>1. Status = [t \in Turns |-> "new"]
  BY DEF Init, Status
<1> QED
  BY <1>1 DEF Init, Lifecycle!LifeInit

(* The session implements TurnLifecycle for every mix of callers: one turn *)
(* runs at a time; each is reported once, by its own end or by the caller  *)
(* that took it out of active_turn, and start_task's replacement is the    *)
(* only way to lose one; what is recorded is recorded once, for a turn     *)
(* that was announced and not yet reported, or as an injection.            *)
THEOREM ImplementsLifecycleHolds == Spec => ImplementsLifecycle
<1>1. LifeInv /\ LifeInv' /\ [Next]_vars => [Lifecycle!LifeNext]_(Lifecycle!lifeVars)
  BY LifeStep
<1> QED
  BY <1>1, LifeStart, LifeInvariant, PTL DEF Spec, ImplementsLifecycle, Lifecycle!LifeSpec
=============================================================================
