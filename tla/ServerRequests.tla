--------------------------- MODULE ServerRequests ---------------------------
(***************************************************************************)
(* Requests of the app-server to its clients (approvals, user input,       *)
(* elicitations) for one thread: the callback table of                     *)
(* OutgoingMessageSender, the subscriptions of ThreadStateManager, the     *)
(* thread listener that serialises core events with its commands, the task *)
(* that awaits each answer, and the two ways a thread goes away: unloading *)
(* by its own listener and removal (archive, delete) by a request handler. *)
(*                                                                         *)
(* A message to a connection is applied to what that client shows at the   *)
(* step that sends it: the transport keeps the order of one connection.    *)
(* The transport channel closes only with the process; its send errors are *)
(* left out.                                                               *)
(***************************************************************************)
EXTENDS Naturals, Sequences, FiniteSets

CONSTANTS
    Conns,      \* connections
    Starter,    \* the connection that started the thread
    MaxRequests,\* bound: requests the session makes
    MaxTurns,   \* bound: turns the session starts
    MaxCmds     \* bound: resumes queued for the listener

ASSUME StarterIsConn == Starter \in Conns
ASSUME BoundsAreNat == {MaxRequests, MaxTurns, MaxCmds} \subseteq Nat

Requests == 1..MaxRequests

VARIABLES
    live,       \* live_connections
    subs,       \* connection_ids of the thread's entry
    joined,     \* subscribers since the thread's start or through thread/resume
    pending,    \* request_id_to_callback
    outcome,    \* what a request's oneshot channel delivered
    task,       \* the on_..._response task of each request
    op,         \* the operation that task submitted to the session
    shown,      \* requests a client shows
    closed,     \* requests a client was told are resolved
    cmds,       \* listener_command_rx
    lst,        \* the listener task: where it is and what it is sending
    tx,         \* ThreadState::listener_command_tx is set
    cancelled,  \* cancel_tx was used
    events,     \* events of the session not yet read by the listener
    core,       \* the session: "idle", "running" a turn, "stopped"
    turns,      \* turns started
    active,     \* ThreadWatchManager: the thread is Active
    loaded,     \* ThreadManager knows the thread
    unloading,  \* the thread is in pending_thread_unloads
    removal     \* progress of prepare_thread_for_removal

connVars == <<live, subs, joined>>
callVars == <<pending, outcome, task, op>>
viewVars == <<shown, closed>>
listVars == <<cmds, lst, tx, cancelled>>
coreVars == <<events, core, turns, active>>
lifeVars == <<loaded, unloading, removal>>
vars == <<connVars, callVars, viewVars, listVars, coreVars, lifeVars>>

NoConn == "none"
At(pc) == [pc |-> pc, req |-> 0, to |-> {}, replay |-> <<>>, conn |-> NoConn]

Init ==
    /\ live = Conns
    /\ subs = {Starter}
    /\ joined = {Starter}
    /\ pending = {}
    /\ outcome = [r \in Requests |-> "none"]
    /\ task = [r \in Requests |-> "none"]
    /\ op = [r \in Requests |-> "none"]
    /\ shown = [c \in Conns |-> {}]
    /\ closed = [c \in Conns |-> {}]
    /\ cmds = <<>>
    /\ lst = At("select")
    /\ tx = TRUE
    /\ cancelled = FALSE
    /\ events = <<>>
    /\ core = "idle"
    /\ turns = 0
    /\ active = FALSE
    /\ loaded = TRUE
    /\ unloading = FALSE
    /\ removal = "none"

-----------------------------------------------------------------------------
(* The session (external): what it emits, in order.                        *)

AskEvent(r) == [kind |-> "ask", req |-> r]
TurnEvent(kind) == [kind |-> kind, req |-> 0]

StartTurn ==
    /\ core = "idle"
    /\ turns < MaxTurns
    /\ core' = "running"
    /\ turns' = turns + 1
    /\ events' = Append(events, TurnEvent("started"))
    /\ UNCHANGED <<connVars, callVars, viewVars, listVars, active, lifeVars>>

Ask ==
    /\ core = "running"
    /\ \E r \in Requests :
          /\ task[r] = "none"
          /\ \A q \in Requests : q < r => task[q] # "none"
          /\ task' = [task EXCEPT ![r] = "event"]
          /\ events' = Append(events, AskEvent(r))
    /\ UNCHANGED <<connVars, pending, outcome, op, viewVars, listVars, core,
                   turns, active, lifeVars>>

EndTurn ==
    /\ core = "running"
    /\ core' = "idle"
    /\ events' = Append(events, TurnEvent("ended"))
    /\ UNCHANGED <<connVars, callVars, viewVars, listVars, turns, active,
                   lifeVars>>

\* The shutdown of the session aborts a running turn.
Stopped(ev) == IF core = "running" THEN Append(ev, TurnEvent("ended")) ELSE ev

-----------------------------------------------------------------------------
(* The callback table. Taking a callback and delivering to it happen once: *)
(* whoever removes the entry is the only one that sends.                   *)

Deliver(rs, what) ==
    /\ pending' = pending \ rs
    /\ outcome' = [r \in Requests |-> IF r \in rs THEN what ELSE outcome[r]]

\* notify_client_response and notify_client_error. An answer whose callback
\* is gone is only logged.
Answer(c, what) ==
    /\ c \in live
    /\ \E r \in shown[c] \cap pending : Deliver({r}, what)
    /\ UNCHANGED <<connVars, task, op, viewVars, listVars, coreVars, lifeVars>>

\* cancel_requests_for_thread, with the turn-transition error or with none.
CancelRequests(what) == Deliver(pending, what)

-----------------------------------------------------------------------------
(* The listener task: one handler at a time, commands before events.       *)

Selecting == lst.pc = "select" /\ ~cancelled

\* send_request: the callback is inserted before anything is sent, and the
\* connections are the ones subscribed when the event was read.
AskClients ==
    /\ Selecting /\ cmds = <<>> /\ events # <<>> /\ Head(events).kind = "ask"
    /\ events' = Tail(events)
    /\ pending' = pending \cup {Head(events).req}
    /\ lst' = [At("sending") EXCEPT !.req = Head(events).req, !.to = subs]
    /\ UNCHANGED <<connVars, outcome, task, op, viewVars, cmds, tx, cancelled,
                   core, turns, active, lifeVars>>

SendRequest ==
    /\ lst.pc = "sending"
    /\ \E c \in lst.to :
          /\ lst' = [lst EXCEPT !.to = @ \ {c}]
          /\ shown' = [shown EXCEPT ![c] = @ \cup {lst.req}]
    /\ UNCHANGED <<connVars, callVars, closed, cmds, tx, cancelled, coreVars,
                   lifeVars>>

\* The task that awaits the answer is spawned after the request was sent.
SpawnTask ==
    /\ lst.pc = "sending" /\ lst.to = {}
    /\ task' = [task EXCEPT ![lst.req] = "await"]
    /\ lst' = At("select")
    /\ UNCHANGED <<connVars, pending, outcome, op, viewVars, cmds, tx,
                   cancelled, coreVars, lifeVars>>

\* TurnStarted, TurnComplete and TurnAborted abort the thread's requests.
TurnTransition ==
    /\ Selecting /\ cmds = <<>> /\ events # <<>> /\ Head(events).kind # "ask"
    /\ events' = Tail(events)
    /\ CancelRequests("transition")
    /\ active' = (Head(events).kind = "started")
    /\ UNCHANGED <<connVars, task, op, viewVars, listVars, core, turns,
                   lifeVars>>

\* ResolveServerRequest: told to whoever is subscribed now.
ResolveCommand ==
    /\ Selecting /\ cmds # <<>> /\ Head(cmds)[1] = "resolve"
    /\ cmds' = Tail(cmds)
    /\ lst' = [At("resolving") EXCEPT !.req = Head(cmds)[2], !.to = subs]
    /\ UNCHANGED <<connVars, callVars, viewVars, tx, cancelled, coreVars,
                   lifeVars>>

SendResolved ==
    /\ lst.pc = "resolving"
    /\ \E c \in lst.to :
          /\ lst' = [lst EXCEPT !.to = @ \ {c}]
          /\ shown' = [shown EXCEPT ![c] = @ \ {lst.req}]
          /\ closed' = [closed EXCEPT ![c] = @ \cup {lst.req}]
    /\ UNCHANGED <<connVars, callVars, cmds, tx, cancelled, coreVars, lifeVars>>

CompleteResolve ==
    /\ lst.pc = "resolving" /\ lst.to = {}
    /\ task' = [task EXCEPT ![lst.req] = "decide"]
    /\ lst' = At("select")
    /\ UNCHANGED <<connVars, pending, outcome, op, viewVars, cmds, tx,
                   cancelled, coreVars, lifeVars>>

\* handle_pending_thread_resume_request. Refused while the thread unloads,
\* skipped when the connection closed meanwhile; otherwise the connection is
\* subscribed and sent the thread's state, which replaces what it showed.
ResumeCommand ==
    /\ Selecting /\ cmds # <<>> /\ Head(cmds)[1] = "resume"
    /\ cmds' = Tail(cmds)
    /\ LET c == Head(cmds)[2] IN
          \/ /\ unloading \/ c \notin live
             /\ UNCHANGED <<connVars, lst, viewVars>>
          \/ /\ ~unloading /\ c \in live
             /\ subs' = subs \cup {c}
             /\ joined' = joined \cup {c}
             /\ shown' = [shown EXCEPT ![c] = {}]
             /\ lst' = [At("resumed") EXCEPT !.conn = c]
             /\ UNCHANGED <<live, closed>>
    /\ UNCHANGED <<callVars, tx, cancelled, coreVars, lifeVars>>

\* pending_requests_for_thread: the snapshot, in the order of the ids.
Ascending(rs) ==
    CHOOSE s \in [1..Cardinality(rs) -> rs] :
        \A i, j \in DOMAIN s : i < j => s[i] < s[j]

\* A resumed client is not sent what other clients were asked before.
ReplayNothing ==
    /\ lst.pc = "resumed"
    /\ lst' = [lst EXCEPT !.pc = "replaying"]
    /\ UNCHANGED <<connVars, callVars, viewVars, cmds, tx, cancelled, coreVars,
                   lifeVars>>

TakeSnapshot ==
    /\ lst.pc = "resumed"
    /\ lst' = [lst EXCEPT !.pc = "replaying", !.replay = Ascending(pending)]
    /\ UNCHANGED <<connVars, callVars, viewVars, cmds, tx, cancelled, coreVars,
                   lifeVars>>

\* A request of the snapshot is sent even when it was answered meanwhile.
Replay ==
    /\ lst.pc = "replaying"
    /\ \/ /\ lst.replay # <<>>
          /\ shown' = [shown EXCEPT ![lst.conn] = @ \cup {Head(lst.replay)}]
          /\ lst' = [lst EXCEPT !.replay = Tail(@)]
       \/ /\ lst.replay = <<>>
          /\ lst' = At("select")
          /\ UNCHANGED shown
    /\ UNCHANGED <<connVars, callVars, closed, cmds, tx, cancelled, coreVars,
                   lifeVars>>

-----------------------------------------------------------------------------
(* The end of a listener and of its thread.                                *)

\* remove_thread_state: the entry goes with its subscriptions, and the
\* listener's command sender with it.
RemoveThreadState ==
    /\ subs' = {}
    /\ joined' = {}
    /\ tx' = FALSE

CancelListener == cancelled' = (cancelled \/ (lst.pc # "gone" /\ tx))

\* The task breaks out of its loop: commands left in the channel are dropped.
Gone ==
    /\ lst' = At("gone")
    /\ cmds' = <<>>
    /\ tx' = FALSE
    /\ cancelled' = FALSE

ListenerCancelled ==
    /\ lst.pc = "select" /\ cancelled
    /\ Gone
    /\ UNCHANGED <<connVars, callVars, viewVars, coreVars, lifeVars>>

\* next_event fails once the session is gone.
ListenerEnds ==
    /\ Selecting /\ cmds = <<>> /\ events = <<>> /\ core = "stopped"
    /\ Gone
    /\ UNCHANGED <<connVars, callVars, viewVars, coreVars, lifeVars>>

\* No subscriber and inactive for THREAD_UNLOADING_DELAY, nothing else ready,
\* and the agent does not run. pending_thread_unloads is locked after that.
UnloadCheck ==
    /\ Selecting /\ cmds = <<>> /\ events = <<>>
    /\ subs = {} /\ ~active /\ core # "running"
    /\ ~unloading
    /\ lst' = At("unload")
    /\ UNCHANGED <<connVars, callVars, viewVars, cmds, tx, cancelled, coreVars,
                   lifeVars>>

\* The subscribers are not looked at again under the lock.
CommitUnchecked ==
    /\ lst.pc = "unload"
    /\ unloading' = TRUE
    /\ CancelRequests("dropped")
    /\ lst' = At("unloading")
    /\ UNCHANGED <<connVars, task, op, viewVars, cmds, tx, cancelled, coreVars,
                   loaded, removal>>

UnloadCommit ==
    /\ lst.pc = "unload"
    /\ \/ /\ subs = {} /\ ~active
          /\ unloading' = TRUE
          /\ CancelRequests("dropped")
          /\ lst' = At("unloading")
       \/ /\ subs # {} \/ active
          /\ lst' = At("select")
          /\ UNCHANGED <<unloading, pending, outcome>>
    /\ UNCHANGED <<connVars, task, op, viewVars, cmds, tx, cancelled, coreVars,
                   loaded, removal>>

UnloadRemoves ==
    /\ lst.pc = "unloading"
    /\ RemoveThreadState
    /\ Gone
    /\ UNCHANGED <<live, callVars, viewVars, coreVars, lifeVars>>

\* The spawned shutdown completes, or times out and leaves the thread loaded.
UnloadFinishes ==
    /\ unloading /\ lst.pc # "unloading"
    /\ unloading' = FALSE
    /\ \/ /\ loaded' = FALSE
          /\ core' = "stopped"
          /\ events' = Stopped(events)
       \/ UNCHANGED <<loaded, core, events>>
    /\ UNCHANGED <<connVars, callVars, viewVars, listVars, turns, active,
                   removal>>

\* prepare_thread_for_removal: out of the manager, then shut down (or timed
\* out), then finalize_thread_teardown: cancel, and only then remove.
RemoveThread ==
    /\ loaded
    /\ loaded' = FALSE
    /\ removal' = "shutdown"
    /\ UNCHANGED <<connVars, callVars, viewVars, listVars, coreVars, unloading>>

RemovalShutdown ==
    /\ removal = "shutdown"
    /\ removal' = "cancel"
    /\ \/ core' = "stopped" /\ events' = Stopped(events)
       \/ UNCHANGED <<core, events>>
    /\ UNCHANGED <<connVars, callVars, viewVars, listVars, turns, active,
                   loaded, unloading>>

Teardown ==
    /\ unloading' = FALSE
    /\ CancelRequests("dropped")
    /\ RemoveThreadState
    /\ CancelListener

TeardownCancels ==
    /\ removal = "cancel"
    /\ removal' = "remove"
    /\ unloading' = FALSE
    /\ CancelRequests("dropped")
    /\ UNCHANGED <<connVars, task, op, viewVars, listVars, coreVars, loaded>>

TeardownRemoves ==
    /\ removal = "remove"
    /\ removal' = "done"
    /\ RemoveThreadState
    /\ CancelListener
    /\ UNCHANGED <<live, callVars, viewVars, cmds, lst, coreVars, loaded,
                   unloading>>

-----------------------------------------------------------------------------
(* Requests of the clients.                                                *)

\* ensure_listener_task_running: a loaded thread without a listener gets one.
EnsureListener ==
    IF tx THEN UNCHANGED <<lst, tx>>
    ELSE lst.pc = "gone" /\ lst' = At("select") /\ tx' = TRUE

\* thread/resume of a loaded thread. One that is closing is refused at once.
ResumeThread(c) ==
    /\ c \in live /\ loaded
    /\ Len(cmds) < MaxCmds /\ <<"resume", c>> \notin {cmds[i] : i \in DOMAIN cmds}
    /\ EnsureListener
    /\ cmds' = Append(cmds, <<"resume", c>>)
    /\ UNCHANGED <<connVars, callVars, viewVars, cancelled, coreVars, lifeVars>>

\* ensure_conversation_listener, of a request that is not thread/resume: it
\* subscribes outside the listener and replays nothing.
Attach(c) ==
    /\ c \in live \ subs /\ loaded /\ ~unloading
    /\ subs' = subs \cup {c}
    /\ EnsureListener
    /\ UNCHANGED <<live, joined, callVars, viewVars, cmds, cancelled, coreVars,
                   lifeVars>>

\* thread/unsubscribe; for a thread that is no longer loaded it tears the
\* bookkeeping down again.
Unsubscribe(c) ==
    /\ c \in live
    /\ \/ /\ loaded
          /\ c \in subs
          /\ subs' = subs \ {c}
          /\ joined' = joined \ {c}
          /\ UNCHANGED <<pending, outcome, tx, cancelled, unloading>>
       \/ ~loaded /\ Teardown
    /\ UNCHANGED <<live, task, op, viewVars, cmds, lst, coreVars, loaded,
                   removal>>

\* connection_closed: the thread's requests stay pending, for a client that
\* comes back and resumes. The last subscriber of a thread that is no longer
\* loaded tears its bookkeeping down.
Disconnect(c) ==
    /\ c \in live
    /\ live' = live \ {c}
    /\ \/ /\ loaded \/ subs # {c}
          /\ subs' = subs \ {c}
          /\ joined' = joined \ {c}
          /\ UNCHANGED <<pending, outcome, tx, cancelled, unloading>>
       \/ ~loaded /\ subs = {c} /\ Teardown
    /\ UNCHANGED <<task, op, viewVars, cmds, lst, coreVars, loaded, removal>>

\* A new connection shows nothing and was told nothing.
Connect(c) ==
    /\ c \notin live
    /\ c \notin lst.to /\ c # lst.conn
    /\ <<"resume", c>> \notin {cmds[i] : i \in DOMAIN cmds}
    /\ live' = live \cup {c}
    /\ shown' = [shown EXCEPT ![c] = {}]
    /\ closed' = [closed EXCEPT ![c] = {}]
    /\ UNCHANGED <<subs, joined, callVars, listVars, coreVars, lifeVars>>

-----------------------------------------------------------------------------
(* The tasks that await an answer: on_..._response.                        *)

Settled(r) == task[r] = "await" /\ outcome[r] # "none"

\* The resolution is told before the listener's turn comes.
ResolveAtOnce(r) ==
    /\ Settled(r)
    /\ task' = [task EXCEPT ![r] = "decide"]
    /\ shown' = [c \in Conns |-> IF c \in subs THEN shown[c] \ {r} ELSE shown[c]]
    /\ closed' = [c \in Conns |-> IF c \in subs THEN closed[c] \cup {r} ELSE closed[c]]
    /\ UNCHANGED <<connVars, pending, outcome, op, listVars, coreVars, lifeVars>>

\* A turn transition returns before the resolution is told.
ResolveUnlessTransition(r) ==
    /\ Settled(r)
    /\ \/ /\ tx /\ outcome[r] # "transition"
          /\ cmds' = Append(cmds, <<"resolve", r>>)
          /\ task' = [task EXCEPT ![r] = "resolve"]
       \/ /\ ~tx \/ outcome[r] = "transition"
          /\ task' = [task EXCEPT ![r] = "decide"]
          /\ UNCHANGED cmds
    /\ UNCHANGED <<connVars, pending, outcome, op, viewVars, lst, tx,
                   cancelled, coreVars, lifeVars>>

\* resolve_server_request_on_thread_listener: queued behind whatever the
\* listener does; skipped when there is no listener to send to.
Resolve(r) ==
    /\ Settled(r)
    /\ \/ /\ tx
          /\ cmds' = Append(cmds, <<"resolve", r>>)
          /\ task' = [task EXCEPT ![r] = "resolve"]
       \/ /\ ~tx
          /\ task' = [task EXCEPT ![r] = "decide"]
          /\ UNCHANGED cmds
    /\ UNCHANGED <<connVars, pending, outcome, op, viewVars, lst, tx,
                   cancelled, coreVars, lifeVars>>

\* The task waits for a completion that a dropped command never sends.
AwaitsForever(r) == FALSE /\ task[r] = "resolve" /\ UNCHANGED vars

\* completion_rx fails when the listener dropped the command.
CompletionLost(r) ==
    /\ task[r] = "resolve"
    /\ <<"resolve", r>> \notin {cmds[i] : i \in DOMAIN cmds}
    /\ ~(lst.pc = "resolving" /\ lst.req = r)
    /\ task' = [task EXCEPT ![r] = "decide"]
    /\ UNCHANGED <<connVars, pending, outcome, op, viewVars, listVars,
                   coreVars, lifeVars>>

\* A turn transition submits nothing; an error or a lost channel denies.
Decide(r) ==
    /\ task[r] = "decide"
    /\ task' = [task EXCEPT ![r] = "done"]
    /\ op' = [op EXCEPT ![r] =
                CASE outcome[r] = "answer" -> "answer"
                  [] outcome[r] = "transition" -> "nothing"
                  [] OTHER -> "denied"]
    /\ UNCHANGED <<connVars, pending, outcome, viewVars, listVars, coreVars,
                   lifeVars>>

-----------------------------------------------------------------------------
Listener ==
    \/ AskClients \/ SendRequest \/ SpawnTask \/ TurnTransition
    \/ ResolveCommand \/ SendResolved \/ CompleteResolve
    \/ ResumeCommand \/ TakeSnapshot \/ Replay
    \/ ListenerCancelled \/ ListenerEnds
    \/ UnloadCommit \/ UnloadRemoves

Task(r) == Resolve(r) \/ CompletionLost(r) \/ Decide(r)

Session == StartTurn \/ Ask \/ EndTurn

Removal == RemoveThread \/ RemovalShutdown \/ TeardownCancels \/ TeardownRemoves

Client(c) ==
    \/ \E what \in {"answer", "error"} : Answer(c, what)
    \/ ResumeThread(c) \/ Attach(c) \/ Unsubscribe(c)
    \/ Disconnect(c) \/ Connect(c)

Next ==
    \/ Session
    \/ Listener
    \/ UnloadCheck
    \/ UnloadFinishes
    \/ Removal
    \/ \E c \in Conns : Client(c)
    \/ \E r \in Requests : Task(r)

\* The listener and the tasks are spawned on the runtime and never blocked by
\* a client: each takes its next step once it has one. The session, the
\* clients and the unload timer owe nothing.
Fairness == WF_vars(Listener) /\ \A r \in Requests : WF_vars(Task(r))

Spec == Init /\ [][Next]_vars /\ Fairness

-----------------------------------------------------------------------------
\* Types and bounds: a response task queues at most one command for the
\* listener, so the channel holds no more than the resumes and one per request.
TypeOK ==
    /\ live \subseteq Conns /\ joined \subseteq subs /\ subs \subseteq Conns
    /\ pending \subseteq Requests
    /\ outcome \in [Requests -> {"none", "answer", "error", "transition", "dropped"}]
    /\ task \in [Requests -> {"none", "event", "await", "resolve", "decide", "done"}]
    /\ op \in [Requests -> {"none", "answer", "denied", "nothing"}]
    /\ shown \in [Conns -> SUBSET Requests] /\ closed \in [Conns -> SUBSET Requests]
    /\ Len(cmds) <= MaxCmds + MaxRequests
    /\ \A i \in DOMAIN cmds : cmds[i] \in ({"resume"} \X Conns) \cup ({"resolve"} \X Requests)
    /\ lst.pc \in {"select", "sending", "resolving", "resumed", "replaying",
                   "unload", "unloading", "gone"}
    /\ core \in {"idle", "running", "stopped"} /\ turns \in 0..MaxTurns
    /\ {tx, cancelled, active, loaded, unloading} \subseteq BOOLEAN
    /\ removal \in {"none", "shutdown", "cancel", "remove", "done"}

\* No client is shown a request after it was told that it is resolved, although
\* answers come from any client at any time and a resume replays requests:
\* the ordering that ThreadListenerCommand::ResolveServerRequest is for.
ResolvedIsFinal == \A c \in Conns : shown[c] \cap closed[c] = {}

\* Whenever the listener is between two handlers, every client that has been
\* subscribed since the thread started or since its resume shows every
\* request that waits for an answer: none falls between the subscription, the
\* live sends and the replay of handle_pending_thread_resume_request.
PendingIsShown ==
    lst.pc = "select" => \A c \in joined : pending \subseteq shown[c]

\* While the thread stays loaded, a decision is submitted to the session only
\* after every such client stopped showing the request: the response tasks
\* wait for the completion of their ResolveServerRequest command.
DecidedIsClosed ==
    loaded => \A r \in Requests, c \in joined : op[r] # "none" => r \notin shown[c]

\* Only connections that are still open are subscribed: a resume that was
\* queued when its connection closed does not leave a subscriber behind, which
\* would keep the thread from ever being unloaded. And a thread that is being
\* unloaded has none, whoever subscribes while its listener decides:
\* pending_thread_unloads serialises subscriptions with that decision.
SubscribersAreLive == subs \subseteq live /\ (unloading => subs = {})

\* A request that was answered, refused or cancelled ends its response task,
\* also when the listener goes away with the task's command in its channel.
SettledIsDecided ==
    \A r \in Requests : (outcome[r] # "none") ~> (task[r] = "done")
=============================================================================
