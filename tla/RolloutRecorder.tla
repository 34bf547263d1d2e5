-------------------------- MODULE RolloutRecorder --------------------------
(***************************************************************************)
(* Persistence of one live thread: the calls of the local thread store     *)
(* (thread-store/src/local/live_writer.rs), the channel to the writer task *)
(* and the writer task itself with its recovery from I/O errors            *)
(* (rollout/src/recorder.rs), the JSONL file, a crash of the process and   *)
(* the resumption of the thread from its file.                             *)
(*                                                                         *)
(* A write either completes a line or leaves a strict prefix of it in the  *)
(* file: nothing, an unparsable fragment ("torn"), or all of the JSON      *)
(* without its newline ("bare").  The file is only ever opened for append. *)
(***************************************************************************)
EXTENDS Naturals, Sequences, SequencesExt, FiniteSets

CONSTANTS
    Callers,     \* concurrent callers of the thread store
    MaxItems,    \* bound on the items ever appended
    Meta,        \* the SessionMeta line of this thread
    QueueCap,    \* capacity of the channel (256 in the code)
    MaxBatch,    \* bound on the items of one append
    MaxFaults,   \* bound on I/O errors
    MaxCrashes,  \* bound on crashes of the process
    None

ASSUME RecorderAssumption ==
    /\ MaxItems \in Nat /\ QueueCap \in Nat \ {0} /\ MaxBatch \in Nat \ {0}
    /\ MaxFaults \in Nat /\ MaxCrashes \in Nat
    /\ Meta \notin Nat
    /\ None \notin Callers /\ None \notin {"ok", "err"} /\ None \notin {"flush", "persist", "shutdown"}

(* Rollout items, numbered in the order the program produces them. *)
Items == 1 .. MaxItems

VARIABLES
    live,           \* the thread's entry in live_recorders: none, init or live
    alive,          \* the writer task runs and holds the receiver
    queue,          \* the channel
    wpc, command, attempt,            \* the writer task: place, command, try
    writer, deferred, meta, pending_items,  \* RolloutWriterState
    exists, file,   \* the rollout file: one entry per attempted line
    faults, crashes,
    pc, batch, barrier, reply,        \* locals of a caller
    produced,       \* how many items have been produced
    cover,          \* caller -> the items accepted before its barrier
    promised        \* the items covered by a call that returned Ok

fileVars == <<exists, file>>
stateVars == <<writer, deferred, meta, pending_items>>
callVars == <<pc, batch, barrier, reply>>
ghostVars == <<produced, cover, promised>>
vars == <<live, alive, queue, wpc, command, attempt, stateVars, fileVars,
          faults, crashes, callVars, ghostVars>>

Barriers == {"flush", "persist", "shutdown"}
Command == [op : {"add"}, items : SeqOf(Items, MaxBatch)]
           \cup [op : Barriers, from : Callers]
Line == [item : Items \cup {Meta}, form : {"whole", "bare", "torn"}]

(* A physical line parses when it holds exactly one complete record: what  *)
(* is appended behind a fragment is glued to it (load_rollout_items).      *)
Parses(f, k) ==
    /\ k = 1 \/ f[k - 1].form = "whole"
    /\ \/ f[k].form = "whole"
       \/ f[k].form = "bare" /\ k = Len(f)

LoadedItems(f) == {f[k].item : k \in {j \in DOMAIN f : Parses(f, j)}}

Init ==
    /\ live = "init" /\ alive = TRUE /\ queue = <<>>
    /\ wpc = "recv" /\ command = None /\ attempt = 0
    /\ writer = FALSE /\ deferred = TRUE /\ meta = TRUE /\ pending_items = <<>>
    /\ exists = FALSE /\ file = <<>>
    /\ faults = 0 /\ crashes = 0
    /\ pc = [c \in Callers |-> "idle"]
    /\ batch = [c \in Callers |-> <<>>]
    /\ barrier = [c \in Callers |-> None]
    /\ reply = [c \in Callers |-> None]
    /\ produced = 0
    /\ cover = [c \in Callers |-> {}]
    /\ promised = {}

(* The items that a line of the file, or a command, brings. *)
LineItems(l) == IF l.form = "whole" /\ l.item \in Items THEN <<l.item>> ELSE <<>>
AddedItems(cmd) == IF cmd.op = "add" THEN cmd.items ELSE <<>>

(* The accepted items in order: on disk, in memory, in the channel. *)
Written == FlattenSeq([k \in DOMAIN file |-> LineItems(file[k])])
Queued == FlattenSeq([k \in DOMAIN queue |-> AddedItems(queue[k])])
Accepted == Written \o pending_items \o Queued

(***************************************************************************)
(* The calls of the thread store.  append_items queues the items and then  *)
(* a flush; the other calls queue their own barrier.  A call holds the     *)
(* sender it found in live_recorders: once that recorder's writer has gone *)
(* it can only fail.                                                       *)
(***************************************************************************)

Call(c) ==
    /\ pc[c] = "idle" /\ live # "none"
    /\ live' = "live"
    /\ \/ /\ \E n \in 1 .. MaxBatch :
                /\ produced + n <= MaxItems
                /\ batch' = [batch EXCEPT ![c] = [k \in 1 .. n |-> produced + k]]
                /\ produced' = produced + n
          /\ barrier' = [barrier EXCEPT ![c] = "flush"]
          /\ pc' = [pc EXCEPT ![c] = IF alive THEN "add" ELSE "failed"]
       \/ /\ \E b \in Barriers : barrier' = [barrier EXCEPT ![c] = b]
          /\ pc' = [pc EXCEPT ![c] = IF alive THEN "send" ELSE "failed"]
          /\ UNCHANGED <<batch, produced>>
    /\ UNCHANGED <<alive, queue, wpc, command, attempt, stateVars, fileVars,
                   faults, crashes, reply, cover, promised>>

(* send().await yields while the channel is full. *)
Send(cmd) == Len(queue) < QueueCap /\ queue' = Append(queue, cmd)

RecordCanonicalItems(c) ==
    /\ pc[c] = "add"
    /\ Send([op |-> "add", items |-> batch[c]])
    /\ pc' = [pc EXCEPT ![c] = "send"]
    /\ UNCHANGED <<live, alive, wpc, command, attempt, stateVars, fileVars, faults, crashes,
                   batch, barrier, reply, ghostVars>>

SendBarrier(c) ==
    /\ pc[c] = "send"
    /\ Send([op |-> barrier[c], from |-> c])
    /\ pc' = [pc EXCEPT ![c] = "await"]
    /\ cover' = [cover EXCEPT ![c] = ToSet(Accepted)]
    /\ UNCHANGED <<live, alive, wpc, command, attempt, stateVars, fileVars, faults, crashes,
                   batch, barrier, reply, produced, promised>>

(* The ack arrives or the call fails.  A shutdown that succeeded removes   *)
(* the recorder from live_recorders.                                       *)
Return(c) ==
    /\ pc[c] = "failed" \/ reply[c] # None
    /\ promised' = IF reply[c] = "ok" THEN promised \cup cover[c] ELSE promised
    /\ live' = IF reply[c] = "ok" /\ barrier[c] = "shutdown" THEN "none" ELSE live
    /\ pc' = [pc EXCEPT ![c] = "idle"]
    /\ batch' = [batch EXCEPT ![c] = <<>>]
    /\ barrier' = [barrier EXCEPT ![c] = None]
    /\ reply' = [reply EXCEPT ![c] = None]
    /\ cover' = [cover EXCEPT ![c] = {}]
    /\ UNCHANGED <<alive, queue, wpc, command, attempt, stateVars, fileVars,
                   faults, crashes, produced>>

(***************************************************************************)
(* The writer task.                                                        *)
(***************************************************************************)

IsDeferred == ~writer /\ deferred

(* ack.send(result): the caller that waits gets the result. *)
AckIgnoresError(cmd, result) ==
    reply' = IF cmd.op = "add" THEN reply ELSE [reply EXCEPT ![cmd.from] = "ok"]
Ack(cmd, result) ==
    reply' = IF cmd.op = "add" THEN reply ELSE [reply EXCEPT ![cmd.from] = result]

(* The loop of rollout_writer goes on, or a successful shutdown leaves it: *)
(* the receiver is dropped with every command still queued, and the calls  *)
(* that wait for one, or have yet to send one, fail.                       *)
BreakForgetsWaiters(cmd, rest) ==
    /\ alive' = (cmd.op # "shutdown")
    /\ queue' = IF alive' THEN rest ELSE <<>>
    /\ UNCHANGED pc
LoopOrBreak(cmd, rest) ==
    /\ alive' = (cmd.op # "shutdown")
    /\ queue' = IF alive' THEN rest ELSE <<>>
    /\ pc' = [c \in Callers |->
                 IF alive' \/ pc[c] = "idle" \/ reply'[c] # None THEN pc[c] ELSE "failed"]

Recv ==
    /\ alive /\ wpc = "recv" /\ queue # <<>>
    /\ LET cmd == Head(queue)
           nothing == CASE cmd.op = "add" -> IsDeferred
                        [] cmd.op = "persist" -> FALSE
                        [] OTHER -> IsDeferred /\ pending_items = <<>>
       IN /\ pending_items' = pending_items \o AddedItems(cmd)
          /\ \/ /\ nothing
                /\ Ack(cmd, "ok")
                /\ LoopOrBreak(cmd, Tail(queue))
                /\ UNCHANGED <<wpc, command, attempt>>
             \/ /\ ~nothing
                /\ queue' = Tail(queue)
                /\ wpc' = "open" /\ command' = cmd /\ attempt' = 1
                /\ UNCHANGED <<reply, alive, pc>>
    /\ UNCHANGED <<live, writer, deferred, meta, fileVars, faults, crashes,
                   batch, barrier, ghostVars>>

(* ensure_writer_open. *)
EnsureWriterOpen ==
    /\ alive /\ wpc = "open"
    /\ wpc' = "write"
    /\ writer' = TRUE
    /\ deferred' = FALSE
    /\ exists' = TRUE
    /\ UNCHANGED <<live, alive, queue, command, attempt, meta, pending_items, file,
                   faults, crashes, callVars, ghostVars>>

(* write_session_meta_if_needed, then write_pending_items_once. *)
NextLineItemsFirst == IF pending_items = <<>> THEN Meta ELSE Head(pending_items)
NextLine == IF meta THEN Meta ELSE Head(pending_items)

WriteLine ==
    /\ alive /\ wpc = "write" /\ (meta \/ pending_items # <<>>)
    /\ file' = Append(file, [item |-> NextLine, form |-> "whole"])
    /\ meta' = FALSE
    /\ pending_items' = IF meta THEN pending_items ELSE Tail(pending_items)
    /\ UNCHANGED <<live, alive, queue, wpc, command, attempt, writer, deferred, exists,
                   faults, crashes, callVars, ghostVars>>

(* write_pending_once returns Ok. *)
Finish ==
    /\ alive /\ wpc = "write" /\ ~meta /\ pending_items = <<>>
    /\ Ack(command, "ok")
    /\ LoopOrBreak(command, queue)
    /\ wpc' = "recv" /\ command' = None /\ attempt' = 0
    /\ UNCHANGED <<live, stateVars, fileVars, faults, crashes, batch, barrier, ghostVars>>

(* What a failed or interrupted write leaves behind. *)
Remains ==
    \/ UNCHANGED file
    \/ \E form \in {"torn", "bare"} :
          file' = Append(file, [item |-> NextLine, form |-> form])

DropHead == IF meta \/ pending_items = <<>> THEN pending_items ELSE Tail(pending_items)
KeepPending == pending_items

(* An I/O error: enter_recovery_mode drops the handle and keeps what is    *)
(* not written; the first error is retried once, the second one reported.  *)
IoFails ==
    /\ alive /\ faults < MaxFaults
    /\ \/ /\ wpc = "open" /\ ~writer
          /\ UNCHANGED file
       \/ /\ wpc = "write" /\ (meta \/ pending_items # <<>>)
          /\ Remains
    /\ faults' = faults + 1
    /\ writer' = FALSE
    /\ pending_items' = KeepPending
    /\ \/ /\ attempt = 1
          /\ attempt' = 2 /\ wpc' = "open"
          /\ UNCHANGED <<command, reply>>
       \/ /\ attempt = 2
          /\ attempt' = 0 /\ wpc' = "recv" /\ command' = None
          /\ Ack(command, "err")
    /\ UNCHANGED <<live, alive, queue, deferred, meta, exists, crashes,
                   pc, batch, barrier, ghostVars>>

(***************************************************************************)
(* The life of the recorder.                                               *)
(***************************************************************************)

(* The end of the writer task, with everything it holds in memory. *)
WriterGone ==
    /\ alive' = FALSE /\ queue' = <<>> /\ pending_items' = <<>>
    /\ wpc' = "recv" /\ command' = None /\ attempt' = 0
    /\ writer' = FALSE /\ deferred' = FALSE /\ meta' = FALSE

(* LiveThreadInitGuard: a session that fails to initialise discards its    *)
(* recorder.  The steps that may fail come before the first append.        *)
Discard ==
    /\ live = "init"
    /\ live' = "none"
    /\ WriterGone
    /\ UNCHANGED <<fileVars, faults, crashes, callVars, ghostVars>>

Crash ==
    /\ crashes < MaxCrashes
    /\ crashes' = crashes + 1
    /\ \/ UNCHANGED file
       \/ alive /\ wpc = "write" /\ (meta \/ pending_items # <<>>) /\ Remains
    /\ live' = "none"
    /\ WriterGone
    /\ pc' = [c \in Callers |-> "idle"]
    /\ batch' = [c \in Callers |-> <<>>]
    /\ barrier' = [c \in Callers |-> None]
    /\ reply' = [c \in Callers |-> None]
    /\ cover' = [c \in Callers |-> {}]
    /\ UNCHANGED <<exists, faults, produced, promised>>

(* resume_thread: the file must exist and its SessionMeta must parse. *)
ResumeThread ==
    /\ live = "none" /\ exists /\ Meta \in LoadedItems(file)
    /\ live' = "init" /\ alive' = TRUE
    /\ writer' = TRUE /\ deferred' = FALSE /\ meta' = FALSE
    /\ UNCHANGED <<queue, wpc, command, attempt, pending_items, fileVars,
                   faults, crashes, callVars, ghostVars>>

WriterStep == Recv \/ EnsureWriterOpen \/ WriteLine \/ Finish \/ IoFails
CallerStep(c) == RecordCanonicalItems(c) \/ SendBarrier(c) \/ Return(c)

Next ==
    \/ \E c \in Callers : Call(c) \/ CallerStep(c)
    \/ WriterStep
    \/ Discard \/ Crash \/ ResumeThread

Spec == Init /\ [][Next]_vars

(***************************************************************************)
(* Properties.                                                             *)
(***************************************************************************)

(* Types; the channel stays within its capacity, and the writer holds a    *)
(* command exactly while it works on one.                                  *)
TypeOK ==
    /\ live \in {"none", "init", "live"} /\ alive \in BOOLEAN
    /\ queue \in Seq(Command) /\ Len(queue) <= QueueCap
    /\ wpc \in {"recv", "open", "write"} /\ attempt \in 0 .. 2
    /\ (command = None) = (wpc = "recv") /\ (command # None => command \in Command)
    /\ {writer, deferred, meta, exists} \subseteq BOOLEAN
    /\ pending_items \in Seq(Items) /\ file \in Seq(Line)
    /\ pc \in [Callers -> {"idle", "add", "send", "await", "failed"}]
    /\ reply \in [Callers -> {None, "ok", "err"}]
    /\ produced \in 0 .. MaxItems /\ promised \subseteq 1 .. produced

(* The recorder implements the append-only log: whatever fails or crashes, *)
(* items reach the file once and in the order they were accepted, what is  *)
(* lost is a suffix nobody was promised, and append_items, flush, persist  *)
(* and shutdown return Ok only when everything accepted before them is in  *)
(* the file ("SQLite never gets ahead of JSONL").                          *)
Log == INSTANCE RolloutLog WITH log <- Accepted, durable <- Len(Written), promised <- promised
ImplementsLog == Log!LogSpec

(* While the writer task lives no I/O error loses an accepted item: "I/O   *)
(* failures drop the file handle but keep the unwritten suffix".           *)
ErrorsLoseNothing == [][alive /\ alive' => Len(Accepted') >= Len(Accepted)]_vars

(* No item is ever written ahead of the thread's SessionMeta, although the *)
(* meta line is deferred, may fail, and is retried apart from the items.   *)
MetaLeads ==
    \A k \in DOMAIN file : file[k].item # Meta =>
        \E j \in 1 .. (k - 1) : file[j].item = Meta /\ file[j].form \in {"whole", "bare"}

(* No caller waits in vain: while it waits for its ack, its barrier is in  *)
(* the channel of a running writer or in the writer's hands, and whatever  *)
(* ends the writer fails the call.                                         *)
WaiterIsServed ==
    \A c \in Callers : pc[c] = "await" /\ reply[c] = None =>
        /\ alive
        /\ \/ \E k \in DOMAIN queue : queue[k].op # "add" /\ queue[k].from = c
           \/ wpc # "recv" /\ command.op # "add" /\ command.from = c

(* An item that a call reported as persisted is found when the rollout is  *)
(* loaded again.                                                           *)
PromisedIsLoadable == promised \subseteq LoadedItems(file)
=============================================================================
