---------------------------- MODULE RolloutFiles ----------------------------
(***************************************************************************)
(* The two representations of one rollout on disk, rollout.jsonl and       *)
(* rollout.jsonl.zst, and who changes them without a lock                  *)
(* (rollout/src/compression.rs): workers of several processes compress a   *)
(* cold rollout, writers materialise it again and append to it.            *)
(*                                                                         *)
(* Every file system call is one step.  A name points to an inode: a       *)
(* writer keeps its open file when the name is removed.  The worker        *)
(* compares length, mtime and permissions, which every write and every     *)
(* creation changes: the model keeps the outcome of that comparison.       *)
(***************************************************************************)
EXTENDS Naturals, FiniteSets

CONSTANTS
    Workers,   \* processes that start the compression worker
    Writers,   \* recorders and append_rollout_item_to_path
    Creators,  \* the writers that open with create: recorders in recovery
    Inodes,    \* inodes plain files may use: bounds the materialisations
    MaxLines,  \* bound on the appended lines
    NoFile

(* NoFile is neither an inode nor the lines of a file. *)
ASSUME FilesAssumption ==
    /\ MaxLines \in Nat /\ NoFile \notin Inodes
    /\ \A lines \in SUBSET (0 .. MaxLines) : lines # NoFile
    /\ Creators \subseteq Writers /\ Cardinality(Inodes) >= 1

VARIABLES
    plain,       \* the inode of rollout.jsonl, or NoFile
    compressed,  \* the lines in rollout.jsonl.zst, or NoFile
    content,     \* inode -> the lines in it
    cold,        \* inodes older than MIN_ROLLOUT_AGE
    marker,      \* rollout-compression.lock: none, fresh or stale
    cpc, same, snapshot,     \* locals of a worker
    apc, tmp, handle,        \* locals of a writer
    written,     \* lines whose write succeeded
    late         \* those given up: written, or hidden, after the last check

diskVars == <<plain, compressed, content, cold>>
workerVars == <<cpc, same, snapshot>>
writerVars == <<apc, tmp, handle>>
filesVars == <<diskVars, marker, workerVars, writerVars, written, late>>

LineNumbers == 1 .. MaxLines

(* The thread's first line was written long ago: line 0. *)
FilesInit ==
    \E i \in Inodes :
    /\ plain = i /\ compressed = NoFile
    /\ content = [j \in Inodes |-> IF j = i THEN {0} ELSE {}]
    /\ cold = {i}
    /\ marker = "none"
    /\ cpc = [w \in Workers |-> "idle"]
    /\ same = [w \in Workers |-> FALSE] /\ snapshot = [w \in Workers |-> {}]
    /\ apc = [a \in Writers |-> "idle"]
    /\ tmp = [a \in Writers |-> NoFile] /\ handle = [a \in Writers |-> NoFile]
    /\ written = {0} /\ late = {}

(* The plain file is as this worker first saw it (same_file_state). *)
SameFileState(w) == plain # NoFile /\ same[w]

FileChanges == same' = [w \in Workers |-> FALSE]

WorkerGoes(w, place) == cpc' = [cpc EXCEPT ![w] = place]

(***************************************************************************)
(* CompressionRunMarker::try_claim.                                        *)
(***************************************************************************)

TryClaim(w) ==
    /\ cpc[w] = "idle"
    /\ \/ /\ marker = "none" /\ marker' = "fresh" /\ WorkerGoes(w, "cold")
       \/ /\ marker = "stale" /\ WorkerGoes(w, "unlinkMarker") /\ UNCHANGED marker
    /\ UNCHANGED <<diskVars, same, snapshot, writerVars, written, late>>

RemoveStaleMarker(w) ==
    /\ cpc[w] = "unlinkMarker"
    /\ marker' = "none"
    /\ WorkerGoes(w, "createMarker")
    /\ UNCHANGED <<diskVars, same, snapshot, writerVars, written, late>>

CreateMarker(w) ==
    /\ cpc[w] = "createMarker"
    /\ \/ marker = "none" /\ marker' = "fresh" /\ WorkerGoes(w, "cold")
       \/ marker # "none" /\ UNCHANGED marker /\ WorkerGoes(w, "idle")
    /\ UNCHANGED <<diskVars, same, snapshot, writerVars, written, late>>

(* A run that fails while it walks the directories drops its marker, by    *)
(* name; a run that completes leaves it.                                   *)
RunFails(w) ==
    /\ cpc[w] = "cold"
    /\ marker' = "none"
    /\ WorkerGoes(w, "idle")
    /\ UNCHANGED <<diskVars, same, snapshot, writerVars, written, late>>

(***************************************************************************)
(* compress_rollout_if_cold_blocking.                                      *)
(***************************************************************************)

ColdFileState(w) ==
    /\ cpc[w] = "cold"
    /\ \/ /\ plain # NoFile /\ plain \in cold
          /\ same' = [same EXCEPT ![w] = TRUE]
          /\ WorkerGoes(w, "siblingCheck")
       \/ /\ plain = NoFile \/ plain \notin cold
          /\ WorkerGoes(w, "idle") /\ UNCHANGED same
    /\ UNCHANGED <<diskVars, marker, snapshot, writerVars, written, late>>

SiblingCheck(w) ==
    /\ cpc[w] = "siblingCheck"
    /\ WorkerGoes(w, IF compressed # NoFile THEN "idle" ELSE "encode")
    /\ UNCHANGED <<diskVars, marker, same, snapshot, writerVars, written, late>>

EncodeAndVerify(w) ==
    /\ cpc[w] = "encode"
    /\ \/ /\ plain # NoFile
          /\ snapshot' = [snapshot EXCEPT ![w] = content[plain]]
          /\ WorkerGoes(w, "check1")
       \/ plain = NoFile /\ WorkerGoes(w, "idle") /\ UNCHANGED snapshot
    /\ UNCHANGED <<diskVars, marker, same, writerVars, written, late>>

FirstCheck(w) ==
    /\ cpc[w] = "check1"
    /\ WorkerGoes(w, IF SameFileState(w) THEN "persist" ELSE "idle")
    /\ UNCHANGED <<diskVars, marker, same, snapshot, writerVars, written, late>>

PersistNoclobber(w) ==
    /\ cpc[w] = "persist"
    /\ \/ compressed = NoFile /\ compressed' = snapshot[w] /\ WorkerGoes(w, "check2")
       \/ compressed # NoFile /\ UNCHANGED compressed /\ WorkerGoes(w, "idle")
    /\ UNCHANGED <<plain, content, cold, marker, same, snapshot,
                   writerVars, written, late>>

TrustFirstCheck(w) ==
    /\ cpc[w] = "check2"
    /\ WorkerGoes(w, "removePlain")
    /\ UNCHANGED <<diskVars, marker, same, snapshot, writerVars, written, late>>

SecondCheck(w) ==
    /\ cpc[w] = "check2"
    /\ WorkerGoes(w, IF SameFileState(w) THEN "removePlain" ELSE "removeCompressed")
    /\ UNCHANGED <<diskVars, marker, same, snapshot, writerVars, written, late>>

RemoveCompressed(w) ==
    /\ cpc[w] = "removeCompressed"
    /\ compressed' = NoFile
    /\ WorkerGoes(w, "idle")
    /\ UNCHANGED <<plain, content, cold, marker, same, snapshot,
                   writerVars, written, late>>

RemovePlain(w) ==
    /\ cpc[w] = "removePlain"
    /\ plain' = NoFile
    /\ WorkerGoes(w, "idle")
    /\ UNCHANGED <<compressed, content, cold, marker, same, snapshot,
                   writerVars, written, late>>

(***************************************************************************)
(* materialize_rollout_for_append, the open for append, and the writes.    *)
(***************************************************************************)

WriterGoes(a, place) == apc' = [apc EXCEPT ![a] = place]

PlainExists(a) ==
    /\ apc[a] = "idle" /\ handle[a] = NoFile
    /\ WriterGoes(a, IF plain # NoFile THEN "open" ELSE "compressedExists")
    /\ UNCHANGED <<diskVars, marker, workerVars, tmp, handle, written, late>>

CompressedExists(a) ==
    /\ apc[a] = "compressedExists"
    /\ WriterGoes(a, IF compressed # NoFile THEN "decompress" ELSE "open")
    /\ UNCHANGED <<diskVars, marker, workerVars, tmp, handle, written, late>>

Decompress(a) ==
    /\ apc[a] = "decompress"
    /\ \/ /\ compressed # NoFile
          /\ tmp' = [tmp EXCEPT ![a] = compressed]
          /\ WriterGoes(a, "link")
       \/ compressed = NoFile /\ WriterGoes(a, "idle") /\ UNCHANGED tmp
    /\ UNCHANGED <<diskVars, marker, workerVars, handle, written, late>>

(* A new file with the given lines under the plain name. *)
NewPlain(i, lines) ==
    /\ plain' = i
    /\ content' = [content EXCEPT ![i] = lines]
    /\ cold' = cold \ {i}
    /\ FileChanges

(* An inode no name and no open file refers to. *)
FreeInodes == Inodes \ ({plain} \cup {handle[a] : a \in Writers})

HardLink(a) ==
    /\ apc[a] = "link"
    /\ \/ plain = NoFile /\ \E i \in FreeInodes : NewPlain(i, tmp[a])
       \/ plain # NoFile /\ UNCHANGED <<plain, content, cold, same>>
    /\ tmp' = [tmp EXCEPT ![a] = NoFile]
    /\ WriterGoes(a, "unlinkCompressed")
    /\ UNCHANGED <<compressed, marker, cpc, snapshot, handle, written, late>>

UnlinkCompressed(a) ==
    /\ apc[a] = "unlinkCompressed"
    /\ compressed' = NoFile
    /\ WriterGoes(a, "open")
    /\ UNCHANGED <<plain, content, cold, marker, workerVars,
                   tmp, handle, written, late>>

(* A resume and append_rollout_item_to_path fail when the file is missing; *)
(* open_log_file creates it.  When a worker removed the plain file after   *)
(* the existence check, the new file is empty and hides the compressed one.*)
OpenForAppend(a) ==
    /\ apc[a] = "open"
    /\ \/ /\ plain # NoFile
          /\ handle' = [handle EXCEPT ![a] = plain]
          /\ UNCHANGED <<diskVars, same>>
          /\ UNCHANGED late
       \/ /\ plain = NoFile /\ a \in Creators
          /\ \E i \in FreeInodes :
                NewPlain(i, {}) /\ handle' = [handle EXCEPT ![a] = i]
          /\ late' = late \cup compressed
          /\ UNCHANGED compressed
       \/ plain = NoFile /\ a \notin Creators /\ UNCHANGED <<diskVars, same, handle, late>>
    /\ WriterGoes(a, "idle")
    /\ UNCHANGED <<marker, cpc, snapshot, tmp, written>>

(* Too late for the worker: it has made its last comparison of this file,  *)
(* or the file has no name any more.                                       *)
TooLate(i) ==
    \/ plain # i
    \/ \E w \in Workers : cpc[w] = "removePlain"

AppendLine(a) ==
    /\ apc[a] = "idle" /\ handle[a] # NoFile
    /\ \E l \in LineNumbers \ written :
          /\ \A k \in LineNumbers : k < l => k \in written
          /\ content' = [content EXCEPT ![handle[a]] = @ \cup {l}]
          /\ written' = written \cup {l}
          /\ late' = IF TooLate(handle[a]) THEN late \cup {l} ELSE late
    /\ cold' = cold \ {handle[a]}
    /\ IF handle[a] = plain THEN FileChanges ELSE UNCHANGED same
    /\ UNCHANGED <<plain, compressed, marker, cpc, snapshot, writerVars>>

(* A recorder that drops its file, or the end of one append. *)
CloseFile(a) ==
    /\ apc[a] = "idle" /\ handle[a] # NoFile
    /\ handle' = [handle EXCEPT ![a] = NoFile]
    /\ UNCHANGED <<diskVars, marker, workerVars, apc, tmp, written, late>>

(***************************************************************************)
(* Time and crashes.                                                       *)
(***************************************************************************)

(* A week passes without a write, six hours pass for the marker: longer    *)
(* than any worker (WORKER_MAX_RUNTIME) or any open for append takes.  An  *)
(* idle recorder keeps its file open for as long as its thread is loaded.  *)
AllQuiet ==
    /\ \A w \in Workers : cpc[w] = "idle"
    /\ \A a \in Writers : apc[a] = "idle"

FileAges ==
    /\ AllQuiet /\ plain # NoFile
    /\ cold' = cold \cup {plain}
    /\ UNCHANGED <<plain, compressed, content, marker,
                   workerVars, writerVars, written, late>>

MarkerAges ==
    /\ AllQuiet /\ marker = "fresh"
    /\ marker' = "stale"
    /\ UNCHANGED <<diskVars, workerVars, writerVars, written, late>>

(* The process of a worker or of a writer dies between two calls. *)
WorkerDies(w) ==
    /\ cpc[w] # "idle" /\ WorkerGoes(w, "idle")
    /\ UNCHANGED <<diskVars, marker, same, snapshot, writerVars, written, late>>

WriterDies(a) ==
    /\ apc[a] # "idle" /\ WriterGoes(a, "idle")
    /\ tmp' = [tmp EXCEPT ![a] = NoFile] /\ handle' = [handle EXCEPT ![a] = NoFile]
    /\ UNCHANGED <<diskVars, marker, workerVars, written, late>>

WorkerStep(w) ==
    \/ TryClaim(w) \/ RemoveStaleMarker(w) \/ CreateMarker(w)
    \/ ColdFileState(w) \/ SiblingCheck(w) \/ EncodeAndVerify(w) \/ FirstCheck(w)
    \/ PersistNoclobber(w) \/ SecondCheck(w) \/ RemoveCompressed(w) \/ RemovePlain(w)
    \/ RunFails(w) \/ WorkerDies(w)

OpenerStep(a) ==
    \/ PlainExists(a) \/ CompressedExists(a) \/ Decompress(a) \/ HardLink(a)
    \/ UnlinkCompressed(a) \/ OpenForAppend(a) \/ AppendLine(a) \/ CloseFile(a)
    \/ WriterDies(a)

FilesNext ==
    \/ \E w \in Workers : WorkerStep(w)
    \/ \E a \in Writers : OpenerStep(a)
    \/ FileAges \/ MarkerAges

FilesSpec == FilesInit /\ [][FilesNext]_filesVars

(***************************************************************************)
(* Properties.                                                             *)
(***************************************************************************)

(* Types; a writer that links holds what it decompressed, and no file has  *)
(* a line nobody wrote.                                                    *)
FilesTypeOK ==
    /\ plain \in Inodes \cup {NoFile}
    /\ compressed \in {NoFile} \cup SUBSET written
    /\ content \in [Inodes -> SUBSET written]
    /\ cold \subseteq Inodes /\ marker \in {"none", "fresh", "stale"}
    /\ same \in [Workers -> BOOLEAN] /\ handle \in [Writers -> Inodes \cup {NoFile}]
    /\ \A a \in Writers : (apc[a] = "link") <=> (tmp[a] # NoFile)
    /\ late \subseteq written /\ written \subseteq 0 .. MaxLines

OnDisk == (IF plain = NoFile THEN {} ELSE content[plain])
          \cup (IF compressed = NoFile THEN {} ELSE compressed)

(* Compression and materialisation, in any interleaving and with crashes   *)
(* of either, lose no line but the ones the two unchecked windows give up: *)
(* a line written after the worker's last look at the file, and the lines  *)
(* a recorder hid by recreating a file that vanished before its open.      *)
(* Between any two calls at least one representation exists, so that the   *)
(* readers' retry on NotFound can succeed.                                 *)
Retained ==
    /\ written \ late \subseteq OnDisk
    /\ plain # NoFile \/ compressed # NoFile
=============================================================================
