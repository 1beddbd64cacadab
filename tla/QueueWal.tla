------------------------------ MODULE QueueWal ------------------------------
(***************************************************************************)
(* The task queue of a run (src/workflows/queue): a write-ahead log        *)
(* (queue_operations.log), a counter file with the last sequence number    *)
(* (queue_sequence.txt), a snapshot (queue_snapshot.json) that lets the    *)
(* log be cut, one index of the tasks in the memory of every process, and  *)
(* three of the counts copied to the run's manifest.                       *)
(*                                                                         *)
(* Mutations run under the run lock (RunLock.tla), taken here as a mutex   *)
(* that a dead process gives up.  Every write of a file is a step of its   *)
(* own; a process may die between any two of them and starts again with an *)
(* empty memory.  A task is its status: the other fields of a patch        *)
(* travel with it.  What never changes the queue's answers is left out:    *)
(* the copy in queue.jsonl, checksums and timestamps; the log never holds  *)
(* a "delete".                                                             *)
(***************************************************************************)
EXTENDS Integers, Sequences, FiniteSets, SequencesExt

CONSTANTS
    Process,        \* the processes that use the queue
    Task,           \* task identifiers
    Status,         \* task statuses
    Pending,        \* the status of a new task
    Reported,       \* the statuses whose counts the manifest holds
    Absent,         \* no such task
    Nobody,         \* the lock is free
    NoCache,        \* the process has no index of the queue in memory
    NoCounter,      \* queue_sequence.txt does not exist
    Batch,          \* the sequences of tasks that one call creates
    Environment     \* the environments considered

(***************************************************************************)
(* "crash"     processes die, though not between the append of a line and  *)
(*             the write of the counter                                    *)
(* "window"    they die there as well                                      *)
(* "snapshot"  createQueueSnapshot is called                               *)
(* "rerun"     tasks are created that already exist (a plan queued twice)  *)
(* "reader"    a load verifies the queue while another process writes it   *)
(*                                                                         *)
(* maxUpdates is the threshold of the compaction configuration, maxSeq the *)
(* bound on the sequence numbers used.                                     *)
(***************************************************************************)
EventKind == {"crash", "window", "snapshot", "rerun", "reader"}

\* A process's view of the queue: the tasks, their counts by status, the last number applied.
Index == [tasks : [Task -> Status \cup {Absent}], counts : [Status -> Int], lastSeq : Nat]

ASSUME QueueAssumption ==
    /\ Pending \in Status /\ Absent \notin Status /\ Reported \subseteq Status
    /\ Nobody \notin Process
    /\ Batch \subseteq Seq(Task) \ {<<>>}
    /\ NoCounter \notin Nat /\ NoCache \notin Index
    /\ Environment \subseteq
            [events : SUBSET EventKind, procs : SUBSET Process, maxUpdates : Nat \ {0},
             maxSeq : Nat]

VARIABLES
    log,        \* queue_operations.log: a sequence of operations
    counter,    \* queue_sequence.txt
    snapshot,   \* queue_snapshot.json; lastSeq = 0 when there is none
    manifest,   \* the counts in manifest.json
    cache,      \* v2IndexCache of each process
    pc,         \* where the call of each process is
    call,       \* what it does
    work,       \* the state that a compaction saves
    lock,       \* the process that holds the run lock
    seen,       \* verifyQueueIntegrity: the snapshot's number it has read, or -1
    alarm,      \* a load has reported a corrupt queue
    env         \* the environment of this behaviour

disk == <<log, counter, snapshot>>
vars == <<log, counter, snapshot, manifest, cache, pc, call, work, lock, seen, alarm, env>>

Create(tasks) == [kind |-> "create", tasks |-> tasks, status |-> Pending]
Update(t, s) == [kind |-> "update", tasks |-> <<t>>, status |-> s]
Snapshot == [kind |-> "snapshot", tasks |-> <<>>, status |-> Pending]

Mutation == {Create(b) : b \in Batch} \cup {Update(t, s) : t \in Task, s \in Status}
Operation == Mutation \cup {Snapshot}

Resting == {"rest", "ok", "failed"}
Before == {"open", "append"}
After == {"commit", "save", "truncate", "recount", "manifest"}

NewIndex ==
    [tasks |-> [t \in Task |-> Absent], counts |-> [s \in Status |-> 0], lastSeq |-> 0]
Line == [kind : {"create", "update"}, seq : Nat \ {0}, task : Task, status : Status]

Init ==
    /\ log = <<>>
    /\ counter = NoCounter
    /\ snapshot = NewIndex
    /\ manifest = [s \in Reported |-> 0]
    /\ cache = [p \in Process |-> NoCache]
    /\ pc = [p \in Process |-> "rest"]
    /\ call = [p \in Process |-> Snapshot]
    /\ work = [p \in Process |-> NewIndex]
    /\ lock = Nobody
    /\ seen = [p \in Process |-> -1]
    /\ alarm = FALSE
    /\ env \in Environment

Goto(p, label) == pc' = [pc EXCEPT ![p] = label]
-----------------------------------------------------------------------------
(***************************************************************************)
(* The index and the log.                                                  *)
(***************************************************************************)
\* Mutant: the status a task leaves keeps its count.
MovedUp(counts, from, to) == [s \in Status |-> counts[s] + (IF s = to THEN 1 ELSE 0)]

\* Counts after a task went from one status to another; a new one comes from Absent.
Moved(counts, from, to) ==
    [s \in Status |->
        counts[s] - (IF s = from THEN 1 ELSE 0) + (IF s = to THEN 1 ELSE 0)]

SetTask(index, t, from, to) ==
    [index EXCEPT !.tasks[t] = to, !.counts = Moved(@, from, to)]

\* Mutant: operations that the snapshot covers are replayed.
ApplyOperationAgain(index, line) ==
    LET next == [index EXCEPT !.lastSeq = line.seq] IN
    IF line.kind = "create" THEN SetTask(next, line.task, Absent, line.status)
    ELSE IF index.tasks[line.task] = Absent THEN next
    ELSE SetTask(next, line.task, index.tasks[line.task], line.status)

\* applyOperation: a create adds the task whether or not it is there.
ApplyOperation(index, line) ==
    IF line.seq <= index.lastSeq THEN index
    ELSE LET next == [index EXCEPT !.lastSeq = line.seq] IN
         IF line.kind = "create" THEN SetTask(next, line.task, Absent, line.status)
         ELSE IF index.tasks[line.task] = Absent THEN next
         ELSE SetTask(next, line.task, index.tasks[line.task], line.status)

\* The number of the last operation on disk.
LastSeq ==
    IF log # <<>> /\ log[Len(log)].seq > snapshot.lastSeq
    THEN log[Len(log)].seq ELSE snapshot.lastSeq

Numbered(index, seq) == [tasks |-> index.tasks, counts |-> index.counts, lastSeq |-> seq]

\* hydrateIndex; the log is in order, sorting it changes nothing (AlwaysLoadable).
Hydrated == Numbered(FoldLeft(ApplyOperation, snapshot, log), LastSeq)

\* Mutant: the index is not told of the call.
IgnoreCall(index, op) == index

\* addTask ignores a task that is there, updateTask one that is not.
ApplyEdit(index, edit) ==
    IF (edit.kind = "create") = (index.tasks[edit.task] = Absent)
    THEN SetTask(index, edit.task, index.tasks[edit.task], edit.status)
    ELSE index

Edits(op) ==
    [i \in 1..Len(op.tasks) |-> [kind |-> op.kind, task |-> op.tasks[i], status |-> op.status]]

\* The in-memory side of a call.
ApplyCall(index, op) == FoldLeft(ApplyEdit, index, Edits(op))

\* readSequenceCounter: without a counter file, the last number in the log.
ReadSequence ==
    IF counter # NoCounter THEN counter
    ELSE IF log = <<>> THEN 0 ELSE log[Len(log)].seq

\* Mutant: the first operation takes the number of the last one.
LinesFromLast(op) ==
    [i \in 1..Len(op.tasks) |->
        [kind |-> op.kind, seq |-> ReadSequence + i - 1, task |-> op.tasks[i],
         status |-> op.status]]

Lines(op) ==
    [i \in 1..Len(op.tasks) |->
        [kind |-> op.kind, seq |-> ReadSequence + i, task |-> op.tasks[i],
         status |-> op.status]]

\* Mutant: the expected number is not advanced.
VerifiesStanding(seq) ==
    LET Behind == {i \in DOMAIN log : log[i].seq > seq}
    IN  \A i \in Behind :
            IF i - 1 \in Behind THEN log[i].seq = log[i - 1].seq
            ELSE seq = 0 \/ log[i].seq = seq + 1

(***************************************************************************)
(* verifyQueueIntegrity, given the number of the snapshot it has read: the *)
(* operations after it follow it without gap or repetition.  Without a     *)
(* snapshot the first operation may have any number.                       *)
(***************************************************************************)
Verifies(seq) ==
    LET Behind == {i \in DOMAIN log : log[i].seq > seq}
    IN  \A i \in Behind :
            IF i - 1 \in Behind THEN log[i].seq = log[i - 1].seq + 1
            ELSE seq = 0 \/ log[i].seq = seq + 1
-----------------------------------------------------------------------------
(***************************************************************************)
(* Calls: appendToQueue, updateTaskInQueue, createQueueSnapshot.           *)
(***************************************************************************)
\* A call enters withLock.  createQueueSnapshot has an index before it asks for the lock.
Begin(p, op) ==
    /\ p \in env.procs
    /\ pc[p] \in Resting
    /\ lock = Nobody
    /\ op = Snapshot => "snapshot" \in env.events /\ cache[p] # NoCache
    /\ op.kind = "create" =>
        "rerun" \in env.events \/ \A t \in Range(op.tasks) : Hydrated.tasks[t] = Absent
    /\ ReadSequence + Len(op.tasks) <= env.maxSeq
    /\ lock' = p
    /\ call' = [call EXCEPT ![p] = op]
    /\ Goto(p, "open")
    /\ UNCHANGED <<log, counter, snapshot, manifest, cache, work, seen, alarm, env>>

Finish(p, label) ==
    /\ lock' = Nobody
    /\ Goto(p, label)

\* getV2IndexCache: an index is read from disk once and never again.
OpenCache(p) ==
    /\ pc[p] = "open"
    /\ call[p].kind # "snapshot"
    /\ LET index == IF cache[p] = NoCache THEN Hydrated ELSE cache[p]
           missing == call[p].kind = "update" /\ index.tasks[call[p].tasks[1]] = Absent
       IN /\ cache' = [cache EXCEPT ![p] = index]
          /\ IF missing THEN Finish(p, "failed")
                        ELSE Goto(p, "append") /\ UNCHANGED lock
    /\ UNCHANGED <<log, counter, snapshot, manifest, call, work, seen, alarm, env>>

\* appendOperation, appendOperationsBatch: the lines of a call in one write.
AppendLines(p) ==
    /\ pc[p] = "append"
    /\ log' = log \o Lines(call[p])
    /\ Goto(p, "commit")
    /\ UNCHANGED <<counter, snapshot, manifest, cache, call, work, lock, seen, alarm, env>>

\* The counter file, then the index in memory; shouldCompact counts the lines.
Commit(p) ==
    /\ pc[p] = "commit"
    /\ counter' = log[Len(log)].seq
    /\ LET index == Numbered(ApplyCall(cache[p], call[p]), counter')
           full == call[p].kind = "update" /\ Len(log) >= env.maxUpdates
       IN /\ cache' = [cache EXCEPT ![p] = index]
          /\ work' = [work EXCEPT ![p] = IF full THEN index ELSE @]
          /\ Goto(p, IF full THEN "save" ELSE "manifest")
    /\ UNCHANGED <<log, snapshot, manifest, call, lock, seen, alarm, env>>

(***************************************************************************)
(* compact rebuilds the state from disk: nothing new since the snapshot    *)
(* means there is at most a log to cut, left by a crash after the save.    *)
(***************************************************************************)
Rebuild(p) ==
    /\ pc[p] = "open"
    /\ call[p].kind = "snapshot"
    /\ \/ /\ Hydrated.lastSeq # snapshot.lastSeq
          /\ work' = [work EXCEPT ![p] = Hydrated]
          /\ Goto(p, "save")
          /\ UNCHANGED lock
       \/ /\ Hydrated.lastSeq = snapshot.lastSeq
          /\ IF log = <<>> THEN Finish(p, "ok") ELSE Goto(p, "truncate") /\ UNCHANGED lock
          /\ UNCHANGED work
    /\ UNCHANGED <<log, counter, snapshot, manifest, cache, call, seen, alarm, env>>

\* saveSnapshot renames a complete file into place.
SaveSnapshot(p) ==
    /\ pc[p] = "save"
    /\ snapshot' = work[p]
    /\ work' = [work EXCEPT ![p] = NewIndex]
    /\ Goto(p, "truncate")
    /\ UNCHANGED <<log, counter, manifest, cache, call, lock, seen, alarm, env>>

\* truncateOperationsLogToSeq empties the log, then writes the counter.
TruncateLog(p) ==
    /\ pc[p] = "truncate"
    /\ log' = <<>>
    /\ Goto(p, "recount")
    /\ UNCHANGED <<counter, snapshot, manifest, cache, call, work, lock, seen, alarm, env>>

\* Mutant: truncateOperationsLog, which starts again from 0.
ResetCounterToZero(p) ==
    /\ pc[p] = "recount"
    /\ counter' = 0
    /\ IF call[p].kind = "snapshot" THEN Finish(p, "ok")
                                    ELSE Goto(p, "manifest") /\ UNCHANGED lock
    /\ UNCHANGED <<log, snapshot, manifest, cache, call, work, seen, alarm, env>>

ResetCounter(p) ==
    /\ pc[p] = "recount"
    /\ counter' = snapshot.lastSeq
    /\ IF call[p].kind = "snapshot" THEN Finish(p, "ok")
                                    ELSE Goto(p, "manifest") /\ UNCHANGED lock
    /\ UNCHANGED <<log, snapshot, manifest, cache, call, work, seen, alarm, env>>

\* Mutant: an update refreshes only that count, too.
UpdateManifestPending(p) ==
    /\ pc[p] = "manifest"
    /\ manifest' = [s \in Reported |-> IF s # Pending THEN manifest[s] ELSE cache[p].counts[s]]
    /\ Finish(p, "ok")
    /\ UNCHANGED <<log, counter, snapshot, cache, call, work, seen, alarm, env>>

\* appendToQueue refreshes only the count of pending tasks.
UpdateManifest(p) ==
    /\ pc[p] = "manifest"
    /\ manifest' = [s \in Reported |->
                        IF call[p].kind = "create" /\ s # Pending
                        THEN manifest[s] ELSE cache[p].counts[s]]
    /\ Finish(p, "ok")
    /\ UNCHANGED <<log, counter, snapshot, cache, call, work, seen, alarm, env>>
-----------------------------------------------------------------------------
(***************************************************************************)
(* Loads, which take no lock, and crashes.                                 *)
(***************************************************************************)
\* getV2IndexCache called by a reader.
LoadCache(p) ==
    /\ p \in env.procs
    /\ cache[p] = NoCache
    /\ cache' = [cache EXCEPT ![p] = Hydrated]
    /\ UNCHANGED <<log, counter, snapshot, manifest, pc, call, work, lock, seen, alarm, env>>

\* verifyQueueIntegrity reads the snapshot, then the log.
VerifySnapshot(p) ==
    /\ "reader" \in env.events
    /\ p \in env.procs
    /\ seen[p] = -1
    /\ seen' = [seen EXCEPT ![p] = snapshot.lastSeq]
    /\ UNCHANGED <<log, counter, snapshot, manifest, cache, pc, call, work, lock, alarm, env>>

VerifyLog(p) ==
    /\ seen[p] # -1
    /\ alarm' = (alarm \/ ~Verifies(seen[p]))
    /\ seen' = [seen EXCEPT ![p] = -1]
    /\ UNCHANGED <<log, counter, snapshot, manifest, cache, pc, call, work, lock, env>>

\* The process is started again; others find its lock stale (RunLock.tla).
Crash(p) ==
    /\ "crash" \in env.events
    /\ p \in env.procs
    /\ pc[p] = "commit" => "window" \in env.events
    /\ cache' = [cache EXCEPT ![p] = NoCache]
    /\ work' = [work EXCEPT ![p] = NewIndex]
    /\ Goto(p, "rest")
    /\ lock' = IF lock = p THEN Nobody ELSE lock
    /\ seen' = [seen EXCEPT ![p] = -1]
    /\ UNCHANGED <<log, counter, snapshot, manifest, call, alarm, env>>

Next ==
    \E p \in Process :
        \/ \E op \in Operation : Begin(p, op)
        \/ OpenCache(p)
        \/ AppendLines(p)
        \/ Commit(p)
        \/ Rebuild(p)
        \/ SaveSnapshot(p)
        \/ TruncateLog(p)
        \/ ResetCounter(p)
        \/ UpdateManifest(p)
        \/ LoadCache(p)
        \/ VerifySnapshot(p)
        \/ VerifyLog(p)
        \/ Crash(p)

Spec == Init /\ [][Next]_vars
-----------------------------------------------------------------------------
(***************************************************************************)
(* Properties.                                                             *)
(***************************************************************************)
Alone == \E p \in Process : env.procs = {p}
OnceOnly == "rerun" \notin env.events

(***************************************************************************)
(* verifyQueueIntegrity passes in every state that a crash can leave: the  *)
(* log is in order and continues the snapshot without gap or repetition,   *)
(* also between the steps of a compaction.                                 *)
(***************************************************************************)
AlwaysLoadable ==
    /\ \A i, j \in DOMAIN log : i < j => log[i].seq < log[j].seq
    /\ Verifies(snapshot.lastSeq)

(***************************************************************************)
(* QueueOperation.seq: "Monotonically increasing sequence number" -- an    *)
(* operation never gets a number that the log or the snapshot has already. *)
(***************************************************************************)
NumbersAreFresh ==
    [][\A p \in Process : AppendLines(p) =>
        /\ snapshot.lastSeq <= ReadSequence
        /\ \A i \in DOMAIN log : log[i].seq <= ReadSequence]_vars

(***************************************************************************)
(* QueueSnapshotV2.snapshotSeq: "Sequence number watermark (all ops <=     *)
(* this are in snapshot)" -- saving a snapshot and cutting the log leave   *)
(* every task as a restart would have found it before.                     *)
(***************************************************************************)
CompactionLosesNothing ==
    [][\A p \in Process : SaveSnapshot(p) \/ TruncateLog(p) =>
        Hydrated'.tasks = Hydrated.tasks]_vars

(***************************************************************************)
(* The index of a process that has the queue for itself is the one that a  *)
(* restart would rebuild from disk ("Rebuilt from snapshot + WAL replay on *)
(* load"), whatever calls, compactions and crashes came before.            *)
(***************************************************************************)
CacheCurrent ==
    Alone /\ OnceOnly /\ lock = Nobody =>
        \A p \in Process : cache[p] \in {NoCache, Hydrated}

TasksCounted ==
    \A s \in Status : Hydrated.counts[s] = Cardinality({t \in Task : Hydrated.tasks[t] = s})

ManifestCounted == \A s \in Reported : manifest[s] = Hydrated.counts[s]

(***************************************************************************)
(* The incremental counts never drift from the tasks they count            *)
(* (validateCounts), through replay and snapshots, unless a task is        *)
(* created twice; and the manifest's three are those of the queue whenever *)
(* no call is under way, in a process that runs alone and does not crash,  *)
(* although appendToQueue refreshes only one of them.                      *)
(***************************************************************************)
CountsAgree ==
    OnceOnly =>
        /\ TasksCounted
        /\ Alone /\ "crash" \notin env.events /\ lock = Nobody => ManifestCounted

(***************************************************************************)
(* A load reports corruption only when there is some: reading the snapshot *)
(* and then the log is harmless unless a compaction comes in between.      *)
(***************************************************************************)
ColdLoadQuiet == ~alarm

(***************************************************************************)
(* Seen from its callers the queue is an atomic, durable store of tasks    *)
(* (TaskStore.tla), its contents what a restart would rebuild.             *)
(***************************************************************************)
Phase(p) ==
    IF call[p].kind = "snapshot" THEN "rest"
    ELSE IF pc[p] \in Before THEN "asked"
    ELSE IF pc[p] \in After THEN "done" ELSE pc[p]

Promise == INSTANCE TaskStore
    WITH store <- Hydrated.tasks, phase <- [p \in Process |-> Phase(p)]
ImplementsTaskStore == Promise!Spec
=============================================================================
