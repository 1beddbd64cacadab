------------------------------- MODULE Runner -------------------------------
(***************************************************************************)
(* How a strategy executes a task: CodeMachineCLIAdapter with its flag     *)
(* that lets one execution in, or runCodeMachine with its log file; both   *)
(* over runProcess, which spawns a child, buffers what it prints, and ends *)
(* it after a timeout; and what normalizeResult makes of the result.  The  *)
(* tasks are those one engine runs side by side, one per member of Process.*)
(*                                                                         *)
(* The child (external) prints chunks, exits with a code or on a signal,   *)
(* and may leave its pipes open to children of its own.  What it prints    *)
(* carries markers, by which errors are classified.                        *)
(* env.cli says that the CLI strategy is there; env.keep is                *)
(* log_rotation_keep; env.supported, that the configured engine is one it  *)
(* knows; env.calls bounds the tasks.                                      *)
(***************************************************************************)
EXTENDS RunDirectory

CONSTANTS
    MaxChunks,      \* bound on the chunks a child prints
    MaxBuffer,      \* maxBufferSize, in chunks
    Rotation        \* log_rotation_mb, in chunks

ASSUME RunnerAssumption ==
    /\ MaxChunks \in Nat /\ MaxBuffer \in Nat /\ Rotation \in Nat \ {0}
    /\ \A e \in Environment : e.cli \in BOOLEAN /\ e.keep \in Nat \ {0}

VARIABLES
    job,            \* the task each caller executes
    executing,      \* CodeMachineCLIAdapter.executing
    logFile         \* the log of each task: [stream, queue, size, file, rotated, missed, evicted]

runnerVars == <<job, executing, logFile>>

Ended == [exit |-> 0, timedOut |-> FALSE, killed |-> FALSE, kept |-> 0, text |-> {}, refused |-> FALSE]

NoJob ==
    [at |-> "idle", child |-> "none", code |-> 0, printed |-> 0, kept |-> 0, over |-> FALSE, text |-> {},
     timedOut |-> FALSE, killed |-> FALSE, result |-> Ended,
     returned |-> [success |-> FALSE, status |-> "none", recoverable |-> FALSE]]

NoLog == [stream |-> "none", queue |-> <<>>, size |-> 0, file |-> <<>>, rotated |-> <<>>, missed |-> {}, evicted |-> <<>>]

RunnerInit ==
    /\ job = [p \in Process |-> NoJob]
    /\ executing = FALSE
    /\ logFile = [p \in Process |-> NoLog]

Sets(p, j) == job' = [job EXCEPT ![p] = j]
Finishes(p, result) == Sets(p, [job[p] EXCEPT !.at = "done", !.result = result])

\* Exit codes: a signal is no code.
TERM == -15
KILL == -9
-----------------------------------------------------------------------------
\* execute: the CLI strategy takes one task at a time, the other one any number.
BeginJob(p) ==
    /\ job[p].at = "idle" /\ Cardinality({q \in Process : job[q].at # "idle"}) < env.calls
    /\ IF env.cli /\ (executing \/ ~env.supported)
       THEN Finishes(p, [Ended EXCEPT !.exit = 1, !.refused = TRUE]) /\ UNCHANGED executing
       ELSE Sets(p, [job[p] EXCEPT !.at = "resolve"]) /\ executing' = env.cli
    /\ UNCHANGED logFile

\* executeInternal: the binary may be gone by now; a result like any other.
Resolve(p) ==
    /\ job[p].at = "resolve"
    /\ \/ Sets(p, [job[p] EXCEPT !.at = "spawn"])
       \/ "failure" \in env.events /\ Finishes(p, [Ended EXCEPT !.exit = 1])
    /\ UNCHANGED <<executing, logFile>>

SpawnChild(p) ==
    /\ job[p].at = "spawn"
    /\ \/ /\ Sets(p, [job[p] EXCEPT !.at = "running", !.child = "alive"])
          /\ logFile' = [logFile EXCEPT ![p].stream = IF env.cli THEN "none" ELSE "open"]
       \/ "failure" \in env.events /\ Finishes(p, [Ended EXCEPT !.exit = 1]) /\ UNCHANGED logFile
    /\ UNCHANGED executing

\* enqueueLogWrite: a chunk that arrives while there is no stream is dropped.
Enqueued(l, n) ==
    IF l.stream = "open" THEN [l EXCEPT !.queue = Append(@, n)]
    ELSE IF l.stream = "none" THEN l ELSE [l EXCEPT !.missed = @ \cup {n}]

\* accountChunk and onStdoutChunk.
ReadChunk(p) ==
    LET j == job[p]
        n == j.printed + 1
        over == j.over \/ j.kept + 1 > MaxBuffer
    IN  /\ j.at = "running" /\ j.child \in {"alive", "exited"}
        /\ n <= MaxChunks
        /\ \E marker \in {{}} \cup {{m} : m \in env.markers} :
            Sets(p, [j EXCEPT !.printed = n, !.over = over, !.kept = IF over THEN @ ELSE n,
                              !.text = IF over THEN @ ELSE @ \cup marker])
        /\ logFile' = [logFile EXCEPT ![p] = Enqueued(@, n)]
        /\ UNCHANGED executing

\* The child exits by itself, or somebody else kills it.
ExitChild(p) ==
    /\ job[p].child = "alive"
    /\ \E code \in {0, 1} \cup (IF "kill" \in env.events THEN {KILL, TERM} ELSE {}) :
        Sets(p, [job[p] EXCEPT !.child = "exited", !.code = code])
    /\ UNCHANGED <<executing, logFile>>

\* The timer of runProcess; the child dies, finishes in time after all, or takes no notice.
TimeOut(p) ==
    /\ "timeout" \in env.events
    /\ job[p].at = "running" /\ ~job[p].timedOut
    /\ \E j \in {job[p], [job[p] EXCEPT !.child = "exited", !.code = TERM]} :
        /\ job[p].child = "exited" => j = job[p]
        /\ Sets(p, [j EXCEPT !.timedOut = TRUE])
    /\ UNCHANGED <<executing, logFile>>

\* The second timer looks whether the pipes are closed, not whether the child has exited.
KillChild(p) ==
    /\ job[p].at = "running" /\ job[p].timedOut /\ ~job[p].killed
    /\ Sets(p, [job[p] EXCEPT !.killed = TRUE, !.child = "exited", !.code = IF job[p].child = "alive" THEN KILL ELSE @])
    /\ UNCHANGED <<executing, logFile>>

\* Mutant of ExitCode: what the child returns is what counts.
ExitCodeOfChild(j) == IF j.code = KILL THEN 137 ELSE IF j.code < 0 THEN 1 ELSE j.code

\* buildResult
ExitCode(j) ==
    IF j.timedOut THEN 124 ELSE IF j.code = KILL THEN 137 ELSE IF j.code < 0 THEN 1 ELSE j.code

\* The close event, once all pipes are closed.
CloseChild(p) ==
    LET j == job[p]
    IN  /\ j.at = "running" /\ j.child = "exited"
        /\ Sets(p, [j EXCEPT !.at = "flush", !.child = "closed",
                             !.result = [Ended EXCEPT !.exit = ExitCode(j), !.timedOut = j.timedOut, !.killed = j.killed,
                                                      !.kept = j.kept, !.text = j.text]])
        /\ UNCHANGED <<executing, logFile>>

\* Before it returns, runCodeMachine waits for the log.
Flush(p) ==
    /\ job[p].at = "flush"
    /\ logFile[p].queue = <<>> /\ logFile[p].stream # "rotating"
    /\ Sets(p, [job[p] EXCEPT !.at = "done"])
    /\ logFile' = [logFile EXCEPT ![p].stream = "none"]
    /\ UNCHANGED executing

\* The marker the first matching pattern of the list finds.
FirstOf(text, order) ==
    LET found == {i \in DOMAIN order : order[i] \in text}
    IN  IF found = {} THEN "unknown" ELSE order[CHOOSE i \in found : \A k \in found : i <= k]

\* categorizeError
Category(r) ==
    IF r.exit = 0 THEN "none" ELSE IF r.timedOut THEN "timeout" ELSE IF r.killed THEN "killed"
    ELSE FirstOf(r.text, <<"authentication", "rate_limit", "network", "validation">>)

\* isRecoverableError
RecoverableCategory(category) == category \in {"timeout", "rate_limit", "network", "killed"}

\* deriveStatus
ReturnedStatus(r) ==
    IF r.exit = 0 THEN "completed" ELSE IF r.timedOut THEN "timeout" ELSE IF r.killed THEN "killed" ELSE "failed"

\* normalizeResult
NormalizedResult(r) == [success |-> r.exit = 0, status |-> ReturnedStatus(r), recoverable |-> RecoverableCategory(Category(r))]

\* The strategy returns; the flag is reset by the execution that set it.
LeaveJob(p) ==
    /\ job[p].at = "done"
    /\ Sets(p, [job[p] EXCEPT !.at = "over", !.returned = NormalizedResult(job[p].result)])
    /\ executing' = (executing /\ job[p].result.refused)
    /\ UNCHANGED logFile
-----------------------------------------------------------------------------
\* One link of logQueue; a chunk that would fill the file rotates it first.
WriteChunk(p) ==
    LET l == logFile[p]
    IN  /\ l.queue # <<>> /\ l.stream \in {"open", "off"}
        /\ logFile' = [logFile EXCEPT ![p] =
                IF l.stream = "off" THEN [l EXCEPT !.queue = Tail(@), !.missed = @ \cup {Head(l.queue)}]
                ELSE IF l.size + 1 > Rotation THEN [l EXCEPT !.stream = "rotating", !.size = 0]
                ELSE [l EXCEPT !.queue = Tail(@), !.file = Append(@, Head(l.queue)), !.size = @ + 1]]
        /\ UNCHANGED <<job, executing>>

\* rotateLogFiles, a new stream, and the chunk that was waiting.
Rotate(p) ==
    LET l == logFile[p]
        all == <<l.file>> \o l.rotated
    IN  /\ l.stream = "rotating"
        /\ logFile' = [logFile EXCEPT ![p] =
                [l EXCEPT !.stream = "open", !.size = 1, !.queue = Tail(@),
                          !.rotated = SubSeq(all, 1, IF env.keep < Len(all) THEN env.keep ELSE Len(all)),
                          !.evicted = IF Len(all) <= env.keep THEN @ ELSE @ \o Seqs!Last(all),
                          !.file = <<Head(l.queue)>>]]
        /\ UNCHANGED <<job, executing>>

\* The write of the last chunk fails: the stream reports it and logging ends.
LogError(p) ==
    /\ "log" \in env.events
    /\ logFile[p].stream = "open" /\ logFile[p].file # <<>>
    /\ logFile' = [logFile EXCEPT ![p].stream = "off", ![p].file = Seqs!Front(@), ![p].missed = @ \cup {Seqs!Last(logFile[p].file)}]
    /\ UNCHANGED <<job, executing>>

RunnerNext ==
    \E p \in Process :
        \/ BeginJob(p) \/ Resolve(p) \/ SpawnChild(p) \/ ReadChunk(p) \/ ExitChild(p) \/ TimeOut(p) \/ KillChild(p) \/ CloseChild(p)
        \/ Flush(p) \/ LeaveJob(p) \/ WriteChunk(p) \/ Rotate(p) \/ LogError(p)
-----------------------------------------------------------------------------
(***************************************************************************)
(* A task is completed only if its child exited with 0 before the timeout; *)
(* one that timed out is never taken for completed or permanent, whatever  *)
(* its child still did.  A refused task never had a child, the CLI adapter *)
(* never has two at once, and its flag is up while it has one.             *)
(* (execute, runProcess, normalizeResult)                                  *)
(***************************************************************************)
JobsTrue ==
    /\ \A p \in Process :
        LET j == job[p]
        IN  j.at = "over" =>
                /\ j.returned.success => j.child = "closed" /\ j.code = 0 /\ ~j.timedOut
                /\ j.timedOut => j.returned.status = "timeout" /\ j.returned.recoverable
                /\ j.result.refused => j.child = "none" /\ ~j.returned.recoverable
    /\ env.cli =>
        LET busy == {p \in Process : job[p].at \in {"resolve", "spawn", "running", "flush"}}
        IN  (busy # {} => executing) /\ \A p, q \in busy : p = q

(***************************************************************************)
(* The log holds what the child printed in its order: what is missing      *)
(* arrived during a rotation, came after the stream failed, or was in the  *)
(* files that rotation removes, and then everything before it is gone too. *)
(* Without a rotation or an error nothing is missing.                      *)
(* (runCodeMachine, rotateLogFiles)                                        *)
(***************************************************************************)
Before(some, others) == \A i \in DOMAIN some, k \in DOMAIN others : some[i] < others[k]
InOrder(some) == \A i, k \in DOMAIN some : i < k => some[i] < some[k]
In(some, n) == \E i \in DOMAIN some : some[i] = n

LogOrdered(l) ==
    /\ InOrder(l.evicted) /\ InOrder(l.file) /\ InOrder(l.queue)
    /\ Before(l.evicted, l.file) /\ Before(l.evicted, l.queue) /\ Before(l.file, l.queue)
    /\ \A i \in DOMAIN l.rotated :
        /\ InOrder(l.rotated[i])
        /\ Before(l.evicted, l.rotated[i]) /\ Before(l.rotated[i], l.file) /\ Before(l.rotated[i], l.queue)
        /\ \A k \in 1..(i - 1) : Before(l.rotated[i], l.rotated[k])

InLog(l, n) == In(l.evicted, n) \/ In(l.file, n) \/ In(l.queue, n) \/ \E i \in DOMAIN l.rotated : In(l.rotated[i], n)

LogTrue ==
    ~env.cli =>
        \A p \in Process :
            LET l == logFile[p]
            IN  /\ LogOrdered(l)
                /\ \A n \in 0..(MaxChunks + 1) : InLog(l, n) <=> n \in 1..job[p].printed /\ n \notin l.missed
                /\ l.missed # {} => l.rotated # <<>> \/ l.stream = "rotating" \/ "log" \in env.events
                /\ Len(l.rotated) <= env.keep

RunnerAgrees == JobsTrue /\ LogTrue
=============================================================================
