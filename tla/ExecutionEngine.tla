-------------------------- MODULE ExecutionEngine --------------------------
(***************************************************************************)
(* CLIExecutionEngine.execute (src/workflows/cliExecutionEngine.ts): one   *)
(* loop keeps up to max_parallel_tasks promises of runTask in flight, each *)
(* of which takes a task from the queue through its strategy and writes    *)
(* the outcome back.                                                       *)
(*                                                                         *)
(* The promises of one process interleave at every await, so each update   *)
(* of the queue and each run of a strategy is a step.  The queue itself is *)
(* the atomic store of TaskStore.tla; what a restart finds in it is what   *)
(* the updates left.  A task is its status, its retry_count and whether    *)
(* its last_error is unrecoverable.  Telemetry, artifacts and the length   *)
(* of a backoff are left out.                                              *)
(***************************************************************************)
EXTENDS Integers, FiniteSets

CONSTANTS
    Task,           \* the tasks of the queue
    Position,       \* the place of each in it
    Environment     \* the environments considered

(***************************************************************************)
(* "crash"   the process dies, or is started again by "resume"             *)
(* "update"  calls on the queue throw: updates before they take effect     *)
(*           (the lock's timeout, a failed append) or after it (a failed   *)
(*           write of the manifest), and reads                             *)
(* "stop"    stop() is called                                              *)
(*                                                                         *)
(* kind tells the tasks whose identifier is rejected and those for which   *)
(* no strategy is registered.                                              *)
(***************************************************************************)
EventKind == {"crash", "update", "stop"}
TaskKind == {"plain", "badId", "noStrategy"}

ASSUME EngineAssumption ==
    /\ IsFiniteSet(Task)
    /\ Position \in [Task -> Nat]
    /\ \A t, u \in Task : Position[t] = Position[u] => t = u
    /\ Environment \subseteq
            [events : SUBSET EventKind, deps : [Task -> SUBSET Task],
             maxRetries : [Task -> Nat], parallel : Nat \ {0},
             kind : [Task -> TaskKind], dryRun : BOOLEAN]

VARIABLES
    status,         \* of each task, in the queue
    retries,        \* retry_count
    fatal,          \* last_error.recoverable is false
    stage,          \* where the promise of each task is; "idle" without one
    read,           \* the retry_count the promise was given
    phase,          \* where the loop of execute() is
    stopped,        \* stop() was called
    tally,          \* the counts that execute() returns
    env             \* the environment of this behaviour

queue == <<status, retries, fatal>>
vars == <<status, retries, fatal, stage, read, phase, stopped, tally, env>>

Status == {"pending", "running", "completed", "failed", "skipped"}
Working == {"begin", "work", "complete", "retry", "exhausted", "fatal", "error"}
Outcome == {"success", "permanent", "failed"}
Looping == {"check", "fill", "race"}
Over == {"returned", "rejected"}

NoTally == [completed |-> 0, failed |-> 0, permanent |-> 0]

TypeOK ==
    /\ status \in [Task -> Status]
    /\ retries \in [Task -> Nat]
    /\ fatal \in [Task -> BOOLEAN]
    /\ stage \in [Task -> {"idle", "rejected"} \cup Working \cup Outcome]
    /\ read \in [Task -> Nat]
    /\ phase \in Looping \cup Over
    /\ stopped \in BOOLEAN
    /\ tally \in [completed : Nat, failed : Nat, permanent : Nat]
    /\ env \in Environment

Init ==
    /\ status = [t \in Task |-> "pending"]
    /\ retries = [t \in Task |-> 0]
    /\ fatal = [t \in Task |-> FALSE]
    /\ stage = [t \in Task |-> "idle"]
    /\ read = [t \in Task |-> 0]
    /\ phase = "check"
    /\ stopped = FALSE
    /\ tally = NoTally
    /\ env \in Environment
-----------------------------------------------------------------------------
(***************************************************************************)
(* executionDependencyResolver.ts and ExecutionTask.ts.                    *)
(***************************************************************************)
InFlight == {t \in Task : stage[t] # "idle"}

\* Mutant: one retry too many.
MayRetryInclusive(count, recoverable, limit) == count <= limit /\ recoverable

\* Mutant: an unrecoverable error is tried again.
MayRetryAnything(count, recoverable, limit) == count < limit

\* canRetry, of a failed task.
MayRetry(count, recoverable, limit) == count < limit /\ recoverable

CanRetry(t) == status[t] = "failed" /\ MayRetry(retries[t], ~fatal[t], env.maxRetries[t])

\* Mutant: a dependency that has ended is enough.
DependenciesEnded(t) == \A d \in env.deps[t] : status[d] \in {"completed", "failed", "skipped"}

\* areDependenciesCompleted
DependenciesCompleted(t) == \A d \in env.deps[t] : status[d] = "completed"

Eligible ==
    {t \in Task \ InFlight :
        /\ status[t] \in {"running", "pending"} \/ CanRetry(t)
        /\ DependenciesCompleted(t)}

Rank(t) == CASE status[t] = "running" -> 1 [] status[t] = "pending" -> 2 [] OTHER -> 3
Precedes(t, u) ==
    \/ Rank(t) < Rank(u)
    \/ Rank(t) = Rank(u) /\ Position[t] < Position[u]

AtMost(n, m) == IF n <= m THEN n ELSE m

(***************************************************************************)
(* getReadyTasks(limit): the first tasks of the buckets running, pending   *)
(* and retryable, each in the order of the queue.  The one set there is.   *)
(***************************************************************************)
Selections(limit) ==
    {S \in SUBSET Eligible :
        /\ Cardinality(S) = AtMost(limit, Cardinality(Eligible))
        /\ \A t \in S, u \in Eligible \ S : Precedes(t, u)}
-----------------------------------------------------------------------------
(***************************************************************************)
(* The loop.                                                               *)
(***************************************************************************)
\* Mutant: the promises that are pending are forgotten.
FullCapacity == env.parallel

Capacity == env.parallel - Cardinality(InFlight)

\* Mutant: a stopped loop waits even when nothing is in flight.
CheckHanging ==
    /\ phase = "check"
    /\ phase' = IF ~stopped /\ Capacity > 0 THEN "fill" ELSE "race"
    /\ UNCHANGED <<status, retries, fatal, stage, read, stopped, tally, env>>

\* The head of the loop, up to the await of getReadyTasks or of Promise.race.
Check ==
    /\ phase = "check"
    /\ phase' = CASE stopped /\ InFlight = {} -> "returned"
                  [] ~stopped /\ Capacity > 0 -> "fill"
                  [] OTHER -> "race"
    /\ UNCHANGED <<status, retries, fatal, stage, read, stopped, tally, env>>

\* Mutant: the loop ends when nothing is ready, though promises are pending.
FillImpatient ==
    /\ phase = "fill"
    /\ \E S \in Selections(Capacity) :
        /\ stage' = [t \in Task |-> IF t \in S THEN "begin" ELSE stage[t]]
        /\ read' = [t \in Task |-> IF t \in S THEN retries[t] ELSE read[t]]
        /\ phase' = IF S = {} THEN "returned" ELSE "race"
    /\ UNCHANGED <<status, retries, fatal, stopped, tally, env>>

\* fillTaskBatch: the queue is read, and the tasks chosen are launched with it.
Fill ==
    /\ phase = "fill"
    /\ \E S \in Selections(Capacity) :
        /\ stage' = [t \in Task |-> IF t \in S THEN "begin" ELSE stage[t]]
        /\ read' = [t \in Task |-> IF t \in S THEN retries[t] ELSE read[t]]
        /\ phase' = IF S = {} /\ InFlight = {} THEN "returned" ELSE "race"
    /\ UNCHANGED <<status, retries, fatal, stopped, tally, env>>

FillThrows ==
    /\ "update" \in env.events
    /\ phase = "fill"
    /\ phase' = "rejected"
    /\ UNCHANGED <<status, retries, fatal, stage, read, stopped, tally, env>>

\* Mutant: a permanent failure is counted twice.
CountedTwice(outcome) ==
    CASE outcome = "success" -> [tally EXCEPT !.completed = @ + 1]
      [] outcome = "permanent" -> [tally EXCEPT !.permanent = @ + 2]
      [] OTHER -> [tally EXCEPT !.failed = @ + 1]

\* recordTaskOutcome
Counted(outcome) ==
    CASE outcome = "success" -> [tally EXCEPT !.completed = @ + 1]
      [] outcome = "permanent" -> [tally EXCEPT !.permanent = @ + 1]
      [] OTHER -> [tally EXCEPT !.failed = @ + 1]

\* Promise.race gives one of the promises that have settled.
Collect(t) ==
    /\ phase = "race"
    /\ stage[t] \in Outcome
    /\ stage' = [stage EXCEPT ![t] = "idle"]
    /\ tally' = Counted(stage[t])
    /\ phase' = "check"
    /\ UNCHANGED <<status, retries, fatal, read, stopped, env>>

\* A promise that rejects ends execute(); the others go on without it.
Reject(t) ==
    /\ phase = "race"
    /\ stage[t] = "rejected"
    /\ phase' = "rejected"
    /\ UNCHANGED <<status, retries, fatal, stage, read, stopped, tally, env>>

Loop == Check \/ Fill \/ FillThrows \/ \E t \in Task : Collect(t) \/ Reject(t)
-----------------------------------------------------------------------------
(***************************************************************************)
(* runTask, the promise of one task.                                       *)
(***************************************************************************)
Goto(t, label) == stage' = [stage EXCEPT ![t] = label]

Store(t, s, count, unrecoverable) ==
    /\ status' = [status EXCEPT ![t] = s]
    /\ retries' = [retries EXCEPT ![t] = count]
    /\ fatal' = [fatal EXCEPT ![t] = unrecoverable]

\* updateTaskInQueue: done, the promise is at "next"; thrown, at "catch".
Update(t, s, count, unrecoverable, next, catch) ==
    /\ \/ Store(t, s, count, unrecoverable) /\ Goto(t, next)
       \/ /\ "update" \in env.events
          /\ Goto(t, catch)
          /\ Store(t, s, count, unrecoverable) \/ UNCHANGED queue
    /\ UNCHANGED <<read, phase, stopped, tally, env>>

\* executeTask, up to the strategy; a dry run has none.
Begin(t) ==
    /\ stage[t] = "begin"
    /\ CASE env.kind[t] = "badId" ->
              Update(t, "failed", read[t] + 1, TRUE, "permanent", "error")
         [] env.kind[t] = "noStrategy" ->
              Update(t, "skipped", retries[t], TRUE, "permanent", "error")
         [] OTHER ->
              Update(t, "running", retries[t], fatal[t],
                     IF env.dryRun THEN "complete" ELSE "work", "error")

(***************************************************************************)
(* The strategy succeeds, reports a failure that it calls recoverable or   *)
(* not, or throws.                                                         *)
(***************************************************************************)
Execute(t) ==
    /\ stage[t] = "work"
    /\ \/ Goto(t, "complete")
       \/ Goto(t, "error")
       \/ \E recoverable \in BOOLEAN :
            Goto(t, IF MayRetry(read[t] + 1, recoverable, env.maxRetries[t]) THEN "retry"
                    ELSE IF recoverable THEN "exhausted" ELSE "fatal")
    /\ UNCHANGED <<status, retries, fatal, read, phase, stopped, tally, env>>

\* handleSuccess, handleDryRun
Complete(t) ==
    /\ stage[t] = "complete"
    /\ Update(t, "completed", retries[t], fatal[t], "success", "error")

\* handleFailure, after the backoff, when the task may be retried
Requeue(t) ==
    /\ stage[t] = "retry"
    /\ Update(t, "pending", read[t] + 1, FALSE, "failed", "error")

\* and when it may not
GiveUp(t) ==
    /\ stage[t] \in {"exhausted", "fatal"}
    /\ Update(t, "failed", read[t] + 1, stage[t] = "fatal", "permanent", "error")

\* handleTaskError: the exception is caught, unless its own update throws.
HandleError(t) ==
    /\ stage[t] = "error"
    /\ Update(t, "failed", read[t] + 1, FALSE, "failed", "rejected")

RunTask(t) ==
    Begin(t) \/ Execute(t) \/ Complete(t) \/ Requeue(t) \/ GiveUp(t) \/ HandleError(t)
-----------------------------------------------------------------------------
Stop ==
    /\ "stop" \in env.events
    /\ phase \in Looping
    /\ ~stopped
    /\ stopped' = TRUE
    /\ UNCHANGED <<status, retries, fatal, stage, read, phase, tally, env>>

\* The process is gone, at any point or because it has ended, and "resume" starts another.
Crash ==
    /\ "crash" \in env.events
    /\ stage' = [t \in Task |-> "idle"]
    /\ read' = [t \in Task |-> 0]
    /\ phase' = "check"
    /\ stopped' = FALSE
    /\ tally' = NoTally
    /\ UNCHANGED <<status, retries, fatal, env>>

Next ==
    \/ Loop
    \/ \E t \in Task : RunTask(t)
    \/ Stop
    \/ Crash

Spec == Init /\ [][Next]_vars

(***************************************************************************)
(* Promises whose await is over go on, a strategy ends (task_timeout_ms)   *)
(* and so does a backoff (60 seconds at most).                             *)
(***************************************************************************)
FairSpec == Spec /\ WF_vars(Loop) /\ \A t \in Task : WF_vars(RunTask(t))
-----------------------------------------------------------------------------
(***************************************************************************)
(* Properties.                                                             *)
(***************************************************************************)
Dependable == "update" \notin env.events

(***************************************************************************)
(* ExecutionTask.dependency_ids: "Must complete before this task starts"   *)
(* -- from its selection to the collection of its outcome, the tasks that  *)
(* a task depends on are completed in the queue and stay so, whatever the  *)
(* other promises do and whenever the process was restarted.               *)
(***************************************************************************)
DependenciesHold ==
    Dependable => \A t \in InFlight : \A d \in env.deps[t] : status[d] = "completed"

(***************************************************************************)
(* parallel-execution.md: "Never exceed max_parallel_tasks in-flight       *)
(* tasks" -- also counting the promises that a rejected execute() leaves.  *)
(***************************************************************************)
WithinLimit == Cardinality(InFlight) <= env.parallel

(***************************************************************************)
(* The retry_count of a task never passes max_retries (1 for a task that   *)
(* has none), through reported failures, exceptions, failing updates and   *)
(* restarts.                                                               *)
(***************************************************************************)
RetriesBounded ==
    \A t \in Task : retries[t] <= (IF env.maxRetries[t] = 0 THEN 1 ELSE env.maxRetries[t])

Settled(t) ==
    \/ status[t] \in {"completed", "skipped"}
    \/ status[t] = "failed" /\ (fatal[t] \/ retries[t] >= env.maxRetries[t])

(***************************************************************************)
(* A task that is completed, skipped or failed beyond retry is left alone: *)
(* its record never changes again and it is never launched again, in this  *)
(* execute() or after a restart.                                           *)
(***************************************************************************)
SettledForGood ==
    [][Dependable => \A t \in Task : Settled(t) =>
        /\ status'[t] = status[t]
        /\ retries'[t] = retries[t]
        /\ stage[t] = "idle" => stage'[t] = "idle"]_vars

(***************************************************************************)
(* execute() returns only when nothing is left to do: each task is settled *)
(* or waits for a dependency that is not completed; none is left running   *)
(* and none that could be retried is forgotten.                            *)
(***************************************************************************)
NothingLeft ==
    Dependable /\ phase = "returned" /\ ~stopped =>
        \A t \in Task :
            \/ Settled(t)
            \/ status[t] = "pending" /\ \E d \in env.deps[t] : status[d] # "completed"

(***************************************************************************)
(* ExecutionResult, which resume and start print: the completed tasks are  *)
(* counted exactly; those counted as permanently failed have failed or     *)
(* were skipped, and one of these not counted there is counted as failed.  *)
(***************************************************************************)
TallyAccurate ==
    Dependable /\ "crash" \notin env.events /\ phase = "returned" =>
        LET Lost == {t \in Task : status[t] \in {"failed", "skipped"}} IN
        /\ tally.completed = Cardinality({t \in Task : status[t] = "completed"})
        /\ tally.permanent <= Cardinality(Lost)
        /\ Cardinality(Lost) <= tally.permanent + tally.failed

(***************************************************************************)
(* execute() ends: retries run out, a cycle of dependencies is not waited  *)
(* for, and Promise.race is never left without a promise to settle.        *)
(***************************************************************************)
Terminates == ("crash" \notin env.events) ~> (phase \in Over)
=============================================================================
