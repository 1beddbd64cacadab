# Verification of codemachine-pipeline

TLA+ specifications of the parts of codemachine-pipeline that keep state, run
concurrently and have to survive crashes, with TLC configurations that check
them on small instances and TLAPS proofs for every instance. Paths below are
those of the repository (`src/…`); in `PROJECT.json` they carry the name of the
checkout in front (`src/src/…`).

To check a model: `tlc -config RunLock_sound.cfg MCRunLock`, and likewise with
the other `.cfg` files (each names its module by its first part, with `MC` in
front). To check the proofs: `tlapm RunLockProofs.tla`, and likewise for
`FoldLemmas.tla` and the other modules that end in `Proofs`.

Contents: [1 The system](#1-the-system) · [2 Plan](#2-plan) ·
[3 Run lock](#3-run-lock) · [4 Task queue](#4-task-queue) ·
[5 Execution engine](#5-execution-engine) ·
[6 Write actions](#6-write-actions) · [7 Run control](#7-run-control) ·
[8 Authoring](#8-authoring) · [9 Delivery](#9-delivery) ·
[10 Proofs](#10-proofs) · [11 What is not modelled](#11-what-is-not-modelled)

## 1. The system

`codepipe` is a command-line tool that takes a feature request or a Linear
issue through research, a PRD, a specification, a plan of tasks, their execution
by coding agents, validation, pull request and deployment. Everything it knows
of a run is in files of the run's directory, so that a run can be interrupted
at any point and taken up by `codepipe resume`, possibly while another command
(`status`, `approve`, a second `resume`) works in the same directory. There is
no server: concurrency is between the promises of one Node process, and between
processes that share a directory.

| component | state | operations | how it interacts | what is hard | what makes it correct |
|---|---|---|---|---|---|
| **Run lock** `persistence/lockManager.ts` | `run.lock`; a chain of promises and a nesting depth per process | `withLock`, stale-lock recovery | every writer of a run's files calls it | files left by dead processes, a lock file without contents, give-ups in the chain, nesting | exclusion; nobody's file but one's own is released; the lock is never orphaned |
| **Task queue** `workflows/queue/` | `queue_operations.log`, `queue_sequence.txt`, `queue_snapshot.json`; an index per process; counts in the manifest | create, update, compact, snapshot, load, verify | the engine, resume and the planner call it; it takes the run lock and writes the manifest | crashes between the files, stale indexes of other processes, counts kept by increments | an atomic durable store of tasks, whatever is compacted, replayed or crashed |
| **Execution engine** `workflows/cliExecutionEngine.ts` | promises in flight; counters | `execute`, `stop`, `runTask` | reads and updates the queue, runs strategies | outcomes that arrive in any order, retries, exceptions, restarts | dependencies first, limits kept, each task settled once, the loop ends with nothing left |
| **Execution strategies, process runner** `workflows/*Strategy.ts`, `utils/processRunner.ts` | a child process and its logs | run, time out, kill | called by the engine | SIGTERM then SIGKILL, truncated and rotated logs | a strategy always ends; an exit status is classified once |
| **Write-action queue** `workflows/writeActionQueue.ts` | `write_actions/queue.jsonl`, counts in the manifest | enqueue, drain, execute, clear | the rate-limit ledger, the run lock, the GitHub and Linear adapters | two drains, crashes in the middle of an action, failures after a side effect | an action is executed once; none is lost; pending actions are drained in the end |
| **Rate-limit ledger** `telemetry/rateLimitLedger.ts` | `rate_limits.json` | record an answer, cooldown, acknowledge | HTTP client writes, write-action queue reads | read-modify-write without a lock; expiry | no request during a cooldown; repeated limits wait for a person |
| **Manifest and run lifecycle** `persistence/manifestManager.ts`, `runLifecycle.ts` | `manifest.json` | create, update, status, steps, errors | everything | updates by several commands; two-file updates | no update is lost; status and steps agree |
| **Approvals** `workflows/approvalRegistry.ts` | `approvals/approvals.json`, lists in the manifest | require, grant, deny | pipeline, `approve`, resume | two files; an artifact that changes after its approval | a gate opens only for the artifact approved |
| **Pipeline** `workflows/pipelineOrchestrator.ts` | steps of the manifest | execute, phase by phase | research, PRD, engine, approvals | crash between pausing and requiring the approval | no execution past a closed gate |
| **Resume** `workflows/resumeCoordinator.ts`, `resumeIntegrityChecker.ts`, `resumeQueueRecovery.ts` | none of its own | analyse, prepare | manifest, hash manifest, queue, engine | every crash point of every other component | resumes what can be resumed, refuses what is damaged |
| **Cycle orchestrator, issue orderer** `workflows/cycleOrchestrator.ts`, `cycleIssueOrderer.ts` | a report | order issues, process one by one | Linear adapter, pipeline | cycles among the issues' relations | an order that respects the relations and loses no issue |
| **HTTP client** `adapters/http/client.ts` | none, ledger entries | request with retries | ledger, adapters | lost answers, retried mutations | bounded retries; one idempotency key per mutation |
| **Task planner** `workflows/taskPlanner*.ts`, `plannerDAG.ts` | `plan.json`, `plan_metadata.json` | build graph, order, diff | specification, queue | cycles, ids that stand twice | a topological order, or an error; a diff that tells the truth |
| **PRD, specification, trace map** `workflows/prd*.ts`, `spec*.ts`, `traceabilityMapper.ts` | a document, its metadata, approvals with an index | draft, compose, decide, trace | planner, pipeline | hashes taken outside the lock, several files per decision | what is called approved was approved |
| **Context** `workflows/context*.ts`, `summary*.ts` | `summary.json`, `file_hashes.json`, a summary per chunk | aggregate, rank, chunk, summarise | the pipeline, agents of the summariser | a document read, held and written back | a summary is of the contents it is filed under |
| **Research** `workflows/researchCoordinator.ts`, `researchDetection.ts` | a file per task, a log | detect, create, start, complete, fail | pipeline | completion without a look at the status | log and tasks agree; results are reused |
| **Patches, branches** `workflows/patchManager.ts`, `branchManager.ts` | git, patch records | apply, branch, commit, push | git | applied but not recorded | records agree with the tree |
| **Validation, auto-fix** `workflows/autoFixEngine.ts`, `validationRegistry.ts` | registry, ledger of attempts | initialise, run, fix, retry | `validate` | limits over restarts; fixes that break others | bounded attempts; success means that all pass |
| **Pull requests, branch protection** `cli/commands/pr/`, `workflows/branchProtectionReporter.ts` | `pr.json`, a report | create, ask, fetch, refresh | GitHub adapter | five answers that do not belong together | no record claims more than GitHub knows |
| **Deployment** `workflows/deployment/` | `deployment.json` | assess, merge, auto-merge, dispatch | GitHub adapter, `pr.json`, the report | a stale report, a head that moved | an outcome that says success happened |
| **Linear adapter** `adapters/linear/` | a cached snapshot per issue, an hourly budget | fetch, write, fetch a cycle | HTTP client | fallback to a cache, two requests for one snapshot | fresh means fresh |
| **Agent adapters, costs** `adapters/agents/`, `telemetry/costTracker.ts` | manifests in memory, `costs.json` and its log | choose, fall back, charge, flush | manifests on disk | reload while a session waits, torn totals | bounded fallback; every session charged once |
| configuration, telemetry, other commands, models | text and JSON files | | | sequential | |

Behaviours that decide how the models are cut:

- *One mutex for everything.* All writers of a run go through `withLock`. The
  lock is modelled by itself (`RunLock`), shown to implement a mutex (`Mutex`),
  and used as one by the other modules. Its one known hole is described in section 3.
- *Several files, no transaction.* A mutation of the queue appends a line, writes
  a counter, perhaps a snapshot, cuts the log and writes the manifest. Every
  write is a step and a process may die between any two.
- *Memory that outlives the lock.* The index of the queue, the copy of a task a
  promise was started with, the list of actions a drain has read: all are read
  under or before a lock and used after it.
- *Retries everywhere.* Tasks, write actions and requests are tried again after
  failures that may have had their effect.

## 2. Plan

| # | modules | status |
|---|---|---|
| 1 | `Mutex`, `RunLock`, `MCRunLock`, `RunLockProofs` | done |
| 2 | `TaskStore`, `QueueWal`, `MCQueueWal`, `QueueWalProofs`, `FoldLemmas` | done; torn writes and cold loads in two steps remain |
| 3 | `ExecutionEngine`, `MCExecutionEngine`, `ExecutionEngineProofs` | done |
| 4 | `WriteActionQueue`, `MCWriteActionQueue`, `WriteActionQueueProofs` | done; a damaged manifest and concurrent writes of the ledger remain |
| 5 | `RunControl` over `IssueOrder`, `MCRunControl`, `RunControlProofs`: manifest, approvals, pipeline, resume, cycle | done; the order of issues is checked only |
| 6 | `Authoring` over `Documents`, `TaskGraph`, `Research`, `Context`, `Linear`, `Runner`, `Validation`; `MCAuthoring`, `AuthoringProofs` | done; the order of plans and the budget of contexts are checked only |
| 7 | `Delivery` over `Deployment`, `PullRequests`, `GitHub`, `HttpClient`, `Patching`, `Agents`; `MCDelivery`, `DeliveryProofs` | done |

Every invariant of a passing run is a theorem for all values of the constants, except
`BlockersFirst`, `PlanOrder` and `WithinBudget`; section 10 says why these, and the
liveness properties, stay with TLC.

Which composes which: `RunLock` implements `Mutex`; every other module holds the
lock as that mutex. `QueueWal` implements `TaskStore`; `ExecutionEngine` uses the
queue as `TaskStore` promises it (an update is atomic, or throws before or after
its effect). `RunControl` takes the engine as something that runs the tasks or
fails. `Authoring` and `Delivery` compose the components that share one run
directory (`RunDirectory`: the lock, the processes, the environment); they share
its lock and no file, so that one environment exercises one of them and the
product of their states is never built.

One passing run per component is the rule: what may go wrong is a constant,
`Environment`, a set of records from which the initial state picks one. A
property that needs an assumption on the environment names it in its formula, so
that the run, the theorem and the reader see the same condition, and the
theorems are about every environment at once.

## 3. Run lock

`RunLock` models `withLock` line by line. One member of `Caller` is one call site
that may call again and again; `ProcOf` gives its process.

| state | code | actions | code |
|---|---|---|---|
| `lockFile` | `run.lock`: missing, empty (created, not yet written) or valid, whose, over age | `Enter`, `TakeTurn`, `TurnTimeout` | the chain of promises (`waitForInProcessTurn`) |
| `prev`, `tail` | the `prev` a call awaits; `inProcessQueue` | `CreateLock`, `WriteMetadata`, `WriteFails`, `CreateConflict` | the two system calls inside `writeFile` with flag `wx` |
| `depth` | `lockContextStorage` | `InspectLock`, `RemoveStaleLock`, `LockTimeout` | `handleLockConflict`, `isLockStale`, `removeStaleLock`, the deadline |
| `alive` | `isProcessRunning` | `Reenter`, `ExitNested`, `CallbackDone`, `ReleaseLock` | nesting, the `finally` blocks, the unconditional `unlink` |
| | | `Crash`, `AgeLock` | a process dies; a callback runs for more than five minutes |

*Checked* (`lock_sound`, 911 states): no two callbacks at once (by the refinement
below; `MutualExclusion` states it by itself); the file is its holder's while a callback runs
(`HolderOwnsFile`), and only the holder's own unlink removes it
(`ReleasesOwnFile`); the chain serialises the calls of a process unless one gives
up (`SequentialUnlessTimeout`) and nobody waits for a promise that nobody will
settle (`WaitsForLiveCall`); the lock implements `Mutex` (`ImplementsMutex`); and
whatever dead processes, failed writes and overlong callbacks leave behind,
contention ends with somebody getting in (`SomeoneGetsIn`). Deadlock is not
checked, since all processes may die.

*Bounds*: two calls of one process and one of another (both kinds of contention
occur), nesting up to two, and three environments: timeouts with both processes,
crashes with both, overlong callbacks and failing writes with one. *Fairness*: the
event loop runs what is ready, polling never stops (`setTimeout`), callbacks
settle; a caller need not call again.

*Violations*. `lock_empty_window`: `writeFile(…, {flag: 'wx'})` creates the file
and then fills it; a contender that reads in between finds invalid contents, takes
the lock for stale and removes it, and two callbacks run at once.

*Seen on the way*: a call that times out in the chain settles its promise, so its
successor competes for `run.lock` with the call that is still running, contrary
to the comment on the map ("callers targeting the same runDir execute
sequentially"); that is why `SequentialUnlessTimeout` has its name.

*Not shown*: with three processes two contenders can both judge a dead process's
file stale, and the second `unlink` removes the first one's new lock; a holder
over age with another live process loses its lock by design
(`STALE_LOCK_THRESHOLD_MS` is 300 000 ms; `docs/reference/run_directory_schema.md`
speaks of 60 seconds). The environments of `lock_sound` leave both out, and
the properties above are not claimed for them, `SequentialUnlessTimeout` and
`WaitsForLiveCall` excepted, which are proved for every environment (section 10). On Windows the answer of
`isProcessRunning` may be "unknown"; only its two definite answers are modelled.

## 4. Task queue

`QueueWal` models the version-2 queue: the operations log, the counter file, the
snapshot, the index in each process's memory and the three counts copied to the
manifest. A mutation takes the run lock, opens or loads the index (`OpenCache`),
appends its lines and writes the counter (`AppendLines`, one step unless the
environment has "window"), applies them to the index (`Commit`), perhaps
compacts (`SaveSnapshot`, `TruncateLog`, `ResetCounter`), recounts and writes the manifest
(`UpdateManifest`). `Crash` empties the memory of a process between any two of
these steps. `VerifySnapshot` and `VerifyLog` are the unlocked reads of the integrity
check. `Hydrated` is what a restart would rebuild from disk: snapshot, then log.

| property of `queue_sound` | what it says |
|---|---|
| `AlwaysLoadable` | the fail-fast checks of a cold load never reject what the queue wrote itself |
| `CacheCurrent` | the index of a process that is alone is what a restart would rebuild |
| `CountsAgree` | incremental counts do not drift; the manifest's agree between calls |
| `ColdLoadQuiet` | a load beside a writer reports no corruption unless there is some |
| `ImplementsTaskStore` | the whole is an atomic, durable store (`TaskStore`), call by call |

*Bounds* (104 050 states): two tasks, statuses pending and completed, at most four
sequence numbers, thresholds of two or three updates so that compaction happens
in the middle of a behaviour, in six environments: one process that crashes and
compacts, one that does not crash, one that queues its plan again, two that crash,
two that take snapshots, two of which one verifies while the other writes. More
tasks only repeat what two show: an operation on one task must not disturb
another. The specification has no fairness: every property is a safety property.
Deadlock is checked; a state in which the bound is reached still has steps.

*Violations*, of two properties that hold where the refinement does.
`queue_counter_window` (`NumbersAreFresh`): a crash between the append of a line and the
write of the counter gives the next operation the same number, and replay skips
it, although the number is documented as "Monotonically increasing".
`queue_stale_compaction` (`CompactionLosesNothing`): the index is cached per process and never read again;
when a second process reaches the threshold it saves its own view under the other
one's number and cuts the other's operations, against "all ops <= this are in
snapshot".

## 5. Execution engine

`ExecutionEngine` models `execute()`: a loop (`phase`) that checks `stop()` and the
queue (`Check`), fills free places by the priorities of `getReadyTasks` (`Fill`)
and collects the first promise that settles (`Collect`, the `Promise.race`), and
one promise per task (`stage`) that goes through `runTask`, `executeTask`,
the retry rules and `handleTaskError`. Every update of the queue, every strategy
run and every backoff is a step, so that promises interleave as they do at the
`await`s. The queue is `TaskStore`'s promise: an update is atomic, and with
"update" in the environment it may throw before or after it took effect.
`Crash` is a dead process and the next `resume`.

| property of `engine_sound` | what it says |
|---|---|
| `DependenciesHold` | from selection to collection the dependencies of a task are completed |
| `WithinLimit` | never more promises than `max_parallel_tasks`, also after `execute()` rejected |
| `RetriesBounded` | `retry_count` never passes the limit on any of its three paths |
| `SettledForGood` | what is completed, skipped or failed for good never changes or starts again |
| `NothingLeft` | a return of `execute()` leaves only settled tasks and dependents of those that did not complete |
| `TallyAccurate` | the counts returned agree with the queue |
| `Terminates` | `execute()` ends, with stop, cycles, exceptions and retries |

*Bounds* (123 790 states): three tasks, two dependency shapes and a cycle, one to
three places, zero to two retries, a task without strategy, one with a rejected
identifier, a dry run, in nine environments. *Fairness*: the loop and each promise
go on when they can (`task_timeout_ms` ends a strategy, a backoff is at most 60
seconds). Deadlock is not checked: `execute()` returns.

What the model shows on the way and the documents put differently: a task is
attempted max(1, `max_retries`) times; a crash does not count as an attempt, so a
running task is executed again; a dependent of a failed task stays `pending`,
`docs/reference/parallel-execution.md` calls it blocked; `skippedTasks` is never
incremented; a task that is retried is counted in `failedTasks` once per failure,
which is why the counts printed by resume are of failures, not of tasks. Two
engines on one run are not modelled.

## 6. Write actions

`WriteActionQueue` models the queue of writes on GitHub. It has tests and an
example but no caller in `src/` yet, so that its users are taken to be what the
playbook describes: processes that enqueue, drain again and again, and clear.

| state | code | actions | code |
|---|---|---|---|
| `queue` | `queue.jsonl`, as `loadQueue` reads it | `Enqueue` | `enqueue` up to `appendAction`, under the lock |
| `counts`, `owed` | `write_actions/manifest.json`; increments still to be written | `Count`, `CountThrows` | `updateManifestCounts`, or a failing write there or at the end of `saveQueue` |
| `cooldown` | `rate_limits.json`: none, lasting, over | `CheckCooldown`, `ClearCooldown`, `Expire`, `RecordEnvelope` | `isInCooldown`, `clearCooldown`, the passing of `cooldownUntil`, `recordEnvelope` |
| `plan`, `at`, `goal` | `actionsToExecute`, the action at work, the purpose of the update at work | `Drain`, `Load`, `Take`, `GiveUp` | `drain`: the unlocked read, then `withLock` per action, or its timeout |
| `copy` | the map that `saveQueue` writes | `Update`, `Save` | `updateActionStatus`, `updateActionRetry`, `clearCompleted` |
| `effects` | how often GitHub acted on an action (a history variable) | `Succeed`, `Fail`, `LoseAnswer` | the executor returns, throws, throws after the effect |
| | | `ClearCompleted`, `Crash` | `clearCompleted`; a process dies, perhaps in the middle of `writeFile` |

| property of `writeaction_sound` | what it says |
|---|---|
| `AtMostOnce` | one consumer executes nothing twice, wherever it dies |
| `NoneForgotten` | rewriting the file drops no action that is not settled |
| `CountsMatch` | the manifest's counts are those of the queue between calls; of settled actions until the first clear |
| `Drained` | every accepted action is settled in the end, as long as no process dies |

*Bounds* (303 457 states): three actions, the third with the key of the first, so
that deduplication, and enqueueing again after a clear, both happen; one slot with
two processes, two slots otherwise; zero to two retries; six environments.
*Fairness*: what `drain()` awaits comes to an end, `drain()` is called again and
again, a cooldown passes. There is none for `Enqueue`, `ClearCompleted` and what
the environment does. Deadlock is checked.

*Violation*. `writeaction_restart`: a process dies between marking an action
`in_progress` and settling it. `drain()` selects `pending` actions only, `enqueue`
returns the existing action of any status, `clearCompleted` clears settled ones
only: the action stays, holds one of the slots and blocks its key. With the
default limit of two, two such crashes stop the queue. The playbook promises that
"Resume operations pick up where they left off".

Conditions that the properties name, each because the code does not promise more:
two overlapping drains execute an action twice (the plan is read before the lock
and its statuses are not read again); an answer that is lost after the effect, or
a manifest that cannot be written after a completed action, make the executor run
again; a process that dies in the middle of `saveQueue` loses the actions behind
the point it had reached. Further differences: "3 attempts" in the playbook are
`maxRetries + 1` attempts; `skipped` is never assigned; after three 429s in a row
only the message of `drain()` changes, and the expiry of the cooldown goes on
without an acknowledgement.

## 7. Run control

`RunControl` is the life of a run directory under the commands that share it:
`start` or `cycle` drives the pipeline, reviewers run `approve`, an integrator may
call `requestApproval`, `resume` prepares a run and starts the engine. `IssueOrder`
is the order of a cycle's issues, as operators on small graphs.

| state | code | actions | code |
|---|---|---|---|
| `manifest` | status, progress, last error and gate of `manifest.json` | `Create`, `Enter`, `Leave`, `RecordPrd`, `RequireApproval`, `Ran`, `Throw` | `createRunDirectory`, `execute()` phase by phase; an `updateManifest` is one step |
| `prd`, `queue` | `artifacts/prd.md` by version, the tasks | `Drafted`, `Prepared`, `Executed` | the phases themselves |
| `approvals`, `lock`, `reviewer` | `approvals.json`, `withLock`, the decision at work | `Consider`, `WriteRecord`, `WriteGate`, `Deny`, `Refuse`, `Request` | `approve`, then the two writes of a decision |
| `todo`, `ordered`, `report`, `exitCode` | the loop of `CycleOrchestrator.run` | `Plan`, `NextIssue`, `SkipIssue`, `IssueDone`, `IssueFailed`, `CycleDone` | likewise |
| `resume` | the process of `resume` | `Analyze`, `Prepare`, `RunEngine` | `analyzeResumeState`, `prepareResume`, the engine |

| property of `control_sound` | what it says |
|---|---|
| `GateConsistent` | manifest and approvals agree on the gate, whoever dies between the two writes |
| `ExecutesApprovedWhenQuiet` | without crashes, failed starts, `--force` and a second command, tasks are executed only with an approval of the PRD that is there, whatever reviewers do meanwhile |
| `GateOpens` | a pending gate is completed in the end if reviewers keep approving |
| `BlockersFirst` | the order of issues puts blockers first except inside a cycle, and has every issue once |

*Bounds* (138 729 states): three issues with all 512 relations among them (cycles
and self-relations included) and three priorities each; `start` and `cycle` in
twelve environments of crashes, errors, denials, edits, skipped hash checks,
requests, `--force` and `resume` beside the pipeline; two versions of a PRD, two
records. *Fairness*: the pipeline goes on, and a reviewer who has begun a decision
ends it and begins again (what `GateOpens` is about); none for `resume`, crashes
and errors. Deadlock is not checked: commands end.

*Violation*. `control_unapproved`: the pipeline pauses the run in one update of the
manifest and requires the approval in another. A process that dies in between
leaves a paused run with nothing pending, and `resume` executes tasks that nobody
approved, though "all gates are mandatory".

*Seen on the way*: a denial appends a record without a hash and every later grant
compares its hash with that latest record, so a denied gate never opens again;
`prd` is the only gate the source ever requires; a second cycle writes a fresh
manifest over the directory of an issue, whose approvals and queue stay.

## 8. Authoring

`Authoring` composes what fills the run directory: the documents, the context, the research,
the snapshot of the issue, the log of each task that is executed, and the attempts to validate.
Each part has its own files and environments.

**`Documents`** (over `TaskGraph`). `BeginDraft` … `WriteMetadata` are `draftPRD`,
`BeginCompose` … `WriteSpecJson` are `composeSpecification`; both end in
`HashDocument`, the hash taken outside the lock. `WriteRecord`, `UpdateMetadata`,
`UpdateIndex` are the three files of a decision under one lock. Then the plan with its
metadata, `comparePlanDiff`, and the trace map. Contents are versions, which are
their own hashes; `meta`, `json`, `plan`, `planMeta`, `trace` are files that may be
missing, current, outdated or torn.

**`TaskGraph`** has no state: requirements to tasks, dependencies stated and
implied, `validateDAG` (the depth-first search as written), Kahn's order, depths,
parallel paths, blockers.

**`Research`**. Hints found in metadata, prompt, specification and files; `Reuse` or
`SaveNew` is `queueTask`; `StartTask`, `CompleteTask`, `FailTask`, each a task's file
and, under the same lock, a line of the log (`LogEvent`).

**`Context`**. Discovery, hashing, ranking, budgeting and the two files of an
aggregation; `context summarize` reads `summary.json`, asks a client for each chunk that the
cache does not have, and writes the document back. Scores, token budgets and chunking of lines
are operators.

**`Linear`**. The issue on Linear, its cache in the run (`snapshot`), the adapter of each
process (`reader`) and its hourly `requests`: `FetchIssue`, `FetchComments` and `SaveSnapshot`
are `fetchIssueSnapshot`, with `Fallback` to the cache, writes (`WriteIssue`), and time.

**`Runner`**. Both strategies over `runProcess` (`job`, `executing`): `SpawnChild`, `ReadChunk`,
`ExitChild`, `TimeOut`, `KillChild`, `CloseChild`; and the `logFile` of each task: `WriteChunk`,
`Rotate`, `LogError`, `Flush`.

**`Validation`** (`registry`, `ledger`, and the `tree` of sources). `--init`, one command or
the suite (`BeginValidate`, `RunCommand`, `RecordAttempt`), auto-fix between attempts, and
whoever edits the tree.

| property of `authoring_sound` | what it says |
|---|---|
| `ApprovalsAgree` | what metadata calls approved has an approval on disk for that very hash, over crashes and overlapping authors; the index of approvals misses no decision |
| `PlanFollows` | a plan is of an approved specification, that is of the approved PRD; and when the diff reports no change of an intact specification (the metadata's hash is the file's), it is of its requirements |
| `PlanOrder` | `validateDAG` accepts exactly the acyclic graphs; Kahn's order is complete, depths are longest chains |
| `ResearchAgrees` | the counts are those the log tells; in every order a listing may have, what one coordinator created comes newest first; while each task is finished before the next search and no result grows older than `MaxAge`, the same unknown is not researched twice and no result is called stale |
| `ContextAgrees` | a summary is of the contents it is filed under, over crashes, torn files and failing clients, and none is missing while no client fails; the two files of hashes agree, while commands overlap, too |
| `WithinBudget` | files chosen fit the budget and a better one is left out only if it does not fit; chunks lose no text, leave no gap and exceed their limit only by what they repeat |
| `LinearAgrees` | a snapshot without an error mark was on Linear within its ttl, in both halves; no adapter starts more calls in any window than its budget, counted over all it ever sent; relations are the same from either side and across pages |
| `RunnerAgrees` | completed means exit 0 before the timeout, a timeout is never taken for anything else; one CLI child at a time; the log has what was printed in its order over all its files, but for what rotation or an error lost |
| `ValidationSound` | a suite that succeeds left a tree on which everything required passes; exit codes tell what happened; attempts are bounded and numbered without a gap |

*Bounds* (about 1.77 million states): two processes with symmetry; per part four to seven
environments of crashes, overlap, edits, denials, changing repositories and failing clients;
two versions, three records, three research tasks, two files of one and two chunks, two
versions of an issue over three hours, three requests an hour, two chunks of output more than
the buffer holds and a log that is rotated after each, two commands to validate; all lists of
two requirements over two ids and four types, and all graphs of three tasks; all texts of up to
five lines of three sizes with chunks of two sizes and three overlaps. No fairness: safety
properties only. Deadlock is not checked: bounded authors finish.

What the properties leave out, since the code does not promise it: `spec.json`, from
which the plan is made, is covered by no hash; `composeSpecification` does not look
at the hash of `prd.md`; repositories that change without a new aggregation, or two
chunk sizes (`generateChunkId` ignores the size), put summaries under a wrong hash;
`findCachedTask` returns the first match, which may hide a task with fresh results,
against the comment of `queueTask` (`FreshIsReused` states it, and TLC refutes it in
the environments of `authoring_sound`); and a trace map cannot be generated once
the plan has tasks, since the ids in the plan are not the ones the mapper looks up
(`TraceMapFollowsPlan`, `docs/playbooks/traceability_playbook.md:262`, refuted
likewise). A failed task's results are reused; a forced task stays stale for ever.

*Seen on the way*, each left out of a property by a condition it names:

- *Linear*. The budget counts calls, not attempts, per process; a page cursor that
  repeats itself would be followed for ever; `retrieved_at` is taken after both requests.
- *Processes*. With the CLI strategy tasks that run in parallel are refused
  ("Another execution is already in progress") and fail for good, while
  `docs/reference/parallel-execution.md:5` promises concurrent execution; chunks that arrive
  while the log is rotated are dropped; a child killed from outside is not retried,
  where `docs/reference/architecture/execution_flow_spec.md:750` has "Retry once"; a grandchild
  that keeps the pipes open holds its task for ever, which is why no liveness is claimed.
- *Validation*. The limit is checked before the loop, so up to
  2(`max_retries` + 1) − 1 attempts are made where
  `docs/playbooks/validation_playbook.md:219` has `max_retries` + 1; successes
  count towards it; a single command over its limit exits with 1, where the playbook
  (:528) has 11; exit 0 of an auto-fix counts as success without another run.

Decisions on documents, `composeSpecification`, `generateExecutionPlan`, `startTask`,
`completeTask` and `failTask` have no command that calls them yet: integrators do.

## 9. Delivery

`Delivery` composes what does the work and brings it out.

| module | state | actions |
|---|---|---|
| `GitHub` | `remote`: the pull request, its commits, statuses, reviews (external) | what others do: push, review, check, close; what a call does |
| `PullRequests` | `prFile`, `report`, `history` (`deployment.json`), temporary files, what each process (`agent`) has read | `pr create`, `reviewers`, `status`, the refresh of the report in five reads |
| `Deployment` | the same | `triggerDeployment`: load, assess, select, merge or enable or dispatch, append the outcome |
| `HttpClient` | `caller`, requests `underway`, their `effects` | attempts, answers, backoff, a server that limits, drops or delays |
| `Patching` | `repo`, `origin`, summaries and snapshots, `branch.json` | `applyPatch`, `createBranch`, `pushBranch`, `createSafeCommit`, with failures and crashes |
| `Agents` | `adapter`, `session`, `costs`, `manifestFile` | sessions, fallback, reloads, charging, flushing, the next process |

| property of `delivery_sound` | what it says |
|---|---|
| `RecordsAgree` | `pr.json` never claims more than GitHub knows; the report says of the commit it names only what holds of it, though it is put together from five answers; blockers, recommendations and verdict coincide |
| `OutcomesAgree` | an outcome that says success happened, to the commit of `pr.json` and within the rules the report was made under; no outcome is lost between deployments |
| `CallsAgree` | a call takes effect at most once per key on a server that honours keys; success means it did; waits are as told |
| `TreeAgrees` | records are of patches that are in the tree; one patch in the tree at a time; protected branches are never pushed |
| `AgentsAgree` | each provider is tried once, after transient failures only, and the first one meets the requirements; a session is recorded once and no process starts more in an hour than its budget; none is counted twice, and when one process works after the other the totals, by session, are those of the log and what is about to be logged |

*Bounds* (about 897 000 states): two processes with symmetry; per part three to ten
environments; commits, results and commands up to two or three, two or three attempts, three
patches, two providers with up to two versions of a manifest. Each is the smallest instance in
which its cases meet: a push between two reads of a refresh, a retry after a lost answer, a
manifest reloaded while a session waits. No fairness: safety only. Deadlock is not checked:
bounded commands finish.

*Seen on the way*, each left out of a property by a condition it names:

- *Pull requests and deployment*. `evaluateCompliance` reads the rules of the head
  branch, while GitHub enforces those of the base; an older success of a check still passes after a later failure;
  `persistDeploymentOutcome` drops the `actions` kept for the audit trail, and
  `logDeploymentAction` takes no lock; `pr create` that dies before it writes
  `pr.json` leaves a pull request nobody knows of; temporary names are shared by processes;
  nothing writes the `validation.json` that `pr create` reads.
- *HTTP*. A reset time has priority over exponential backoff whatever quota
  remains; a 2xx whose JSON cannot be read is sent again; an attempt
  repeated after a lost answer may be refused, which reads as a failure; who calls again has a new key.
- *Patches*. The tree is checked outside the lock, so overlapping operations may put
  two patches into it; a failure after `git apply` is called recoverable though the
  tree has changed; `createSafeCommit` stages nothing, and commits to the branch that is
  checked out by then; `updateBranchMetadata` merges into the record of another branch.
- *Agents*. A fallback provider is not held to the requirements of the context; the hash
  a session reports is that of the registry after a wait; budgets only warn; a torn
  `costs.json` starts again from zero, and of two processes the last to flush wins.

`triggerDeployment`, `patchManager`, `branchManager` and `AgentAdapter` have tests and exports
but no command that calls them yet; their users are taken to be as the playbooks have it.

## 10. Proofs

All theorems are about every value of the constants that satisfies the named assumption of
the module (`CallerAssumption`, `QueueAssumption`, `EngineAssumption`,
`WriteActionAssumption`, `RunAssumption`, `DirectoryAssumption`, `HttpAssumption`,
`PatchAssumption`, `ValidationAssumption`, `GitHubAssumption`, `ContextAssumption`,
`ResearchAssumption`, `LinearAssumption`, `RunnerAssumption`, `AgentsAssumption`), and
about `Spec`, which the fair specifications of the runs imply. TLC evaluates the
assumptions in the runs. They type the constants and keep marker values (`Absent`,
`NoCache`, `Nobody`) apart from what they mark. One part is arithmetic that the prover has
no means to derive: powers of two are numbers (in `HttpAssumption`). Some parts are what
the code checks before it comes so far: a log keeps at least one rotated file
(`log_rotation_keep`, `RepoConfigSchema.ts`: `min(1)`), the prices of a manifest are not
negative (the schema in `manifestLoader.ts`), `research create` asks for one task, the ttl
of the cache of issues is not zero. Further hypotheses of a theorem are operators named in
its statement.

**`RunLockProofs`.** Assumption `Quiet`: no fault but timeouts. The inductive
invariant relates `run.lock` to the program counters: the file exists exactly
while one call is between its creation and its unlink, it is that call's, and
nobody is about to remove it. Exclusion alone is not inductive, because a stale
file about to be unlinked would let a second call in. From it: `Exclusion`,
`HolderCovered`, `OwnRelease`, and `Implements`, the refinement of `Mutex` (each
step is an acquisition, a release or a stutter). `TypeCorrect` needs no condition.
The chain of promises is another argument, without `Quiet`: `ChainInvariant` says
of every call in the chain what it waits for and who joined before it, and that
only a call that timed out leaves an earlier one running; `NoLostWakeup` and `Sequential` follow in
every environment.

**`FoldLemmas`.** The community modules' `FoldLeft` is what replays the log and what applies
a call to an index. The provers cannot instantiate a theorem about an operator, so
the operator is a constant of this module and `QueueWalProofs` instantiates the
module twice, for a line of the log and for an edit in memory. Induction over
numbers comes from the minimum of a set (`WFMin`), the one induction of the library
that is about sets.

**`QueueWalProofs`.** Assumption `NoWindow`: no crash between an append and the
counter. `IInv` is about numbers: those of the log are consecutive and reach
down to the snapshot, the counter is the last number used except between
the append and its own write, a snapshot about to be saved has that number
and a log about to be cut ends at the snapshot; it yields `Loadable` and `Fresh`.
`DataInv` is about tasks, with a second assumption, `Distinct`: a batch names a
task once. A line of the log and an edit in memory take the same step
(`SameStep`), provided a create finds nothing and an update finds its task, so the index of a
process that is alone (`Current`), the state about to be saved (`Saved`) and what a
restart finds stay one thing: `CacheTrue`, `CompactionSafe`, and `Implements`, the refinement of
`TaskStore`, in which appending the lines is the moment a call takes effect
and compaction, recovery and loads are stutters. The last two need `[]Faithful`: the process is alone and
creates nothing twice, or no log gets long enough to be compacted from memory. Every environment of
`queue_sound` is of this kind, and `queue_stale_compaction` is not.
`CountInv` adds the counts, for any number of processes and also where an update
of a stale index is logged for a task that is not there (`CountsTrue`, finite `Task`).
`LoadsQuiet` is about loads beside writers that do not compact; `AlarmExplained`
says in every environment that a load complains only if the snapshot it read has
been replaced since.

**`ExecutionEngineProofs`.** Every environment, finite `Task`. The invariant has
four parts: places (`Cardinality` of promises and of free slots), retries (what a
promise has read is what the queue has), flow (a task in flight had its
dependencies completed, and completed tasks stay so), and what is left when the
loop ends. From it `DependenciesFirst`, `ParallelLimit`, `RetryLimit`,
`Exhaustive`, `SettledStay`. `TallyTrue` adds what each counter has counted: an
outcome is counted when it is collected, so between the end of a task and its
collection the counter lags behind by the promises that have settled.

**`WriteActionQueueProofs`.** Every environment. `Work` ties a process's place to
the lock and to what it works on; `Kept` says that contents about to be saved
lack only settled actions, which gives `ForgetsNothing` for any number of
processes, since nobody else changes the queue while the lock is held. For
`ExecutesAtMostOnce`, `Unspent` says that nothing that may still be executed has
been: a pending action, one of the plan, one about to be saved as pending, one
that is being marked. It is inductive for one process only, because `Load` reads
without the lock; `IdleStep` shows that processes outside the environment stay out
of it. `CountsTrue`: the counts of the manifest and the increments still owed make up the
counts of the queue. The increments are computed from the status an
action is taken to have; that the retry's are right rests on the action being
`in_progress` on disk at that moment, which only the lock guarantees.

**`RunControlProofs`.** Any runs, reviewers and environments. `GateAgrees` carries
what a process in the middle of something knows: a reviewer who has written the
record holds the lock, so the manifest he read is the one on disk
(`DecisionBacked`, `CopyBacked`); what is pending was required by a pipeline that had
written the PRD (`DraftBacked`, `PendingAsked`). `ApprovedBeforeExecution` follows
each run from before its pipeline through it to afterwards: once the command has left
it, its gate is pending or settled (`WaitsOrSettled`), and a `resume` at the engine has seen it
settled (`ResumesSettled`). Its hypothesis `[]BlockersFirst` is the order of a cycle, of which it
uses that every issue comes once; it is model-checked, for all relations among three issues.

**`AuthoringProofs`.** `ApprovalsTrue` and `PlansTrue`, for any processes and
versions. What an author has read is kept in its job until it writes, so the
invariant ties each job to what is still true of the documents: the approval it saw is on disk
for good, since records are only added (`Decided`), the metadata about to be
written were hashed from this very version, the requirements are no newer than
`spec.json` (`VersionsGrow`). The attempt found a statement of `PlanFollows` that holds for two
processes and fails for three: a diff that reports no change speaks of the specification on disk
only if the metadata's hash is the file's, which the property now says.

`ContextTrue` is about `summary.json`, which is read without the lock, kept through
any number of calls of a client and written back. `WorkerTrue` says what a worker may
count on: its list names files of its document only, the content it read is the one whose
hash the document states, and a file of the document is still on the list or has a
summary of every chunk. A torn entry of the cache never has the hash's content
(`CacheTrue`). The two files of hashes agree for as long as no aggregation is between them
(`HashesFollow`), which the lock tells from all others. The proof needed `Budgeted` and
the order of the list for nothing but their types, so it holds for every ranking.

`ResearchTrue` ties a task to the last event the log has of it: they agree except for the
task that whoever holds the lock has written and not logged yet (`Logging`, `Told`).
`TimesGrow` says of a coordinator that the tasks it made have growing times, below the
last it gave out, which orders its part of every listing. For work that is not repeated,
`OneByOne` says of a search that is under way that its own tasks are pending and all
others completed, that no earlier task has the key of one of its own, and that what it has
still to ask for is distinct and not among its own. Detection builds lists with filters
and a fold; `Detected` is unfolded once (`Lists`, an instance of `FoldLemmas`) into what
the proof needs, that its hints are distinct.

`TasksTrue` has two invariants. `JobsInv` is about outcomes: at each place of a job, what
happened to the child so far (`JobSound`, `ResultSound`), from which the classification
follows, and that the one job which `Holds` the CLI adapter is the one that set its flag.
`TaskLogInv` is about files: every chunk printed and not missed is in one of what was
evicted, rotated, is current or queued, and all these stand in the order of their numbers,
which makes them disjoint; a rotation moves the border between two of them. What is
missing arrived during a rotation or after an error, and then there was one.

`LinearTrue`. Nothing says how old what is on Linear is; what is replaced is replaced for
good, with its time (`OlderReplaced`: only what is older than the present version), so
that `ThereUntil(part, version, h)`, not replaced before hour h, stays true whatever
others change afterwards. The cache is true to the hour it states (`SnapshotTrue`), a
reader to the hour of its requests, and unless an operation is slow this hour lasts until
it returns (`ReadersTrue`). The budget is over what was sent (`sent`), while the code
looks at its own trimmed list; `RequestsCounted` says that the list misses only what no
later window contains.

`ValidationTrue` counts, too: the attempts in the ledger and those the calls under way may
still add (`Open`) stay within what the limit allows (`TriesCounted`); and what a call
remembers of its attempts the ledger and the tree bear out (`Fits`).

**`DeliveryProofs`.** `TreeSafe` is about patches and branches: a worker checks the
allow list, the tree and the branch at one step and relies on them at a later one,
and the invariant says what it may rely on at each place, more of it
(`OneAtATime`) for operations that follow one another. `CallsTrue` is about requests,
which may take effect at once, later or never. It counts: what took effect, what
may still arrive and what the caller may still send are together no more than the call
allows, which is inductive where the bound on effects alone is not.

`RecordsTrue` and `OutcomesHold`, for any processes, commits and reviewers, rest on
one invariant in three parts. `PrInv` says what is true of everything a process holds in its
hands between two requests: the pull request it read, the answers of a refresh
so far, the report, the outcome it is about to write. It is true when it is read, and stays
true because of what GitHub never takes back (`Grown`): a pull request is not
closed or merged twice, heads and requests only grow, and a commit's checks and
the reviews stay good unless the environment has results regress, which is why that event is excluded
where it is. So a merge that GitHub carries out at the SHA of `pr.json` was judged on
facts that still hold. `CalmInv` describes every place of commands that follow one another without
failing, which is what makes the two files agree afterwards; `KeptInv` says that the
lock is held between reading and writing the history, so each merge has its outcome on disk or in the hands of
a deployment that is concluding. The attempt found a case the run lacked: when the pull request
is closed before auto-merge is enabled, the refusal comes in a GraphQL answer with status 200,
which `enableAutoMerge` takes for success; `OutcomesTrue` now says so and the run has it.

`AgentsTrue` follows a session through its providers: those it has called are distinct,
failed in a way that lets it go on, and the manifest it is about to call is one its
process has registered, unless manifests are edited meanwhile (`SessionsSound`,
`CalledOnce`, `ToCall`). `AdaptersConfigured` says which versions of the manifests the
registry and the prices of a process have; `SessionsAccepted` that the trimmed list of
accepted sessions misses only those no later window contains; `SessionsRecorded` and
`CostsCounted` that a session is written down once it is closed, counted once it is
charged, and never again. `OneAfterTheOther` is the argument for the totals: without
overlap there is at most one adapter, whose `counted` extends the file, and between two
processes the file is what the log adds up to, since each flushes before it ends.

Only model-checked: the liveness properties (`SomeoneGetsIn`, `Terminates`, `Drained`,
`PicksUp`, `GateOpens`), which are beyond the prover; what recursive definitions compute,
which takes an induction over data: the depth-first searches and layers of `BlockersFirst`
and `PlanOrder`, the seams of chunks and the sums of the ranking in `WithinBudget`; and
the violations, which are single behaviours.

## 11. What is not modelled

- Torn lines and failing writes of the task queue, a cold load whose reads of
  snapshot and log have a compaction or another cold load in between, pruning of
  completed tasks (off by default), `updateTaskInQueueV2` (without a caller that
  matters here), the copies in `queue.jsonl` and `queue_manifest.json`, and with
  them `validateQueue`; two engines on one queue.
- In the write-action queue: a partial last line, to which the next append joins
  its own; a `manifest.json` damaged for good; two writers of the ledger at once.
- The commands `init`, `doctor` and `health`, configuration, schemas, rendering,
  logs, metrics and traces: they read, print and check one file after the other, and nothing
  they keep is read back by what is modelled.
- The production of text: drafts of PRDs, parsing and rendering of
  specifications, prompts, the words that detect unknowns, globs, diffs.
- The checks treat a file write through a temporary file and `rename` as one step
  except where processes share the temporary name, and file systems that reorder
  completed writes at a power failure are not considered; a crash is that of a process.
