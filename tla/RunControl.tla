----------------------------- MODULE RunControl -----------------------------
(***************************************************************************)
(* The life of a run directory under the commands that share it: start or  *)
(* cycle drive PipelineOrchestrator.execute over one run or over the       *)
(* issues of a cycle, reviewers run approve, resume prepares a run and     *)
(* starts the engine.  Each is a process of its own; manifest.json,        *)
(* approvals/approvals.json and artifacts/prd.md are what they share.      *)
(*                                                                         *)
(* updateManifest reads and writes manifest.json under the lock of         *)
(* RunLock.tla, so it is one step that waits for lock[r] to be free.  A    *)
(* decision writes two files under that lock and is two steps.  The prd    *)
(* gate is the only one the source ever requires; a PRD is its version,    *)
(* every draft being a new one.  What the engine does with the tasks is    *)
(* ExecutionEngine.tla; here it runs them or fails.                        *)
(***************************************************************************)
EXTENDS IssueOrder, Integers

CONSTANTS
    Run,            \* the run directories: the one of start, or one per issue
    Listed,         \* the issues, in the order Linear gives them
    Reviewer,       \* processes that run approve
    MaxVersion,     \* bound on the versions of a PRD
    MaxRecords,     \* bound on the records of approvals.json
    Environment     \* the environments considered

(***************************************************************************)
(* "crash"      a process dies between two steps                           *)
(* "error"      a step of the pipeline throws                              *)
(* "deny"       reviewers may deny                                         *)
(* "skipHash"   reviewers may use --skip-hash-check                        *)
(* "request"    an integrator calls requestApproval                        *)
(* "edit"       somebody edits prd.md                                      *)
(* "force"      resume may be given --force                                *)
(* "overlap"    resume is run beside a live pipeline                       *)
(* "damaged"    a hash of an artifact or the queue's files do not verify   *)
(***************************************************************************)
EventKind == {"crash", "error", "deny", "skipHash", "request", "edit", "force",
              "overlap", "damaged"}

\* The lock of a run is free.
Nobody == "nobody"

ASSUME RunAssumption ==
    /\ IsFiniteSet(Run) /\ Run # {} /\ Listed \in Seq(Run)
    /\ Nobody \notin Reviewer
    /\ {Listed[i] : i \in DOMAIN Listed} = Run /\ Len(Listed) = Cardinality(Run)
    /\ MaxVersion \in Nat /\ MaxRecords \in Nat
    /\ Environment \subseteq
            [command : {"start", "cycle", "preview"}, approval : BOOLEAN,
             execute : BOOLEAN, failFast : BOOLEAN, planned : BOOLEAN,
             rounds : Nat, maxIssues : Nat, events : SUBSET EventKind,
             blocks : SUBSET (Run \X Run), priority : [Run -> 0..TopPriority],
             skip : SUBSET Run]

VARIABLES
    manifest,       \* manifest.json of each run
    prd,            \* the version in artifacts/prd.md; 0 without one
    approvals,      \* the records of approvals.json
    queue,          \* the tasks: "none", "planned", "failed" or "done"
    lock,           \* the process in withLock that has written the first of two files
    pc,             \* where the process of start or cycle is
    phase,          \* the phase its pipeline is in
    current,        \* the run its pipeline works on
    failed,         \* tasks of that run have failed
    todo,           \* the issues it has not come to
    ordered,        \* the order of the issues
    report,         \* what its report says of each
    exitCode,       \* its exit code; -1 before it ends
    rounds,         \* how often the command is still run
    reviewer,       \* the decision each reviewer is making
    resume,         \* the resume process
    env             \* the environment of this behaviour

control == <<pc, phase, current, failed, todo, ordered, report, exitCode, rounds>>
vars == <<manifest, prd, approvals, queue, lock, control, reviewer, resume, env>>

Status == {"pending", "in_progress", "paused", "failed", "completed"}
NoHash == 0
Skipped == MaxVersion + 1
Verdict == {"approved", "rejected", "requested_changes"}
\* The fields of manifest.json.  Phases 1 to 4: context, research, prd, execution; 0 is none.
Manifest ==
    [exists : BOOLEAN, status : Status, total : {0, 3, 4}, done : 0..4, current : 0..4, last : 0..4,
     error : BOOLEAN, pending : BOOLEAN, completed : BOOLEAN, prd : BOOLEAN]

\* createInitialManifest
InitialManifest ==
    [exists |-> TRUE, status |-> "pending", total |-> 0, done |-> 0, current |-> 0, last |-> 0,
     error |-> FALSE, pending |-> FALSE, completed |-> FALSE, prd |-> FALSE]

Stage == {"create", "telemetry", "begin", "enter", "work", "leave", "progress", "record", "gate",
          "finish", "error"}
Live == Stage \cup {"next"}

NoDecision == [at |-> "idle", run |-> Listed[1], verdict |-> "approved", hash |-> NoHash,
               copy |-> InitialManifest]
NotResuming == [at |-> "idle", run |-> Listed[1], forced |-> FALSE]

\* There is no run directory.
Init ==
    /\ env \in Environment
    /\ manifest = [r \in Run |-> [InitialManifest EXCEPT !.exists = FALSE]]
    /\ prd = [r \in Run |-> 0]
    /\ approvals = [r \in Run |-> <<>>]
    /\ queue = [r \in Run |-> "none"]
    /\ lock = [r \in Run |-> Nobody]
    /\ pc = "idle" /\ phase = 0 /\ current = Listed[1] /\ failed = FALSE
    /\ todo = <<>> /\ ordered = <<>>
    /\ report = [r \in Run |-> "none"]
    /\ exitCode = -1
    /\ rounds = env.rounds
    /\ reviewer = [a \in Reviewer |-> NoDecision]
    /\ resume = NotResuming
-----------------------------------------------------------------------------
(***************************************************************************)
(* manifestManager.ts: updateManifest, under the lock.                     *)
(***************************************************************************)
Update(r, m) ==
    /\ lock[r] = Nobody
    /\ manifest' = [manifest EXCEPT ![r] = m]
    /\ UNCHANGED lock

SetCurrentStep(r, p) == Update(r, [manifest[r] EXCEPT !.current = p])
SetLastStep(r, p) == Update(r, [manifest[r] EXCEPT !.last = p, !.current = 0])
\* start calls setLastError with recoverable = true only.
SetLastError(r) == Update(r, [manifest[r] EXCEPT !.status = "paused", !.error = TRUE])
MarkApprovalRequired(r) == Update(r, [manifest[r] EXCEPT !.pending = TRUE])

Highest(m, n) == IF m >= n THEN m ELSE n

\* updateExecutionProgress
UpdateProgress(r, p) == Update(r, [manifest[r] EXCEPT !.done = Highest(@, p)])
-----------------------------------------------------------------------------
(***************************************************************************)
(* pipelineOrchestrator.ts: one update of the manifest, or one document,   *)
(* a step.                                                                 *)
(***************************************************************************)
Files == <<prd, approvals, queue>>
Others == <<reviewer, resume, env>>
Loop == <<todo, ordered, report, exitCode, rounds>>

Executes == env.execute /\ ~env.approval

At(stage) == pc = stage
Goto(stage) == pc' = stage /\ UNCHANGED <<phase, current, failed, Loop, Others>>

\* The first update: in_progress, with the number of steps ahead.
Begin ==
    /\ At("begin")
    /\ Update(current, [manifest[current] EXCEPT
                            !.status = "in_progress", !.done = 0,
                            !.total = IF Executes THEN 4 ELSE 3])
    /\ pc' = "enter" /\ phase' = 1
    /\ UNCHANGED <<Files, current, failed, Loop, Others>>

Enter == At("enter") /\ SetCurrentStep(current, phase) /\ Goto("work") /\ UNCHANGED Files

\* aggregateContext and detectUnknownsFromContext, whose documents no other step here reads.
Prepared == At("work") /\ phase \in {1, 2} /\ Goto("leave") /\ UNCHANGED <<manifest, lock, Files>>

\* draftPRD
Drafted ==
    /\ At("work") /\ phase = 3 /\ prd[current] < MaxVersion /\ lock[current] = Nobody
    /\ prd' = [prd EXCEPT ![current] = @ + 1]
    /\ Goto("leave")
    /\ UNCHANGED <<manifest, lock, approvals, queue>>

Ran(r, outcome) ==
    queue' = [queue EXCEPT ![r] = IF @ = "none" THEN @ ELSE outcome]

\* runTaskExecution: nothing to do with an empty queue, else engine.execute().
Executed ==
    /\ At("work") /\ phase = 4
    /\ \E outcome \in {"done", "failed"} :
          /\ Ran(current, outcome)
          /\ failed' = (queue'[current] = "failed")
    /\ pc' = "leave"
    /\ UNCHANGED <<manifest, lock, prd, approvals, phase, current, Loop, Others>>

Leave == At("leave") /\ SetLastStep(current, phase) /\ Goto("progress") /\ UNCHANGED Files

Progress ==
    /\ At("progress")
    /\ UpdateProgress(current, phase)
    /\ pc' = CASE phase \in {1, 2} -> "enter" [] phase = 3 -> "record" [] OTHER -> "finish"
    /\ phase' = IF phase \in {1, 2} THEN phase + 1 ELSE phase
    /\ UNCHANGED <<Files, current, failed, Loop, Others>>

\* Mutant: the gate is forgotten.
RecordUngated ==
    /\ At("record")
    /\ Update(current, [manifest[current] EXCEPT !.prd = TRUE, !.status = "in_progress"])
    /\ pc' = IF Executes THEN "enter" ELSE "finish"
    /\ phase' = IF Executes THEN 4 ELSE phase
    /\ UNCHANGED <<Files, current, failed, Loop, Others>>

\* The PRD is recorded and the run paused; the gate is required by a second update.
RecordPrd ==
    /\ At("record")
    /\ Update(current, [manifest[current] EXCEPT
                            !.prd = TRUE,
                            !.status = IF env.approval THEN "paused" ELSE "in_progress"])
    /\ pc' = IF env.approval THEN "gate" ELSE IF Executes THEN "enter" ELSE "finish"
    /\ phase' = IF Executes THEN 4 ELSE phase
    /\ UNCHANGED <<Files, current, failed, Loop, Others>>

RequireApproval == At("gate") /\ MarkApprovalRequired(current) /\ Goto("finish") /\ UNCHANGED Files

\* A document cannot be written, the lock's timeout, a prerequisite or the engine fails.
Throw ==
    /\ "error" \in env.events
    /\ pc \in Stage \ {"create", "telemetry", "finish", "error"}
    /\ Goto("error") /\ UNCHANGED <<manifest, lock, Files>>
-----------------------------------------------------------------------------
(***************************************************************************)
(* start.ts and cycleOrchestrator.ts.                                      *)
(***************************************************************************)
Plan(tie) == OrderCycleIssues(Listed, tie, env.blocks, env.priority).ordered

AtMostFirst(s, n) == SubSeq(s, 1, IF n < Len(s) THEN n ELSE Len(s))

\* cycle: the issues are ordered and capped; --dry-run stops there.
OrderIssues ==
    /\ At("idle") /\ rounds > 0 /\ env.command \in {"cycle", "preview"}
    /\ \E tie \in [1..Len(Listed) -> Run] :
          /\ \A i, j \in DOMAIN tie : tie[i] = tie[j] => i = j
          /\ ordered' = Plan(tie)
    /\ todo' = AtMostFirst(ordered', env.maxIssues)
    /\ IF env.command = "preview" THEN pc' = "exited" /\ exitCode' = 0
                                  ELSE pc' = "next" /\ UNCHANGED exitCode
    /\ rounds' = rounds - 1
    /\ report' = [r \in Run |-> "none"]
    /\ UNCHANGED <<manifest, lock, Files, phase, current, failed, Others>>

\* start: a fresh identifier, so only once.
Start ==
    /\ At("idle") /\ rounds > 0 /\ env.command = "start"
    /\ rounds' = rounds - 1
    /\ pc' = "create"
    /\ UNCHANGED <<manifest, lock, Files, phase, current, failed, todo, ordered, report, exitCode,
                   Others>>

\* createRunDirectory writes a new manifest whatever is there, without the lock.
Create ==
    /\ At("create")
    /\ manifest' = [manifest EXCEPT ![current] = InitialManifest]
    /\ pc' = IF env.command = "start" THEN "telemetry" ELSE "begin"
    /\ UNCHANGED <<lock, Files, phase, current, failed, Loop, Others>>

\* ensureTelemetryReferences: an update that adds paths of logs.
Telemetry == At("telemetry") /\ Update(current, manifest[current]) /\ Goto("begin") /\ UNCHANGED Files

Said(r, outcome) == report' = [report EXCEPT ![r] = outcome]

\* The loop over issues: shouldSkipIssue, else a run directory and a pipeline.
SkipIssue ==
    /\ At("next") /\ todo # <<>> /\ Head(todo) \in env.skip
    /\ Said(Head(todo), "skipped")
    /\ todo' = Tail(todo)
    /\ UNCHANGED <<manifest, lock, Files, pc, phase, current, failed, ordered, exitCode, rounds, Others>>

NextIssue ==
    /\ At("next") /\ todo # <<>> /\ Head(todo) \notin env.skip
    /\ current' = Head(todo)
    /\ todo' = Tail(todo)
    /\ pc' = "create" /\ phase' = 0 /\ failed' = FALSE
    /\ UNCHANGED <<manifest, lock, Files, ordered, report, exitCode, rounds, Others>>

\* What execute() returned is not looked at: a run that waits for approval is completed.
IssueDone ==
    /\ At("finish") /\ env.command = "cycle"
    /\ Said(current, "completed")
    /\ pc' = "next"
    /\ UNCHANGED <<manifest, lock, Files, phase, current, failed, todo, ordered, exitCode, rounds, Others>>

\* The manifest stays as it was; failFast ends the loop.
IssueFailed ==
    /\ At("error") /\ env.command = "cycle"
    /\ Said(current, "failed")
    /\ pc' = "next"
    /\ todo' = IF env.failFast THEN <<>> ELSE todo
    /\ UNCHANGED <<manifest, lock, Files, phase, current, failed, ordered, exitCode, rounds, Others>>

CycleDone ==
    /\ At("next") /\ todo = <<>>
    /\ pc' = "exited"
    /\ exitCode' = IF \E r \in Run : report[r] = "failed" THEN 1 ELSE 0
    /\ UNCHANGED <<manifest, lock, Files, phase, current, failed, todo, ordered, report, rounds, Others>>

\* getStartExitCode
StartExitCode == IF env.approval THEN 30 ELSE IF failed THEN 1 ELSE 0

Exit(code) ==
    /\ pc' = "exited" /\ exitCode' = code
    /\ UNCHANGED <<phase, current, failed, todo, ordered, report, rounds, Others>>

\* this.exit(n) throws inside the try: only 0 gets past the catch below.
StartDone ==
    /\ At("finish") /\ env.command = "start"
    /\ IF StartExitCode = 0 THEN Exit(0) ELSE Goto("error")
    /\ UNCHANGED <<manifest, lock, Files>>

\* The catch of start: setLastError, then 10 for a missing prerequisite and 1 for the rest.
StartFailed ==
    /\ At("error") /\ env.command = "start"
    /\ SetLastError(current)
    /\ \E code \in {1} \cup (IF phase = 4 THEN {10} ELSE {}) : Exit(code)
    /\ UNCHANGED Files

\* The process of start or cycle dies.
CrashPipeline ==
    /\ "crash" \in env.events /\ pc \in Live
    /\ Exit(1)
    /\ UNCHANGED <<manifest, lock, Files>>

\* The same command is run again; a cycle finds the directories of its issues.
Again ==
    /\ At("exited") /\ rounds > 0 /\ env.command = "cycle"
    /\ pc' = "idle" /\ exitCode' = -1
    /\ UNCHANGED <<manifest, lock, Files, phase, current, failed, todo, ordered, report, rounds, Others>>

Pipeline ==
    \/ Create \/ Telemetry \/ Begin \/ Enter \/ Prepared \/ Drafted
    \/ Executed \/ Leave \/ Progress \/ RecordPrd \/ RequireApproval
    \/ SkipIssue \/ NextIssue \/ IssueDone \/ IssueFailed \/ CycleDone \/ StartDone \/ StartFailed
-----------------------------------------------------------------------------
(***************************************************************************)
(* approve.ts and approvalRegistry.ts.  A reviewer reads the manifest and  *)
(* the hash of the artifact without the lock and decides under it.         *)
(***************************************************************************)
Deciding(a, d) == reviewer' = [reviewer EXCEPT ![a] = d]

\* getPendingApprovals, resolveArtifactPath, computeArtifactHash
Consider(a, r, verdict) ==
    /\ reviewer[a].at = "idle" /\ Len(approvals[r]) < MaxRecords
    /\ manifest[r].exists /\ manifest[r].pending /\ manifest[r].prd
    /\ verdict = "rejected" => "deny" \in env.events
    /\ \E h \in {prd[r]} \cup (IF "skipHash" \in env.events THEN {Skipped} ELSE {}) :
          Deciding(a, [NoDecision EXCEPT !.at = "decide", !.run = r, !.verdict = verdict, !.hash = h])
    /\ UNCHANGED <<manifest, lock, Files, control, resume, env>>

\* An integrator requests the approval of a PRD that is there.
Request(a, r) ==
    /\ "request" \in env.events
    /\ reviewer[a].at = "idle" /\ Len(approvals[r]) < MaxRecords
    /\ manifest[r].exists /\ manifest[r].prd
    /\ Deciding(a, [NoDecision EXCEPT !.at = "decide", !.run = r,
                                      !.verdict = "requested_changes", !.hash = prd[r]])
    /\ UNCHANGED <<manifest, lock, Files, control, resume, env>>

Append1(r, verdict, hash) ==
    approvals' = [approvals EXCEPT ![r] = Append(@, [verdict |-> verdict, hash |-> hash])]

\* Mutant: nothing can be approved that was not requested.
MismatchUnrequested(r, hash) ==
    LET n == Len(approvals[r]) IN IF n = 0 THEN TRUE ELSE approvals[r][n].hash # hash

\* The latest record of the gate, of any verdict, must carry the same hash.
Mismatch(r, hash) ==
    LET n == Len(approvals[r]) IN n > 0 /\ approvals[r][n].hash # hash

Withdraw(a) ==
    /\ Deciding(a, NoDecision)
    /\ UNCHANGED <<manifest, lock, Files, control, resume, env>>

\* grantApproval refuses with "Artifact hash mismatch": exit code 30.
Refuse(a) ==
    /\ reviewer[a].at = "decide" /\ reviewer[a].verdict = "approved"
    /\ lock[reviewer[a].run] = Nobody
    /\ Mismatch(reviewer[a].run, reviewer[a].hash)
    /\ Withdraw(a)

\* Mutant: the manifest is written first.
WriteRecordLast(a) ==
    LET d == reviewer[a] IN
    /\ d.at = "decide" /\ d.verdict \in {"approved", "requested_changes"}
    /\ lock[d.run] = Nobody
    /\ lock' = [lock EXCEPT ![d.run] = a]
    /\ manifest' = [manifest EXCEPT ![d.run].pending = FALSE, ![d.run].completed = TRUE]
    /\ Deciding(a, [d EXCEPT !.at = "commit", !.copy = manifest'[d.run]])
    /\ UNCHANGED <<approvals, prd, queue, control, resume, env>>

\* grantApproval and requestApproval: the record first, then the manifest.
WriteRecord(a) ==
    LET d == reviewer[a] IN
    /\ d.at = "decide" /\ d.verdict \in {"approved", "requested_changes"}
    /\ lock[d.run] = Nobody
    /\ d.verdict = "approved" => ~Mismatch(d.run, d.hash)
    /\ Append1(d.run, d.verdict, d.hash)
    /\ lock' = [lock EXCEPT ![d.run] = a]
    /\ Deciding(a, [d EXCEPT !.at = "commit", !.copy = manifest[d.run]])
    /\ UNCHANGED <<manifest, prd, queue, control, resume, env>>

\* The manifest that was read is written back with the gate moved.
WriteGate(a) ==
    LET d == reviewer[a] IN
    /\ d.at = "commit"
    /\ manifest' = [manifest EXCEPT ![d.run] =
                        IF d.verdict = "approved"
                        THEN [d.copy EXCEPT !.pending = FALSE, !.completed = TRUE]
                        ELSE [d.copy EXCEPT !.pending = TRUE]]
    /\ lock' = [lock EXCEPT ![d.run] = Nobody]
    /\ Deciding(a, NoDecision)
    /\ UNCHANGED <<Files, control, resume, env>>

\* denyApproval: a record without a hash; the gate stays pending.
Deny(a) ==
    LET d == reviewer[a] IN
    /\ d.at = "decide" /\ d.verdict = "rejected"
    /\ lock[d.run] = Nobody
    /\ Append1(d.run, "rejected", NoHash)
    /\ Deciding(a, NoDecision)
    /\ UNCHANGED <<manifest, lock, prd, queue, control, resume, env>>

\* A reviewer's process dies; isLockStale gives its lock to the next.
CrashReviewer(a) ==
    /\ "crash" \in env.events /\ reviewer[a].at = "commit"
    /\ lock' = [lock EXCEPT ![reviewer[a].run] = Nobody]
    /\ Deciding(a, NoDecision)
    /\ UNCHANGED <<manifest, Files, control, resume, env>>

\* The author changes prd.md.
Edit(r) ==
    /\ "edit" \in env.events /\ prd[r] \in 1..(MaxVersion - 1)
    /\ prd' = [prd EXCEPT ![r] = @ + 1]
    /\ UNCHANGED <<manifest, lock, approvals, queue, control, Others>>

\* An integrator fills the queue from a plan (initializeQueueFromPlan); no command does.
PlanTasks(r) ==
    /\ env.planned /\ queue[r] = "none" /\ prd[r] > 0
    /\ queue' = [queue EXCEPT ![r] = "planned"]
    /\ UNCHANGED <<manifest, lock, prd, approvals, control, Others>>

Review(a) ==
    \/ \E r \in Run, v \in {"approved", "rejected"} : Consider(a, r, v)
    \/ \E r \in Run : Request(a, r)
    \/ Refuse(a) \/ WriteRecord(a) \/ WriteGate(a) \/ Deny(a)
-----------------------------------------------------------------------------
(***************************************************************************)
(* resume.ts and resumeCoordinator.ts.                                     *)
(***************************************************************************)
\* checkRunStatus; none of the commands makes a run completed or failed.
Over(r) == manifest[r].status = "completed"

\* checkPendingApprovals
Awaited(r) == manifest[r].pending

\* checkIntegrity and checkQueueFiles
Damaged == "damaged" \in env.events

\* analyzeResumeState: --force overrides the blockers, not the end of the run.
CanResume(r, forced) == ~Over(r) /\ (Awaited(r) \/ Damaged => forced)

Resuming(to) == resume' = to /\ UNCHANGED <<prd, approvals, control, reviewer, env>>

\* resume analyses the run without the lock.
Analyze(r, forced) ==
    /\ resume.at = "idle" /\ manifest[r].exists
    /\ pc \in Live => "overlap" \in env.events
    /\ forced => "force" \in env.events
    /\ CanResume(r, forced)
    /\ Resuming([at |-> "prepare", run |-> r, forced |-> forced])
    /\ UNCHANGED <<manifest, lock, queue>>

\* prepareResume analyses again under the lock; it clears the error and goes back to the last step.
Prepare ==
    LET r == resume.run  m == manifest[r] IN
    /\ resume.at = "prepare" /\ lock[r] = Nobody
    /\ CanResume(r, resume.forced)
    /\ manifest' = [manifest EXCEPT ![r].error = FALSE,
                                    ![r].current = IF m.last # 0 THEN m.last ELSE @]
    /\ Resuming([resume EXCEPT !.at = "engine"])
    /\ UNCHANGED <<lock, queue>>

PrepareThrows ==
    /\ resume.at = "prepare" /\ lock[resume.run] = Nobody
    /\ ~CanResume(resume.run, resume.forced)
    /\ Resuming(NotResuming)
    /\ UNCHANGED <<manifest, lock, queue>>

\* buildAndRunExecutionEngine: the engine runs, or its prerequisites are missing.
RunEngine ==
    /\ resume.at = "engine"
    /\ \/ \E outcome \in {"done", "failed"} : Ran(resume.run, outcome)
       \/ "error" \in env.events /\ UNCHANGED queue
    /\ Resuming(NotResuming)
    /\ UNCHANGED <<manifest, lock>>

CrashResume ==
    /\ "crash" \in env.events /\ resume.at # "idle"
    /\ Resuming(NotResuming)
    /\ UNCHANGED <<manifest, lock, queue>>

Resume ==
    \/ \E r \in Run, f \in BOOLEAN : Analyze(r, f)
    \/ Prepare \/ PrepareThrows \/ RunEngine
-----------------------------------------------------------------------------
Next ==
    \/ OrderIssues \/ Start \/ Again \/ Pipeline \/ Throw \/ CrashPipeline
    \/ \E a \in Reviewer : Review(a) \/ CrashReviewer(a)
    \/ \E r \in Run : Edit(r) \/ PlanTasks(r)
    \/ Resume \/ CrashResume

Spec == Init /\ [][Next]_vars

\* A command that runs goes on; somebody keeps approving what is pending.
FairSpec ==
    /\ Spec /\ WF_vars(Pipeline)
    /\ \A a \in Reviewer :
          WF_vars((\E r \in Run : Consider(a, r, "approved")) \/ Refuse(a) \/ WriteRecord(a)
                    \/ WriteGate(a) \/ Deny(a))
-----------------------------------------------------------------------------
Approved(r, hashes) ==
    \E i \in DOMAIN approvals[r] : approvals[r][i].verdict = "approved" /\ approvals[r][i].hash \in hashes

(***************************************************************************)
(* manifest.json and approvals.json agree on the gate, whoever dies        *)
(* between the two writes: a gate is completed only if an approval is      *)
(* recorded, and it is pending only while approve can find the PRD whose   *)
(* hash it needs.  (requestApproval does not look for it: an integrator's  *)
(* request may come just after a cycle has reset the manifest.)            *)
(***************************************************************************)
RequestsAtReset == "request" \in env.events /\ env.command # "start"

GateConsistent ==
    \A r \in Run :
        /\ manifest[r].completed => Approved(r, 1..Skipped)
        /\ manifest[r].pending /\ ~RequestsAtReset => manifest[r].prd /\ prd[r] > 0

Executing(r) == queue'[r] # queue[r] /\ queue'[r] \in {"done", "failed"}

(***************************************************************************)
(* "By default, all gates are mandatory and must receive explicit approval *)
(* before the pipeline proceeds" (docs/playbooks/approval_gates.md): with  *)
(* approval required, tasks are executed only when an approval of the PRD  *)
(* that is there has been recorded.  Crashes, failed starts, --force and a *)
(* resume beside the pipeline break it.                                    *)
(***************************************************************************)
ExecutesApproved ==
    [][\A r \in Run : Executing(r) /\ env.approval => Approved(r, {prd[r], Skipped})]_vars

(***************************************************************************)
(* Without those four, and with a PRD that nobody edits behind the         *)
(* reviewers' backs, tasks are executed only with an approval of that PRD, *)
(* whatever reviewers and integrators do at the same time.                 *)
(***************************************************************************)
Quiet == env.events \cap {"crash", "error", "edit", "force", "overlap"} = {} /\ env.rounds = 1

ExecutesApprovedWhenQuiet ==
    [][\A r \in Run :
          Quiet /\ Executing(r) /\ env.approval => Approved(r, {prd[r], Skipped})]_vars

(***************************************************************************)
(* No issue comes before one that blocks it, directly or not, unless both  *)
(* are on a cycle; and each issue comes once.                              *)
(***************************************************************************)
BlockersFirst ==
    LET reach == Reach(Run, env.blocks) IN
    ordered # <<>> =>
        /\ ordered \in Seq(Run) /\ {ordered[i] : i \in DOMAIN ordered} = Run
        /\ \A i, j \in DOMAIN ordered : ordered[i] = ordered[j] => i = j
        /\ \A i, j \in DOMAIN ordered :
              i < j /\ reach[ordered[j], ordered[i]] => reach[ordered[i], ordered[j]]

(***************************************************************************)
(* A pending gate is approved in the end when reviewers keep approving,    *)
(* nobody denies or edits, and nobody dies.                                *)
(***************************************************************************)
Approvable == Quiet /\ env.events \cap {"deny", "skipHash", "request"} = {}

GateOpens ==
    \A r \in Run : manifest[r].pending /\ Approvable ~> manifest[r].completed
=============================================================================
