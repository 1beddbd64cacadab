-------------------------- MODULE RunControlProofs --------------------------
(***************************************************************************)
(* What holds of the run directories for any runs, reviewers, bounds and   *)
(* environments: the gate in manifest.json and the records in              *)
(* approvals.json agree (GateAgrees), and nothing unapproved is executed   *)
(* when nobody dies, fails, edits, forces or overlaps                      *)
(* (ApprovedBeforeExecution).                                              *)
(*                                                                         *)
(* Both arguments carry what a process in the middle of something knows: a *)
(* reviewer who has written his record holds the lock, so the manifest he  *)
(* read is still the one on disk; the pipeline that records a PRD has      *)
(* drafted it; resume at the engine has seen the gate not pending and the  *)
(* command gone.  The second also follows each run from before its         *)
(* pipeline (Early) through it (Underway) to afterwards, which needs that  *)
(* a cycle comes to each issue once.                                       *)
(***************************************************************************)
EXTENDS RunControl, FiniteSetTheorems, SequenceTheorems, TLAPS

Decision == [at : {"idle", "decide", "commit"}, run : Run, verdict : Verdict, hash : 0..Skipped,
             copy : Manifest]
ApprovalRecord == [verdict : Verdict, hash : 0..Skipped]
ResumeState == [at : {"idle", "prepare", "engine"}, run : Run, forced : BOOLEAN]

\* The type of every variable the arguments read.
Typed ==
    /\ env \in Environment
    /\ manifest \in [Run -> Manifest]
    /\ prd \in [Run -> 0..MaxVersion]
    /\ approvals \in [Run -> Seq(ApprovalRecord)]
    /\ queue \in [Run -> {"none", "planned", "failed", "done"}]
    /\ lock \in [Run -> Reviewer \cup {Nobody}]
    /\ pc \in Live \cup {"idle", "exited"}
    /\ phase \in 0..4
    /\ failed \in BOOLEAN
    /\ reviewer \in [Reviewer -> Decision]
    /\ resume \in ResumeState
-----------------------------------------------------------------------------
\* What the assumption on the constants gives.
LEMMA Constants ==
    /\ MaxVersion \in Nat /\ Skipped \in Nat /\ Skipped = MaxVersion + 1
    /\ Listed[1] \in Run
    /\ Nobody \notin Reviewer
<1>1. Len(Listed) \in Nat
  BY RunAssumption
<1>2. Len(Listed) # 0
  BY <1>1, RunAssumption
<1> QED
  BY <1>1, <1>2, RunAssumption DEF Skipped

\* The fields of an environment.
LEMMA EnvTyped ==
    ASSUME env \in Environment
    PROVE  /\ env.command \in {"start", "cycle", "preview"} /\ env.events \in SUBSET EventKind
           /\ env.approval \in BOOLEAN /\ env.execute \in BOOLEAN
           /\ env.rounds \in Nat /\ env.maxIssues \in Nat
  BY RunAssumption

\* Two manifests with the same gate.
SameGate(m, n) ==
    /\ m.exists <=> n.exists
    /\ m.pending <=> n.pending
    /\ m.completed <=> n.completed
    /\ m.prd <=> n.prd

\* createInitialManifest: a manifest with no gate.
LEMMA InitialTyped ==
    /\ InitialManifest \in Manifest
    /\ InitialManifest.exists /\ ~InitialManifest.pending
    /\ ~InitialManifest.completed /\ ~InitialManifest.prd
  BY DEF InitialManifest, Manifest, Status

\* A directory that is not there: a manifest with no gate.
LEMMA AbsentTyped ==
    LET m == [InitialManifest EXCEPT !.exists = FALSE]
    IN  m \in Manifest /\ ~m.exists /\ ~m.pending /\ ~m.completed /\ ~m.prd
<1>1. [InitialManifest EXCEPT !.exists = FALSE] \in Manifest
  BY InitialTyped, ZenonT(20) DEF Manifest
<1> QED
  BY <1>1 DEF InitialManifest

\* The updates of the manifest, one lemma for each: what is written is a manifest, and the
\* fields of the gate are those that were read or those the update sets.
LEMMA BeginTyped ==
    ASSUME NEW m \in Manifest, NEW n \in {3, 4}
    PROVE  LET u == [m EXCEPT !.status = "in_progress", !.done = 0, !.total = n]
           IN  u \in Manifest /\ SameGate(u, m)
<1>1. 0 \in 0..4 /\ n \in {0, 3, 4} /\ "in_progress" \in Status
  BY DEF Status
<1>2. [m EXCEPT !.status = "in_progress", !.done = 0, !.total = n] \in Manifest
  BY <1>1, ZenonT(20) DEF Manifest
<1> QED
  BY <1>2 DEF Manifest, SameGate

\* setCurrentStep.
LEMMA CurrentTyped ==
    ASSUME NEW m \in Manifest, NEW p \in 0..4
    PROVE  LET u == [m EXCEPT !.current = p] IN u \in Manifest /\ SameGate(u, m)
  BY SMTT(30) DEF Manifest, SameGate

\* setLastStep.
LEMMA LastTyped ==
    ASSUME NEW m \in Manifest, NEW p \in 0..4
    PROVE  LET u == [m EXCEPT !.last = p, !.current = 0] IN u \in Manifest /\ SameGate(u, m)
<1>1. 0 \in 0..4
  OBVIOUS
<1>2. [m EXCEPT !.last = p, !.current = 0] \in Manifest
  BY <1>1, ZenonT(20) DEF Manifest
<1> QED
  BY <1>2 DEF Manifest, SameGate

\* setLastError.
LEMMA ErrorTyped ==
    ASSUME NEW m \in Manifest
    PROVE  LET u == [m EXCEPT !.status = "paused", !.error = TRUE] IN u \in Manifest /\ SameGate(u, m)
<1>1. "paused" \in Status /\ TRUE \in BOOLEAN
  BY DEF Status
<1>2. [m EXCEPT !.status = "paused", !.error = TRUE] \in Manifest
  BY <1>1, ZenonT(20) DEF Manifest
<1> QED
  BY <1>2 DEF Manifest, SameGate

\* updateExecutionProgress.
LEMMA DoneTyped ==
    ASSUME NEW m \in Manifest, NEW p \in 0..4
    PROVE  LET u == [m EXCEPT !.done = Highest(@, p)] IN u \in Manifest /\ SameGate(u, m)
<1>1. Highest(m.done, p) \in 0..4
  BY DEF Highest, Manifest
<1>2. [m EXCEPT !.done = Highest(@, p)] \in Manifest
  BY <1>1, ZenonT(20) DEF Manifest
<1> QED
  BY <1>2 DEF Manifest, SameGate

\* prepareResume.
LEMMA ResumedTyped ==
    ASSUME NEW m \in Manifest
    PROVE  LET u == [m EXCEPT !.error = FALSE, !.current = IF m.last # 0 THEN m.last ELSE @]
           IN  u \in Manifest /\ SameGate(u, m)
<1>1. (IF m.last # 0 THEN m.last ELSE m.current) \in 0..4 /\ FALSE \in BOOLEAN
  BY DEF Manifest
<1>2. [m EXCEPT !.error = FALSE, !.current = IF m.last # 0 THEN m.last ELSE m.current] \in Manifest
  BY <1>1, ZenonT(20) DEF Manifest
<1>3. [m EXCEPT !.error = FALSE, !.current = IF m.last # 0 THEN m.last ELSE @] =
        [m EXCEPT !.error = FALSE, !.current = IF m.last # 0 THEN m.last ELSE m.current]
  OBVIOUS
<1> QED
  BY <1>2, <1>3 DEF Manifest, SameGate

\* markApprovalRequired, and requestApproval's manifest.
LEMMA RequiredTyped ==
    ASSUME NEW m \in Manifest
    PROVE  LET u == [m EXCEPT !.pending = TRUE]
           IN  u \in Manifest /\ u.pending /\ (u.exists <=> m.exists)
               /\ (u.completed <=> m.completed) /\ (u.prd <=> m.prd)
<1>1. [m EXCEPT !.pending = TRUE] \in Manifest
  BY ZenonT(20) DEF Manifest
<1> QED
  BY <1>1 DEF Manifest

\* grantApproval's manifest.
LEMMA GrantedTyped ==
    ASSUME NEW m \in Manifest
    PROVE  LET u == [m EXCEPT !.pending = FALSE, !.completed = TRUE]
           IN  u \in Manifest /\ ~u.pending /\ u.completed
               /\ (u.exists <=> m.exists) /\ (u.prd <=> m.prd)
<1>1. [m EXCEPT !.pending = FALSE, !.completed = TRUE] \in Manifest
  BY ZenonT(20) DEF Manifest
<1> QED
  BY <1>1 DEF Manifest

\* The update that records the PRD.
LEMMA RecordedTyped ==
    ASSUME NEW m \in Manifest, NEW s \in Status
    PROVE  LET u == [m EXCEPT !.prd = TRUE, !.status = s]
           IN  u \in Manifest /\ u.prd /\ (u.exists <=> m.exists)
               /\ (u.pending <=> m.pending) /\ (u.completed <=> m.completed)
<1>1. [m EXCEPT !.prd = TRUE, !.status = s] \in Manifest
  BY ZenonT(20) DEF Manifest
<1> QED
  BY <1>1 DEF Manifest

\* updateManifest: one manifest is written under a lock nobody holds.
LEMMA UpdateTyped ==
    ASSUME manifest \in [Run -> Manifest], NEW r, NEW m, Update(r, m), r \in Run => m \in Manifest
    PROVE  /\ manifest' \in [Run -> Manifest] /\ lock' = lock
           /\ \A q \in Run : manifest'[q] = IF q = r THEN m ELSE manifest[q]
  BY DEF Update

-----------------------------------------------------------------------------
\* The initial states are well typed.
LEMMA TypedInit == ASSUME Init PROVE Typed
<1>1. NoDecision \in Decision
  BY Constants, InitialTyped DEF NoDecision, Decision, Verdict, NoHash
<1>2. NotResuming \in ResumeState
  BY Constants DEF NotResuming, ResumeState
<1>3. reviewer \in [Reviewer -> Decision] /\ resume \in ResumeState
  BY <1>1, <1>2 DEF Init
<1>4. manifest \in [Run -> Manifest]
  BY AbsentTyped DEF Init
<1>5. /\ prd \in [Run -> 0..MaxVersion]
      /\ approvals \in [Run -> Seq(ApprovalRecord)]
  BY Constants DEF Init
<1>6. /\ queue \in [Run -> {"none", "planned", "failed", "done"}]
      /\ lock \in [Run -> Reviewer \cup {Nobody}]
  BY DEF Init
<1>7. env \in Environment /\ pc \in Live \cup {"idle", "exited"} /\ phase \in 0..4
  BY DEF Init
<1>8. failed \in BOOLEAN
  BY DEF Init
<1> QED
  BY <1>3, <1>4, <1>5, <1>6, <1>7, <1>8 DEF Typed

\* The steps of the pipeline keep the types.
LEMMA PipelineTyped == ASSUME Typed, Pipeline PROVE Typed'
<1> USE DEF At, Goto, Files, Others, Loop
<1>a. current \in Run => manifest[current] \in Manifest
  BY DEF Typed
<1>b. manifest \in [Run -> Manifest]
  BY DEF Typed
<1>c. \A s \in Live \cup {"idle", "exited"} : pc' = s => pc' \in Live \cup {"idle", "exited"}
  OBVIOUS
<1>1. CASE Create
  <2>1. manifest' \in [Run -> Manifest]
    BY <1>1, <1>b, InitialTyped DEF Create
  <2>2. pc' \in Live
    BY <1>1 DEF Create, Live, Stage
  <2> QED
    BY <1>1, <2>1, <2>2 DEF Create, Typed
<1>2. CASE Telemetry
  <2>1. manifest' \in [Run -> Manifest] /\ lock' = lock
    BY <1>2, <1>a, <1>b, UpdateTyped DEF Telemetry
  <2>2. pc' \in Live
    BY <1>2 DEF Telemetry, Live, Stage
  <2> QED
    BY <1>2, <2>1, <2>2 DEF Telemetry, Typed
<1>3. CASE Begin
  <2>1. manifest' \in [Run -> Manifest] /\ lock' = lock
    BY <1>3, <1>a, <1>b, UpdateTyped, BeginTyped DEF Begin
  <2>2. pc' \in Live /\ phase' \in 0..4
    BY <1>3 DEF Begin, Live, Stage
  <2> QED
    BY <1>3, <2>1, <2>2 DEF Begin, Typed
<1>4. CASE Enter
  <2>1. manifest' \in [Run -> Manifest] /\ lock' = lock
    BY <1>4, <1>a, <1>b, UpdateTyped, CurrentTyped DEF Enter, SetCurrentStep, Typed
  <2>2. pc' \in Live
    BY <1>4 DEF Enter, Live, Stage
  <2> QED
    BY <1>4, <2>1, <2>2 DEF Enter, Typed
<1>5. CASE Prepared
  <2>1. pc' \in Live
    BY <1>5 DEF Prepared, Live, Stage
  <2> QED
    BY <1>5, <2>1 DEF Prepared, Typed
<1>6. CASE Drafted
  <2>1. prd' \in [Run -> 0..MaxVersion]
    <3>1. prd \in [Run -> 0..MaxVersion]
      BY DEF Typed
    <3>2. current \in Run => prd[current] + 1 \in 0..MaxVersion
      BY <1>6, <3>1, Constants DEF Drafted
    <3>3. prd' = [prd EXCEPT ![current] = prd[current] + 1]
      BY <1>6 DEF Drafted
    <3> QED
      BY <3>1, <3>2, <3>3
  <2>2. pc' \in Live
    BY <1>6 DEF Drafted, Live, Stage
  <2> QED
    BY <1>6, <2>1, <2>2 DEF Drafted, Typed
<1>7. CASE Executed
  <2>1. queue' \in [Run -> {"none", "planned", "failed", "done"}] /\ failed' \in BOOLEAN
    BY <1>7 DEF Executed, Ran, Typed
  <2>2. pc' \in Live
    BY <1>7 DEF Executed, Live, Stage
  <2> QED
    BY <1>7, <2>1, <2>2 DEF Executed, Typed
<1>8. CASE Leave
  <2>1. manifest' \in [Run -> Manifest] /\ lock' = lock
    BY <1>8, <1>a, <1>b, UpdateTyped, LastTyped DEF Leave, SetLastStep, Typed
  <2>2. pc' \in Live
    BY <1>8 DEF Leave, Live, Stage
  <2> QED
    BY <1>8, <2>1, <2>2 DEF Leave, Typed
<1>9. CASE Progress
  <2>1. manifest' \in [Run -> Manifest] /\ lock' = lock
    BY <1>9, <1>a, <1>b, UpdateTyped, DoneTyped DEF Progress, UpdateProgress, Typed
  <2>2. pc' \in Live /\ phase' \in 0..4
    BY <1>9 DEF Progress, Live, Stage, Typed
  <2> QED
    BY <1>9, <2>1, <2>2 DEF Progress, Typed
<1>10. CASE RecordPrd
  <2>1. manifest' \in [Run -> Manifest] /\ lock' = lock
    BY <1>10, <1>a, <1>b, UpdateTyped, RecordedTyped DEF RecordPrd, Status
  <2>2. pc' \in Live /\ phase' \in 0..4
    BY <1>10 DEF RecordPrd, Live, Stage, Typed
  <2> QED
    BY <1>10, <2>1, <2>2 DEF RecordPrd, Typed
<1>11. CASE RequireApproval
  <2>1. manifest' \in [Run -> Manifest] /\ lock' = lock
    BY <1>11, <1>a, <1>b, UpdateTyped, RequiredTyped DEF RequireApproval, MarkApprovalRequired
  <2>2. pc' \in Live
    BY <1>11 DEF RequireApproval, Live, Stage
  <2> QED
    BY <1>11, <2>1, <2>2 DEF RequireApproval, Typed
<1>12. CASE SkipIssue \/ NextIssue \/ IssueDone \/ IssueFailed \/ CycleDone \/ StartDone
  <2>1. pc' \in Live \cup {"exited"} /\ phase' \in 0..4
    BY <1>12 DEF SkipIssue, NextIssue, IssueDone, IssueFailed, CycleDone, StartDone, Exit, Live, Stage, Typed
  <2>3. failed' \in BOOLEAN
    BY <1>12 DEF SkipIssue, NextIssue, IssueDone, IssueFailed, CycleDone, StartDone, Exit, Typed
  <2>2. UNCHANGED <<manifest, lock, prd, approvals, queue, reviewer, resume, env>>
    BY <1>12 DEF SkipIssue, NextIssue, IssueDone, IssueFailed, CycleDone, StartDone, Exit
  <2> QED
    BY <2>1, <2>2, <2>3 DEF Typed
<1>13. CASE StartFailed
  <2>1. manifest' \in [Run -> Manifest] /\ lock' = lock
    BY <1>13, <1>a, <1>b, UpdateTyped, ErrorTyped DEF StartFailed, SetLastError
  <2> QED
    BY <1>13, <2>1 DEF StartFailed, Exit, Typed
<1> QED
  BY <1>1, <1>2, <1>3, <1>4, <1>5, <1>6, <1>7, <1>8, <1>9, <1>10, <1>11, <1>12, <1>13 DEF Pipeline

\* The steps of reviewers keep the types.
LEMMA ReviewTyped == ASSUME Typed, NEW a \in Reviewer, Review(a) \/ CrashReviewer(a) PROVE Typed'
<1> USE DEF Files, Others, control
<1>d. reviewer[a] \in Decision /\ reviewer \in [Reviewer -> Decision]
  BY DEF Typed
<1>r. reviewer[a].run \in Run /\ reviewer[a].copy \in Manifest /\ reviewer[a].hash \in 0..Skipped
  BY <1>d DEF Decision
<1>n. NoDecision \in Decision
  BY Constants, InitialTyped DEF NoDecision, Decision, Verdict, NoHash
<1>1. ASSUME NEW r \in Run, NEW v \in {"approved", "rejected"}, Consider(a, r, v) PROVE Typed'
  <2>1. PICK h \in {prd[r], Skipped} :
            Deciding(a, [NoDecision EXCEPT !.at = "decide", !.run = r, !.verdict = v, !.hash = h])
    BY <1>1 DEF Consider
  <2>2. h \in 0..Skipped
    BY Constants DEF Typed
  <2>3. [NoDecision EXCEPT !.at = "decide", !.run = r, !.verdict = v, !.hash = h] \in Decision
    BY <1>n, <2>2 DEF NoDecision, Decision, Verdict
  <2>4. reviewer' \in [Reviewer -> Decision]
    BY <1>d, <2>1, <2>3 DEF Deciding
  <2> QED
    BY <1>1, <2>4 DEF Consider, Typed
<1>2. ASSUME NEW r \in Run, Request(a, r) PROVE Typed'
  <2>1. prd[r] \in 0..Skipped
    BY Constants DEF Typed
  <2>2. [NoDecision EXCEPT !.at = "decide", !.run = r, !.verdict = "requested_changes", !.hash = prd[r]]
            \in Decision
    BY <1>n, <2>1 DEF NoDecision, Decision, Verdict
  <2>3. reviewer' \in [Reviewer -> Decision]
    BY <1>2, <1>d, <2>2 DEF Request, Deciding
  <2> QED
    BY <1>2, <2>3 DEF Request, Typed
<1>3. CASE Refuse(a)
  <2>1. reviewer' \in [Reviewer -> Decision]
    BY <1>3, <1>d, <1>n DEF Refuse, Withdraw, Deciding
  <2> QED
    BY <1>3, <2>1 DEF Refuse, Withdraw, Typed
<1>4. CASE WriteRecord(a)
  <2>1. manifest[reviewer[a].run] \in Manifest
    BY <1>r DEF Typed
  <2>2. [reviewer[a] EXCEPT !.at = "commit", !.copy = manifest[reviewer[a].run]] \in Decision
    BY <1>d, <2>1 DEF Decision
  <2>3. reviewer' \in [Reviewer -> Decision]
    BY <1>4, <1>d, <2>2 DEF WriteRecord, Deciding
  <2>4. [verdict |-> reviewer[a].verdict, hash |-> reviewer[a].hash] \in ApprovalRecord
    BY <1>d DEF Decision, ApprovalRecord
  <2>5. approvals' \in [Run -> Seq(ApprovalRecord)]
    BY <1>4, <2>4, <1>r DEF WriteRecord, Append1, Typed
  <2>6. lock' \in [Run -> Reviewer \cup {Nobody}]
    BY <1>4 DEF WriteRecord, Typed
  <2> QED
    BY <1>4, <2>3, <2>5, <2>6 DEF WriteRecord, Typed
<1>5. CASE WriteGate(a)
  <2> DEFINE m == IF reviewer[a].verdict = "approved"
                  THEN [reviewer[a].copy EXCEPT !.pending = FALSE, !.completed = TRUE]
                  ELSE [reviewer[a].copy EXCEPT !.pending = TRUE]
  <2>1. m \in Manifest
    BY <1>r, GrantedTyped, RequiredTyped
  <2>2. manifest' = [manifest EXCEPT ![reviewer[a].run] = m]
    BY <1>5 DEF WriteGate
  <2>3. manifest' \in [Run -> Manifest]
    BY <2>1, <2>2 DEF Typed
  <2>4. reviewer' \in [Reviewer -> Decision] /\ lock' \in [Run -> Reviewer \cup {Nobody}]
    BY <1>5, <1>d, <1>n DEF WriteGate, Deciding, Typed
  <2> QED
    BY <1>5, <2>3, <2>4 DEF WriteGate, Typed
<1>6. CASE Deny(a)
  <2>1. [verdict |-> "rejected", hash |-> NoHash] \in ApprovalRecord
    BY Constants DEF ApprovalRecord, NoHash, Verdict
  <2>2. approvals' \in [Run -> Seq(ApprovalRecord)]
    BY <1>6, <2>1, <1>r DEF Deny, Append1, Typed
  <2>3. reviewer' \in [Reviewer -> Decision]
    BY <1>6, <1>d, <1>n DEF Deny, Deciding
  <2> QED
    BY <1>6, <2>2, <2>3 DEF Deny, Typed
<1>7. CASE CrashReviewer(a)
  <2>1. reviewer' \in [Reviewer -> Decision] /\ lock' \in [Run -> Reviewer \cup {Nobody}]
    BY <1>7, <1>d, <1>n DEF CrashReviewer, Deciding, Typed
  <2> QED
    BY <1>7, <2>1 DEF CrashReviewer, Typed
<1> QED
  BY <1>1, <1>2, <1>3, <1>4, <1>5, <1>6, <1>7 DEF Review

\* The steps of resume keep the types.
LEMMA ResumeTyped == ASSUME Typed, Resume \/ CrashResume PROVE Typed'
<1> USE DEF Resuming, control
<1>r. resume.run \in Run /\ resume.forced \in BOOLEAN
  BY DEF Typed, ResumeState
<1>n. NotResuming \in ResumeState
  BY Constants DEF NotResuming, ResumeState
<1>1. ASSUME NEW r \in Run, NEW f \in BOOLEAN, Analyze(r, f) PROVE Typed'
  <2>1. resume' \in ResumeState
    BY <1>1 DEF Analyze, ResumeState
  <2> QED
    BY <1>1, <2>1 DEF Analyze, Typed
<1>2. CASE Prepare
  <2> DEFINE r == resume.run  m == manifest[r]
             u == [m EXCEPT !.error = FALSE, !.current = IF m.last # 0 THEN m.last ELSE @]
  <2>1. m \in Manifest
    BY <1>r DEF Typed
  <2>2. u \in Manifest
    BY <2>1, ResumedTyped
  <2>3. manifest' = [manifest EXCEPT ![r] = u]
    BY <1>2 DEF Prepare
  <2>4. manifest' \in [Run -> Manifest]
    BY <2>2, <2>3 DEF Typed
  <2>5. resume' \in ResumeState
    BY <1>2, <1>r DEF Prepare, Typed, ResumeState
  <2> QED
    BY <1>2, <2>4, <2>5 DEF Prepare, Typed
<1>3. CASE PrepareThrows \/ CrashResume
  BY <1>3, <1>n DEF PrepareThrows, CrashResume, Typed
<1>4. CASE RunEngine
  <2>1. queue' \in [Run -> {"none", "planned", "failed", "done"}]
    BY <1>4, <1>r DEF RunEngine, Ran, Typed
  <2> QED
    BY <1>4, <1>n, <2>1 DEF RunEngine, Typed
<1> QED
  BY <1>1, <1>2, <1>3, <1>4 DEF Resume

\* Every step keeps the types.
LEMMA TypedStep == ASSUME Typed, [Next]_vars PROVE Typed'
<1> USE DEF Files, Others, Loop, control
<1>1. CASE Pipeline
  BY <1>1, PipelineTyped
<1>2. CASE \E a \in Reviewer : Review(a) \/ CrashReviewer(a)
  BY <1>2, ReviewTyped
<1>3. CASE Resume \/ CrashResume
  BY <1>3, ResumeTyped
<1>4. CASE OrderIssues \/ Start \/ Again \/ Throw \/ CrashPipeline
  <2>1. pc' \in Live \cup {"idle", "exited"}
    BY <1>4 DEF OrderIssues, Start, Again, Throw, CrashPipeline, Exit, Goto, Live, Stage
  <2>2. UNCHANGED <<manifest, lock, prd, approvals, queue, phase, failed, reviewer, resume, env>>
    BY <1>4 DEF OrderIssues, Start, Again, Throw, CrashPipeline, Exit, Goto
  <2> QED
    BY <2>1, <2>2 DEF Typed
<1>5. ASSUME NEW r \in Run, Edit(r) PROVE Typed'
  <2>1. prd' \in [Run -> 0..MaxVersion]
    BY <1>5, Constants DEF Edit, Typed
  <2> QED
    BY <1>5, <2>1 DEF Edit, Typed
<1>6. ASSUME NEW r \in Run, PlanTasks(r) PROVE Typed'
  <2>1. queue' \in [Run -> {"none", "planned", "failed", "done"}]
    BY <1>6 DEF PlanTasks, Typed
  <2> QED
    BY <1>6, <2>1 DEF PlanTasks, Typed
<1>7. CASE UNCHANGED vars
  BY <1>7 DEF vars, Typed
<1> QED
  BY <1>1, <1>2, <1>3, <1>4, <1>5, <1>6, <1>7 DEF Next

(***************************************************************************)
(* Manifests, records, locks and the processes' states are well formed,    *)
(* whatever the commands, reviewers and resume do.                         *)
(***************************************************************************)
THEOREM TypeCorrect == Spec => []Typed
<1>1. Init => Typed
  BY TypedInit
<1>2. Typed /\ [Next]_vars => Typed'
  BY TypedStep
<1> QED
  BY <1>1, <1>2, PTL DEF Spec

-----------------------------------------------------------------------------
\* A reviewer between the two writes of a decision holds the lock.
Locked == \A a \in Reviewer : reviewer[a].at = "commit" => lock[reviewer[a].run] = a

\* What a manifest says of the gate, the files bear out.
Backed(m, r) == (m.completed => Approved(r, 1..Skipped)) /\ (m.prd => prd[r] > 0)

ManifestBacked == \A r \in Run : Backed(manifest[r], r)

\* So they do for the manifest a reviewer is about to write back, which forgets no PRD.
CopyBacked ==
    \A a \in Reviewer : reviewer[a].at = "commit" =>
        /\ Backed(reviewer[a].copy, reviewer[a].run)
        /\ manifest[reviewer[a].run].prd => reviewer[a].copy.prd

\* A decision is about a PRD that exists; between its two writes the record is in the file.
DecisionBacked ==
    \A a \in Reviewer :
        /\ reviewer[a].at = "decide" /\ reviewer[a].verdict # "rejected" =>
              reviewer[a].hash \in 1..Skipped
        /\ reviewer[a].at = "commit" =>
              /\ reviewer[a].verdict # "rejected"
              /\ reviewer[a].verdict = "approved" => Approved(reviewer[a].run, 1..Skipped)

\* The gate is pending only of a PRD that is recorded.
Asked(m) == m.pending => m.prd

PendingAsked ==
    ~RequestsAtReset =>
        /\ \A r \in Run : Asked(manifest[r])
        /\ \A a \in Reviewer : reviewer[a].at = "commit" => Asked(reviewer[a].copy)

\* Only integrators request, and under start the PRD stays recorded.
RequestAsked ==
    \A a \in Reviewer : reviewer[a].at # "idle" /\ reviewer[a].verdict = "requested_changes" =>
        /\ "request" \in env.events
        /\ env.command = "start" => manifest[reviewer[a].run].prd

\* The pipeline records only what it has drafted.
DraftBacked ==
    /\ pc = "record" => phase = 3
    /\ current \in Run /\ phase = 3 /\ pc \in {"leave", "progress", "record"} => prd[current] > 0

GateAsked == pc = "gate" /\ current \in Run => manifest[current].prd

\* start finds no directory and nobody who decides.
StartsFresh ==
    env.command = "start" =>
        /\ pc # "next"
        /\ pc \in {"idle", "create"} =>
              /\ \A r \in Run : ~manifest[r].exists
              /\ \A a \in Reviewer : reviewer[a].at = "idle"

SharedInv ==
    Locked /\ ManifestBacked /\ CopyBacked /\ DecisionBacked /\ PendingAsked /\ RequestAsked
ControlInv == DraftBacked /\ GateAsked /\ StartsFresh
GateInv == SharedInv /\ ControlInv
-----------------------------------------------------------------------------
\* A record that is appended leaves the earlier ones where they are.
LEMMA ApprovedAppend ==
    ASSUME Typed, NEW r \in Run, NEW x \in ApprovalRecord,
           approvals' = [approvals EXCEPT ![r] = Append(@, x)]
    PROVE  \A q \in Run : \A i \in DOMAIN approvals[q] :
              i \in DOMAIN approvals'[q] /\ approvals'[q][i] = approvals[q][i]
<1>1. approvals[r] \in Seq(ApprovalRecord) /\ approvals'[r] = Append(approvals[r], x)
  BY DEF Typed
<1>2. \A q \in Run : q # r => approvals'[q] = approvals[q]
  BY DEF Typed
<1> QED
  BY <1>1, <1>2

\* What has been approved stays approved as long as records are only appended.
LEMMA ApprovedKept ==
    ASSUME \A q \in Run : \A i \in DOMAIN approvals[q] :
              i \in DOMAIN approvals'[q] /\ approvals'[q][i] = approvals[q][i]
    PROVE  \A q \in Run : Approved(q, 1..Skipped) => Approved(q, 1..Skipped)'
  BY DEF Approved, Skipped

\* A step that leaves the gates, the records and the reviewers alone keeps what holds of them.
LEMMA SharedFrame ==
    ASSUME Typed, SharedInv,
           \A r \in Run : SameGate(manifest'[r], manifest[r]),
           \A r \in Run : prd[r] > 0 => prd'[r] > 0,
           UNCHANGED <<approvals, lock, reviewer, env>>
    PROVE  SharedInv'
<1>r. \A a \in Reviewer : reviewer[a].run \in Run
  BY DEF Typed, Decision
<1>a. \A r \in Run : Approved(r, 1..Skipped) => Approved(r, 1..Skipped)'
  BY DEF Approved, Skipped
<1>1. Locked'
  BY DEF SharedInv, Locked
<1>2. ManifestBacked'
  BY <1>a DEF SharedInv, ManifestBacked, Backed, SameGate
<1>3. CopyBacked'
  BY <1>a, <1>r DEF SharedInv, CopyBacked, Backed, SameGate
<1>4. DecisionBacked'
  BY <1>a, <1>r DEF SharedInv, DecisionBacked, Skipped
<1>5. PendingAsked'
  BY <1>r DEF SharedInv, PendingAsked, Asked, SameGate, RequestsAtReset
<1>6. RequestAsked'
  BY <1>r DEF SharedInv, RequestAsked, SameGate
<1> QED
  BY <1>1, <1>2, <1>3, <1>4, <1>5, <1>6 DEF SharedInv

\* An update that leaves the fields of the gate alone leaves every gate alone.
LEMMA SameGateUpdate ==
    ASSUME Typed, NEW r, NEW m, Update(r, m), r \in Run => m \in Manifest /\ SameGate(m, manifest[r])
    PROVE  lock' = lock /\ \A q \in Run : SameGate(manifest'[q], manifest[q])
<1>1. manifest \in [Run -> Manifest]
  BY DEF Typed
<1>2. \A q \in Run : manifest'[q] = IF q = r THEN m ELSE manifest[q]
  BY <1>1, UpdateTyped
<1>3. \A q \in Run : SameGate(manifest[q], manifest[q])
  BY DEF SameGate
<1> QED
  BY <1>1, <1>2, <1>3 DEF Update

\* The updates of the pipeline that do not touch the gate.
SilentUpdate == Telemetry \/ Begin \/ Enter \/ Leave \/ Progress \/ StartFailed

\* What the silent updates leave alone.
LEMMA SilentUpdateFrame ==
    ASSUME Typed, SilentUpdate
    PROVE  /\ UNCHANGED <<prd, approvals, queue, lock, reviewer, resume, env>>
           /\ \A q \in Run : SameGate(manifest'[q], manifest[q])
<1> USE DEF At, Goto, Files, Others, Loop
<1>m. current \in Run => manifest[current] \in Manifest
  BY DEF Typed
<1>p. phase \in 0..4
  BY DEF Typed
<1>1. CASE Telemetry
  <2>1. SameGate(manifest[current], manifest[current])
    BY DEF SameGate
  <2> QED
    BY <1>1, <1>m, <2>1, SameGateUpdate DEF Telemetry
<1>2. CASE Begin
  BY <1>2, <1>m, BeginTyped, SameGateUpdate DEF Begin
<1>3. CASE Enter
  BY <1>3, <1>m, <1>p, CurrentTyped, SameGateUpdate DEF Enter, SetCurrentStep
<1>4. CASE Leave
  BY <1>4, <1>m, <1>p, LastTyped, SameGateUpdate DEF Leave, SetLastStep
<1>5. CASE Progress
  BY <1>5, <1>m, <1>p, DoneTyped, SameGateUpdate DEF Progress, UpdateProgress
<1>6. CASE StartFailed
  BY <1>6, <1>m, ErrorTyped, SameGateUpdate DEF StartFailed, SetLastError, Exit
<1> QED
  BY <1>1, <1>2, <1>3, <1>4, <1>5, <1>6 DEF SilentUpdate

\* The steps of the commands that write none of the files of the gate.
ControlStep ==
    \/ Prepared \/ Executed \/ SkipIssue \/ NextIssue \/ IssueDone \/ IssueFailed \/ CycleDone
    \/ StartDone \/ OrderIssues \/ Start \/ Again \/ Throw \/ CrashPipeline

\* What the steps without a write leave alone.
LEMMA ControlStepFrame ==
    ASSUME ControlStep
    PROVE  UNCHANGED <<manifest, prd, approvals, lock, reviewer, resume, env>>
  BY DEF ControlStep, Prepared, Executed, SkipIssue, NextIssue, IssueDone, IssueFailed, CycleDone,
         StartDone, OrderIssues, Start, Again, Throw, CrashPipeline, Goto, Files, Others, Exit

\* Neither kind of step disturbs the invariant.
LEMMA SilentControl ==
    ASSUME Typed, GateInv, SilentUpdate \/ ControlStep
    PROVE  GateInv'
<1>1. /\ UNCHANGED <<prd, approvals, lock, reviewer, resume, env>>
      /\ \A q \in Run : SameGate(manifest'[q], manifest[q])
  BY SilentUpdateFrame, ControlStepFrame DEF SameGate
<1>2. SharedInv'
  BY <1>1, SharedFrame DEF GateInv
<1> USE DEF At, Goto, Exit, Loop, Others, Files
<1>3. DraftBacked'
  BY <1>1 DEF GateInv, ControlInv, DraftBacked, SilentUpdate, ControlStep, Telemetry, Begin, Enter,
         Leave, Progress, StartFailed, Prepared, Executed, SkipIssue, NextIssue, IssueDone, IssueFailed,
         CycleDone, StartDone, OrderIssues, Start, Again, Throw, CrashPipeline
<1>4. GateAsked'
  BY <1>1 DEF GateInv, ControlInv, GateAsked, SameGate, SilentUpdate, ControlStep, Telemetry, Begin, Enter,
         Leave, Progress, StartFailed, Prepared, Executed, SkipIssue, NextIssue, IssueDone, IssueFailed,
         CycleDone, StartDone, OrderIssues, Start, Again, Throw, CrashPipeline
<1>5. StartsFresh'
  BY <1>1 DEF GateInv, ControlInv, StartsFresh, SameGate, SilentUpdate, ControlStep, Telemetry, Begin, Enter,
         Leave, Progress, StartFailed, Prepared, Executed, SkipIssue, NextIssue, IssueDone, IssueFailed,
         CycleDone, StartDone, OrderIssues, Start, Again, Throw, CrashPipeline
<1> QED
  BY <1>2, <1>3, <1>4, <1>5 DEF GateInv, ControlInv

\* A manifest that is written anew has no gate; start creates before anybody has decided.
LEMMA CreateGate == ASSUME Typed, GateInv, Create PROVE GateInv'
<1> USE DEF At, Loop, Others, Files
<1>1. /\ UNCHANGED <<prd, approvals, lock, reviewer, resume, env, phase, current>>
      /\ \A q \in Run : manifest'[q] = IF q = current THEN InitialManifest ELSE manifest[q]
      /\ pc = "create" /\ pc' \in {"telemetry", "begin"}
  BY DEF Create, Typed
<1>r. \A a \in Reviewer : reviewer[a].run \in Run
  BY DEF Typed, Decision
<1>a. \A r \in Run : Approved(r, 1..Skipped) => Approved(r, 1..Skipped)'
  BY <1>1 DEF Approved, Skipped
<1>2. Locked'
  BY <1>1 DEF GateInv, SharedInv, Locked
<1>3. ManifestBacked'
  BY <1>1, <1>a, InitialTyped DEF GateInv, SharedInv, ManifestBacked, Backed
<1>4. CopyBacked'
  BY <1>1, <1>a, <1>r, InitialTyped DEF GateInv, SharedInv, CopyBacked, Backed
<1>5. DecisionBacked'
  BY <1>1, <1>a, <1>r DEF GateInv, SharedInv, DecisionBacked, Skipped
<1>6. PendingAsked'
  BY <1>1, <1>r, InitialTyped DEF GateInv, SharedInv, PendingAsked, Asked, RequestsAtReset
<1>7. RequestAsked'
  BY <1>1, <1>r DEF GateInv, SharedInv, ControlInv, StartsFresh, RequestAsked
<1>8. ControlInv'
  BY <1>1 DEF GateInv, ControlInv, DraftBacked, GateAsked, StartsFresh
<1> QED
  BY <1>2, <1>3, <1>4, <1>5, <1>6, <1>7, <1>8 DEF GateInv, SharedInv

\* A draft only adds a version.
LEMMA DraftedGate == ASSUME Typed, GateInv, Drafted PROVE GateInv'
<1> USE DEF At, Goto, Loop, Others, Files
<1>1. /\ UNCHANGED <<manifest, approvals, lock, reviewer, resume, env, phase, current>>
      /\ pc = "work" /\ pc' = "leave" /\ phase = 3
  BY DEF Drafted
<1>2. prd \in [Run -> Nat] /\ prd' = [prd EXCEPT ![current] = prd[current] + 1]
  BY Constants DEF Drafted, Typed
<1>3. \A q \in Run : prd'[q] = IF q = current THEN prd[q] + 1 ELSE prd[q]
  BY <1>2
<1>4. SharedInv'
  <2>1. \A q \in Run : prd[q] > 0 => prd'[q] > 0
    BY <1>2, <1>3
  <2> QED
    BY <1>1, <2>1, SharedFrame DEF GateInv, SameGate
<1>5. ControlInv'
  BY <1>1, <1>2, <1>3 DEF GateInv, ControlInv, DraftBacked, GateAsked, StartsFresh
<1> QED
  BY <1>4, <1>5 DEF GateInv

\* While the lock is free nobody is between the two writes.
LEMMA NobodyCommits ==
    ASSUME Typed, GateInv, NEW r \in Run, lock[r] = Nobody, NEW a \in Reviewer, reviewer[a].at = "commit"
    PROVE  reviewer[a].run # r
  BY Constants DEF GateInv, SharedInv, Locked

\* The PRD that is recorded was drafted, and no reviewer holds an older manifest.
LEMMA RecordPrdGate == ASSUME Typed, GateInv, RecordPrd PROVE GateInv'
<1> USE DEF At, Loop, Others, Files
<1> DEFINE s == IF env.approval THEN "paused" ELSE "in_progress"
           m == [manifest[current] EXCEPT !.prd = TRUE, !.status = s]
<1>1. /\ UNCHANGED <<prd, approvals, lock, reviewer, resume, env, current>>
      /\ Update(current, m) /\ lock[current] = Nobody
      /\ pc = "record" /\ pc' \in {"gate", "enter", "finish"}
      /\ phase' \in {4, phase}
  BY DEF RecordPrd, Update
<1>m. current \in Run => manifest[current] \in Manifest
  BY DEF Typed
<1>s. s \in Status
  BY DEF Status
<1>2. current \in Run =>
        /\ m \in Manifest /\ m.prd
        /\ m.exists <=> manifest[current].exists
        /\ m.pending <=> manifest[current].pending
        /\ m.completed <=> manifest[current].completed
  BY <1>m, <1>s, RecordedTyped
<1>3. \A q \in Run : manifest'[q] = IF q = current THEN m ELSE manifest[q]
  BY <1>1, <1>2, UpdateTyped DEF Typed
<1>4. current \in Run => prd[current] > 0
  BY <1>1 DEF GateInv, ControlInv, DraftBacked
<1>c. current \in Run => \A a \in Reviewer : reviewer[a].at = "commit" => reviewer[a].run # current
  BY <1>1, NobodyCommits
<1> HIDE DEF m, s
<1>r. \A a \in Reviewer : reviewer[a].run \in Run
  BY DEF Typed, Decision
<1>a. \A r \in Run : Approved(r, 1..Skipped) => Approved(r, 1..Skipped)'
  BY <1>1 DEF Approved, Skipped
<1>5. Locked'
  BY <1>1 DEF GateInv, SharedInv, Locked
<1>6. ManifestBacked'
  BY <1>1, <1>2, <1>3, <1>4, <1>a DEF GateInv, SharedInv, ManifestBacked, Backed
<1>7. CopyBacked'
  BY <1>1, <1>3, <1>a, <1>r, <1>c DEF GateInv, SharedInv, CopyBacked, Backed
<1>8. DecisionBacked'
  BY <1>1, <1>a, <1>r DEF GateInv, SharedInv, DecisionBacked, Skipped
<1>9. PendingAsked'
  BY <1>1, <1>2, <1>3, <1>r DEF GateInv, SharedInv, PendingAsked, Asked, RequestsAtReset
<1>10. RequestAsked'
  BY <1>1, <1>2, <1>3, <1>r DEF GateInv, SharedInv, RequestAsked
<1>11. ControlInv'
  BY <1>1, <1>2, <1>3, <1>4 DEF GateInv, ControlInv, DraftBacked, GateAsked, StartsFresh
<1> QED
  BY <1>5, <1>6, <1>7, <1>8, <1>9, <1>10, <1>11 DEF GateInv, SharedInv

\* The gate is required of a run whose PRD is recorded.
LEMMA RequireApprovalGate == ASSUME Typed, GateInv, RequireApproval PROVE GateInv'
<1> USE DEF At, Goto, Loop, Others, Files
<1> DEFINE m == [manifest[current] EXCEPT !.pending = TRUE]
<1>1. /\ UNCHANGED <<prd, approvals, lock, reviewer, resume, env, phase, current>>
      /\ Update(current, m)
      /\ pc = "gate" /\ pc' = "finish"
  BY DEF RequireApproval, MarkApprovalRequired, Update
<1>2. current \in Run =>
        /\ m \in Manifest /\ m.prd /\ manifest[current].prd
        /\ m.exists <=> manifest[current].exists
        /\ m.completed <=> manifest[current].completed
  BY <1>1, RequiredTyped DEF Typed, GateInv, ControlInv, GateAsked
<1>3. \A q \in Run : manifest'[q] = IF q = current THEN m ELSE manifest[q]
  BY <1>1, <1>2, UpdateTyped DEF Typed
<1> HIDE DEF m
<1>r. \A a \in Reviewer : reviewer[a].run \in Run
  BY DEF Typed, Decision
<1>a. \A r \in Run : Approved(r, 1..Skipped) => Approved(r, 1..Skipped)'
  BY <1>1 DEF Approved, Skipped
<1>5. Locked'
  BY <1>1 DEF GateInv, SharedInv, Locked
<1>6. ManifestBacked'
  BY <1>1, <1>2, <1>3, <1>a DEF GateInv, SharedInv, ManifestBacked, Backed
<1>7. CopyBacked'
  BY <1>1, <1>2, <1>3, <1>a, <1>r DEF GateInv, SharedInv, CopyBacked, Backed
<1>8. DecisionBacked'
  BY <1>1, <1>a, <1>r DEF GateInv, SharedInv, DecisionBacked, Skipped
<1>9. PendingAsked'
  BY <1>1, <1>2, <1>3, <1>r DEF GateInv, SharedInv, PendingAsked, Asked, RequestsAtReset
<1>10. RequestAsked'
  BY <1>1, <1>2, <1>3, <1>r DEF GateInv, SharedInv, RequestAsked
<1>11. ControlInv'
  BY <1>1 DEF GateInv, ControlInv, DraftBacked, GateAsked, StartsFresh
<1> QED
  BY <1>5, <1>6, <1>7, <1>8, <1>9, <1>10, <1>11 DEF GateInv, SharedInv

\* A reviewer reads the hash of a PRD that is there.
LEMMA ConsiderGate ==
    ASSUME Typed, GateInv, NEW a \in Reviewer, NEW r \in Run, NEW v \in {"approved", "rejected"},
           Consider(a, r, v)
    PROVE  GateInv'
<1> USE DEF control
<1>1. PICK h \in {prd[r], Skipped} :
          Deciding(a, [NoDecision EXCEPT !.at = "decide", !.run = r, !.verdict = v, !.hash = h])
  BY DEF Consider
<1>2. h \in 1..Skipped
  <2>1. prd[r] > 0
    BY DEF Consider, GateInv, SharedInv, ManifestBacked, Backed
  <2> QED
    BY <2>1, Constants DEF Typed
<1>3. /\ \A b \in Reviewer : b # a => reviewer'[b] = reviewer[b]
      /\ reviewer'[a].at = "decide" /\ reviewer'[a].verdict = v /\ reviewer'[a].hash = h
      /\ reviewer'[a].run = r
  BY <1>1 DEF Deciding, NoDecision, Typed
<1>4. UNCHANGED <<manifest, lock, prd, approvals, pc, phase, current, env>> /\ manifest[r].exists
  BY DEF Consider, Files
<1>a. \A q \in Run : Approved(q, 1..Skipped) => Approved(q, 1..Skipped)'
  BY <1>4 DEF Approved, Skipped
<1>r. \A b \in Reviewer : reviewer[b].run \in Run
  BY DEF Typed, Decision
<1>5. Locked' /\ PendingAsked' /\ RequestAsked'
  BY <1>3, <1>4 DEF GateInv, SharedInv, Locked, PendingAsked, RequestAsked, Asked, RequestsAtReset
<1>6. ManifestBacked' /\ CopyBacked'
  BY <1>3, <1>4, <1>a, <1>r DEF GateInv, SharedInv, ManifestBacked, CopyBacked, Backed
<1>7. DecisionBacked'
  BY <1>2, <1>3, <1>4, <1>a, <1>r DEF GateInv, SharedInv, DecisionBacked, Skipped
<1>8. ControlInv'
  BY <1>4 DEF GateInv, ControlInv, DraftBacked, GateAsked, StartsFresh
<1> QED
  BY <1>5, <1>6, <1>7, <1>8 DEF GateInv, SharedInv

\* An integrator asks for the approval of a PRD that is there.
LEMMA RequestGate ==
    ASSUME Typed, GateInv, NEW a \in Reviewer, NEW r \in Run, Request(a, r)
    PROVE  GateInv'
<1> USE DEF control
<1>1. prd[r] \in 1..Skipped
  <2>1. prd[r] > 0
    BY DEF Request, GateInv, SharedInv, ManifestBacked, Backed
  <2> QED
    BY <2>1, Constants DEF Typed
<1>3. /\ \A b \in Reviewer : b # a => reviewer'[b] = reviewer[b]
      /\ reviewer'[a].at = "decide" /\ reviewer'[a].verdict = "requested_changes"
      /\ reviewer'[a].hash = prd[r] /\ reviewer'[a].run = r
  BY DEF Request, Deciding, NoDecision, Typed
<1>4. /\ UNCHANGED <<manifest, lock, prd, approvals, pc, phase, current, env>>
      /\ manifest[r].exists /\ manifest[r].prd /\ "request" \in env.events
  BY DEF Request, Files
<1>a. \A q \in Run : Approved(q, 1..Skipped) => Approved(q, 1..Skipped)'
  BY <1>4 DEF Approved, Skipped
<1>r. \A b \in Reviewer : reviewer[b].run \in Run
  BY DEF Typed, Decision
<1>5. Locked' /\ PendingAsked' /\ RequestAsked'
  BY <1>3, <1>4 DEF GateInv, SharedInv, Locked, PendingAsked, RequestAsked, Asked, RequestsAtReset
<1>6. ManifestBacked' /\ CopyBacked'
  BY <1>3, <1>4, <1>a, <1>r DEF GateInv, SharedInv, ManifestBacked, CopyBacked, Backed
<1>7. DecisionBacked'
  BY <1>1, <1>3, <1>4, <1>a, <1>r DEF GateInv, SharedInv, DecisionBacked, Skipped
<1>8. ControlInv'
  BY <1>4 DEF GateInv, ControlInv, DraftBacked, GateAsked, StartsFresh
<1> QED
  BY <1>5, <1>6, <1>7, <1>8 DEF GateInv, SharedInv

\* A reviewer who stops deciding, with a record or without, and lets go of the lock he may have.
LEMMA WithdrawGate ==
    ASSUME Typed, GateInv, NEW a \in Reviewer, reviewer[a].at # "idle",
           reviewer' = [reviewer EXCEPT ![a] = NoDecision],
           lock' = IF reviewer[a].at = "commit" THEN [lock EXCEPT ![reviewer[a].run] = Nobody] ELSE lock,
           \A q \in Run : \A i \in DOMAIN approvals[q] :
              i \in DOMAIN approvals'[q] /\ approvals'[q][i] = approvals[q][i],
           UNCHANGED <<manifest, prd, pc, phase, current, env>>
    PROVE  GateInv'
<1>1. reviewer'[a].at = "idle" /\ \A b \in Reviewer : b # a => reviewer'[b] = reviewer[b]
  BY DEF NoDecision, Typed
<1>2. Locked'
  BY <1>1 DEF Typed, GateInv, SharedInv, Locked
<1>a. \A q \in Run : Approved(q, 1..Skipped) => Approved(q, 1..Skipped)'
  BY ApprovedKept
<1>r. \A b \in Reviewer : reviewer[b].run \in Run
  BY DEF Typed, Decision
<1>3. PendingAsked' /\ RequestAsked'
  BY <1>1 DEF GateInv, SharedInv, PendingAsked, RequestAsked, Asked, RequestsAtReset
<1>4. ManifestBacked' /\ CopyBacked'
  BY <1>1, <1>a, <1>r DEF GateInv, SharedInv, ManifestBacked, CopyBacked, Backed
<1>5. DecisionBacked'
  BY <1>1, <1>a, <1>r DEF GateInv, SharedInv, DecisionBacked, Skipped
<1>6. ControlInv'
  BY <1>1 DEF GateInv, ControlInv, DraftBacked, GateAsked, StartsFresh
<1> QED
  BY <1>2, <1>3, <1>4, <1>5, <1>6 DEF GateInv, SharedInv

\* The first write of a decision: the record is in the file before the gate is completed.
LEMMA WriteRecordGate ==
    ASSUME Typed, GateInv, NEW a \in Reviewer, WriteRecord(a)
    PROVE  GateInv'
<1> DEFINE d == reviewer[a]
           x == [verdict |-> d.verdict, hash |-> d.hash]
<1>d. d \in Decision /\ d.run \in Run
  BY DEF Typed, Decision
<1>x. x \in ApprovalRecord
  BY <1>d DEF Decision, ApprovalRecord
<1>1. /\ d.at = "decide" /\ d.verdict \in {"approved", "requested_changes"}
      /\ lock[d.run] = Nobody /\ lock' = [lock EXCEPT ![d.run] = a]
      /\ approvals' = [approvals EXCEPT ![d.run] = Append(@, x)]
      /\ UNCHANGED <<manifest, prd, pc, phase, current, env>>
  BY DEF WriteRecord, Append1, control
<1>2. /\ \A b \in Reviewer : b # a => reviewer'[b] = reviewer[b]
      /\ reviewer'[a].at = "commit" /\ reviewer'[a].verdict = d.verdict
      /\ reviewer'[a].run = d.run /\ reviewer'[a].copy = manifest[d.run]
  BY <1>d DEF WriteRecord, Deciding, Typed, Decision
<1>a. \A q \in Run : Approved(q, 1..Skipped) => Approved(q, 1..Skipped)'
  BY <1>1, <1>d, <1>x, ApprovedAppend, ApprovedKept
<1>3. \A q \in Run : d.verdict = "approved" /\ q = d.run => Approved(q, 1..Skipped)'
  <2>1. approvals'[d.run] = Append(approvals[d.run], x) /\ approvals[d.run] \in Seq(ApprovalRecord)
    BY <1>1, <1>d DEF Typed
  <2>2. Len(approvals[d.run]) + 1 \in DOMAIN approvals'[d.run]
        /\ approvals'[d.run][Len(approvals[d.run]) + 1] = x
    BY <1>x, <2>1
  <2>3. d.verdict = "approved" => d.hash \in 1..Skipped
    BY <1>1 DEF GateInv, SharedInv, DecisionBacked
  <2> QED
    BY <2>2, <2>3 DEF Approved, Skipped
<1>r. \A b \in Reviewer : reviewer[b].run \in Run
  BY DEF Typed, Decision
<1>c. \A b \in Reviewer : reviewer[b].at = "commit" => reviewer[b].run # d.run
  BY <1>1, <1>d, NobodyCommits
<1> HIDE DEF d, x
<1>4. Locked'
  BY <1>1, <1>2, <1>c, <1>d, <1>r DEF Typed, GateInv, SharedInv, Locked
<1>5. PendingAsked' /\ RequestAsked'
  BY <1>1, <1>2, <1>d DEF d, GateInv, SharedInv, PendingAsked, RequestAsked, Asked, RequestsAtReset
<1>6. ManifestBacked' /\ CopyBacked'
  BY <1>1, <1>2, <1>a, <1>r, <1>d DEF GateInv, SharedInv, ManifestBacked, CopyBacked, Backed
<1>7. DecisionBacked'
  BY <1>1, <1>2, <1>3, <1>a, <1>r, <1>d DEF GateInv, SharedInv, DecisionBacked, Skipped
<1>8. ControlInv'
  BY <1>1, <1>2 DEF d, GateInv, ControlInv, DraftBacked, GateAsked, StartsFresh
<1> QED
  BY <1>4, <1>5, <1>6, <1>7, <1>8 DEF GateInv, SharedInv

\* The second write: the manifest read under the lock is written back with the gate moved.
LEMMA WriteGateGate ==
    ASSUME Typed, GateInv, NEW a \in Reviewer, WriteGate(a)
    PROVE  GateInv'
<1> DEFINE d == reviewer[a]
           m == IF d.verdict = "approved" THEN [d.copy EXCEPT !.pending = FALSE, !.completed = TRUE]
                ELSE [d.copy EXCEPT !.pending = TRUE]
<1>d. d \in Decision /\ d.run \in Run /\ d.copy \in Manifest /\ d.verdict \in Verdict
  BY DEF Typed, Decision
<1>1. /\ d.at = "commit"
      /\ manifest' = [manifest EXCEPT ![d.run] = m]
      /\ lock' = [lock EXCEPT ![d.run] = Nobody]
      /\ reviewer' = [reviewer EXCEPT ![a] = NoDecision]
      /\ UNCHANGED <<approvals, prd, pc, phase, current, env>>
  BY DEF WriteGate, Deciding, Files, control
<1>2. reviewer'[a].at = "idle" /\ \A b \in Reviewer : b # a => reviewer'[b] = reviewer[b]
  BY <1>1 DEF NoDecision, Typed
<1>m. /\ m \in Manifest
      /\ m.exists <=> d.copy.exists
      /\ m.prd <=> d.copy.prd
      /\ d.verdict = "approved" => ~m.pending
      /\ d.verdict # "approved" => (m.completed <=> d.copy.completed)
  BY <1>d, GrantedTyped, RequiredTyped
<1>3. \A q \in Run : manifest'[q] = IF q = d.run THEN m ELSE manifest[q]
  BY <1>1 DEF Typed
<1>c. \A b \in Reviewer : b # a /\ reviewer[b].at = "commit" => reviewer[b].run # d.run
  BY <1>1 DEF GateInv, SharedInv, Locked
<1> HIDE DEF m
<1>r. \A b \in Reviewer : reviewer[b].run \in Run
  BY DEF Typed, Decision
<1>a. \A q \in Run : Approved(q, 1..Skipped) => Approved(q, 1..Skipped)'
  BY <1>1 DEF Approved, Skipped
<1>v. d.verdict \in {"approved", "requested_changes"}
  BY <1>1, <1>d DEF GateInv, SharedInv, DecisionBacked, Verdict
<1>k. manifest[d.run].prd => m.prd
  BY <1>1, <1>m DEF GateInv, SharedInv, CopyBacked
<1>4. Locked'
  BY <1>1, <1>2, <1>c, <1>d, <1>r DEF Typed, GateInv, SharedInv, Locked
<1>5. ManifestBacked'
  <2>1. Backed(m, d.run)
    BY <1>1, <1>m DEF GateInv, SharedInv, CopyBacked, DecisionBacked, Backed
  <2> QED
    BY <2>1, <1>1, <1>3, <1>a DEF GateInv, SharedInv, ManifestBacked, Backed
<1>6. CopyBacked'
  BY <1>1, <1>2, <1>3, <1>c, <1>a, <1>r DEF GateInv, SharedInv, CopyBacked, Backed
<1>7. DecisionBacked'
  BY <1>1, <1>2, <1>a, <1>r DEF GateInv, SharedInv, DecisionBacked, Skipped
<1>8. PendingAsked'
  <2>1. d.verdict = "requested_changes" /\ ~RequestsAtReset => m.prd
    BY <1>1, <1>k DEF GateInv, SharedInv, RequestAsked, RequestsAtReset
  <2> QED
    BY <1>1, <1>2, <1>3, <1>m, <1>v, <2>1
       DEF GateInv, SharedInv, PendingAsked, Asked, RequestsAtReset
<1>9. RequestAsked'
  BY <1>1, <1>2, <1>3, <1>k, <1>r DEF GateInv, SharedInv, RequestAsked
<1>10. ControlInv'
  BY <1>1, <1>2, <1>3, <1>k DEF GateInv, ControlInv, DraftBacked, GateAsked, StartsFresh
<1> QED
  BY <1>4, <1>5, <1>6, <1>7, <1>8, <1>9, <1>10 DEF GateInv, SharedInv

\* The steps of reviewers keep the invariant.
LEMMA ReviewGate ==
    ASSUME Typed, GateInv, NEW a \in Reviewer, Review(a) \/ CrashReviewer(a)
    PROVE  GateInv'
<1> USE DEF control, Files
<1>k. \A q \in Run : \A i \in DOMAIN approvals[q] : i \in DOMAIN approvals[q] /\ approvals[q][i] = approvals[q][i]
  OBVIOUS
<1>1. CASE Refuse(a)
  BY <1>1, <1>k, WithdrawGate DEF Refuse, Withdraw, Deciding
<1>2. CASE Deny(a)
  <2> DEFINE x == [verdict |-> "rejected", hash |-> NoHash]
  <2>1. x \in ApprovalRecord
    BY Constants DEF ApprovalRecord, NoHash, Verdict
  <2>2. reviewer[a].run \in Run
    BY DEF Typed, Decision
  <2>3. \A q \in Run : \A i \in DOMAIN approvals[q] :
            i \in DOMAIN approvals'[q] /\ approvals'[q][i] = approvals[q][i]
    BY <1>2, <2>1, <2>2, ApprovedAppend DEF Deny, Append1
  <2> QED
    BY <1>2, <2>3, WithdrawGate DEF Deny, Deciding
<1>3. CASE CrashReviewer(a)
  BY <1>3, <1>k, WithdrawGate DEF CrashReviewer, Deciding
<1> QED
  BY <1>1, <1>2, <1>3, ConsiderGate, RequestGate, WriteRecordGate, WriteGateGate DEF Review

\* resume moves no gate.
LEMMA ResumeGate == ASSUME Typed, GateInv, Resume \/ CrashResume PROVE GateInv'
<1> USE DEF control
<1>1. UNCHANGED <<prd, approvals, lock, reviewer, env, pc, phase, current>>
  BY DEF Resume, Analyze, Prepare, PrepareThrows, RunEngine, CrashResume, Resuming
<1>2. \A q \in Run : SameGate(manifest'[q], manifest[q])
  <2>1. CASE Prepare
    <3> DEFINE r == resume.run  m == manifest[r]
               u == [m EXCEPT !.error = FALSE, !.current = IF m.last # 0 THEN m.last ELSE @]
    <3>1. r \in Run /\ m \in Manifest
      BY DEF Typed, ResumeState
    <3>2. SameGate(u, m)
      BY <3>1, ResumedTyped
    <3>3. manifest' = [manifest EXCEPT ![r] = u]
      BY <2>1 DEF Prepare
    <3>4. \A q \in Run : manifest'[q] = IF q = r THEN u ELSE manifest[q]
      BY <3>3 DEF Typed
    <3> HIDE DEF u
    <3> QED
      BY <3>2, <3>4 DEF SameGate
  <2>2. CASE ~Prepare
    <3>1. manifest' = manifest
      BY <2>2 DEF Resume, Analyze, PrepareThrows, RunEngine, CrashResume
    <3> QED
      BY <3>1 DEF SameGate
  <2> QED
    BY <2>1, <2>2
<1>3. SharedInv'
  BY <1>1, <1>2, SharedFrame DEF GateInv
<1>4. ControlInv'
  BY <1>1, <1>2 DEF GateInv, ControlInv, DraftBacked, GateAsked, StartsFresh, SameGate
<1> QED
  BY <1>3, <1>4 DEF GateInv

\* An author adds a version; a plan touches no gate.
LEMMA EditGate == ASSUME Typed, GateInv, NEW r \in Run, Edit(r) \/ PlanTasks(r) PROVE GateInv'
<1> USE DEF control, Others
<1>1. UNCHANGED <<manifest, approvals, lock, reviewer, env, pc, phase, current>>
  BY DEF Edit, PlanTasks
<1>2. \A q \in Run : prd[q] > 0 => prd'[q] > 0
  <2>1. prd \in [Run -> Nat]
    BY Constants DEF Typed
  <2> QED
    BY <2>1 DEF Edit, PlanTasks
<1>3. SharedInv'
  BY <1>1, <1>2, SharedFrame DEF GateInv, SameGate
<1>4. ControlInv'
  BY <1>1, <1>2 DEF GateInv, ControlInv, DraftBacked, GateAsked, StartsFresh
<1> QED
  BY <1>3, <1>4 DEF GateInv

\* The invariant holds where no run directory is.
LEMMA GateInit == ASSUME Init PROVE GateInv
<1>1. \A r \in Run : /\ ~manifest[r].exists /\ ~manifest[r].pending
                      /\ ~manifest[r].completed /\ ~manifest[r].prd
  BY AbsentTyped DEF Init
<1>2. (\A a \in Reviewer : reviewer[a].at = "idle") /\ pc = "idle"
  BY DEF Init, NoDecision
<1>3. SharedInv
  BY <1>1, <1>2 DEF SharedInv, Locked, ManifestBacked, CopyBacked, DecisionBacked, PendingAsked,
                    RequestAsked, Backed, Asked
<1>4. ControlInv
  BY <1>1, <1>2 DEF ControlInv, DraftBacked, GateAsked, StartsFresh
<1> QED
  BY <1>3, <1>4 DEF GateInv

\* Every step keeps the invariant.
LEMMA GateStep == ASSUME Typed, GateInv, [Next]_vars PROVE GateInv'
<1>1. CASE SilentUpdate \/ ControlStep
  BY <1>1, SilentControl
<1>2. CASE Create \/ Drafted \/ RecordPrd \/ RequireApproval
  BY <1>2, CreateGate, DraftedGate, RecordPrdGate, RequireApprovalGate
<1>3. CASE \E a \in Reviewer : Review(a) \/ CrashReviewer(a)
  BY <1>3, ReviewGate
<1>4. CASE \E r \in Run : Edit(r) \/ PlanTasks(r)
  BY <1>4, EditGate
<1>5. CASE Resume \/ CrashResume
  BY <1>5, ResumeGate
<1>6. CASE UNCHANGED vars
  <2>1. UNCHANGED <<manifest, prd, approvals, lock, reviewer, env, pc, phase, current>>
    BY <1>6 DEF vars, control
  <2>2. SharedInv'
    BY <2>1, SharedFrame DEF GateInv, SameGate
  <2>3. ControlInv'
    BY <2>1 DEF GateInv, ControlInv, DraftBacked, GateAsked, StartsFresh
  <2> QED
    BY <2>2, <2>3 DEF GateInv
<1> QED
  BY <1>1, <1>2, <1>3, <1>4, <1>5, <1>6 DEF Next, Pipeline, SilentUpdate, ControlStep

\* The inductive invariant holds in every reachable state.
LEMMA GateInvInvariant == Spec => []GateInv
<1>1. Init => GateInv
  BY GateInit
<1>2. Typed /\ GateInv /\ [Next]_vars => GateInv'
  BY GateStep
<1> QED
  BY <1>1, <1>2, TypeCorrect, PTL DEF Spec

(***************************************************************************)
(* manifest.json and approvals.json agree on the gate in every reachable   *)
(* state: grantApproval writes the record first and the manifest second,   *)
(* both under the lock of updateManifest, and only a PRD that exists is    *)
(* ever put to the gate.                                                   *)
(***************************************************************************)
THEOREM GateAgrees == Spec => []GateConsistent
<1>1. GateInv => GateConsistent
  BY DEF GateInv, SharedInv, ManifestBacked, PendingAsked, Backed, Asked, GateConsistent
<1> QED
  BY <1>1, GateInvInvariant, PTL

-----------------------------------------------------------------------------
Undisturbed == Quiet /\ env.approval

InTodo(r) == \E i \in DOMAIN todo : todo[i] = r

\* The command runs once, comes to each issue once, and never to the engine.
Passes ==
    /\ phase \in 0..3
    /\ rounds = IF pc = "idle" THEN 1 ELSE 0
    /\ env.command # "start" => pc # "error"
    /\ pc \in {"enter", "work", "leave", "progress"} => phase \in 1..3
    /\ pc = "idle" \/ env.command = "start" => todo = <<>>
    /\ todo \in Seq(Run) /\ \A i, j \in DOMAIN todo : todo[i] = todo[j] => i = j
    /\ current \in Run
    /\ pc \in Stage => ~InTodo(current)

\* --max-issues takes issues from the front, each still once.
LEMMA FirstOnce ==
    ASSUME NEW s \in Seq(Run), \A i, j \in DOMAIN s : s[i] = s[j] => i = j, NEW n \in Nat
    PROVE  LET t == AtMostFirst(s, n)
           IN  t \in Seq(Run) /\ \A i, j \in DOMAIN t : t[i] = t[j] => i = j
<1> DEFINE k == IF n < Len(s) THEN n ELSE Len(s)
           t == AtMostFirst(s, n)
<1>1. k \in 0..Len(s) /\ t = SubSeq(s, 1, k)
  BY DEF AtMostFirst
<1> HIDE DEF k, t
<1>2. t \in Seq(Run) /\ DOMAIN t = 1..k /\ \A i \in 1..k : t[i] = s[i] /\ i \in DOMAIN s
  BY <1>1
<1> QED
  BY <1>2 DEF t

\* The head of a list without repetitions is not in its tail.
LEMMA TailOnce ==
    ASSUME NEW s \in Seq(Run), s # <<>>, \A i, j \in DOMAIN s : s[i] = s[j] => i = j
    PROVE  /\ Head(s) \in Run /\ Tail(s) \in Seq(Run)
           /\ \A i \in DOMAIN Tail(s) : \E j \in DOMAIN s : Tail(s)[i] = s[j]
           /\ \A i, j \in DOMAIN Tail(s) : Tail(s)[i] = Tail(s)[j] => i = j
           /\ \A i \in DOMAIN Tail(s) : Tail(s)[i] # Head(s)
           /\ \E j \in DOMAIN s : s[j] = Head(s)
<1>1. /\ Len(s) \in Nat \ {0} /\ DOMAIN s = 1..Len(s) /\ Head(s) = s[1]
      /\ Tail(s) \in Seq(Run) /\ DOMAIN Tail(s) = 1..(Len(s) - 1)
      /\ \A i \in 1..(Len(s) - 1) : Tail(s)[i] = s[i + 1]
  OBVIOUS
<1> QED
  BY <1>1

\* A run before its gate is required.
Early(r) ==
    \/ pc = "idle"
    \/ InTodo(r)
    \/ current = r /\ pc \in Stage \ {"gate", "finish", "error"}

\* A run the pipeline works on.
Underway(r) == current = r /\ pc \in Stage \ {"finish", "error"}

\* The control of the command: each run goes from Early to Underway to done, once.
LEMMA PassesStep ==
    ASSUME Typed, Undisturbed, Passes, BlockersFirst', [Next]_vars
    PROVE  /\ Passes' /\ env' = env
           /\ \A r \in Run : Early(r)' => Early(r)
           /\ \A r \in Run : Underway(r) => Underway(r)' \/ RequireApproval
           /\ pc = "exited" => pc' = "exited"
           /\ pc' = "idle" => pc = "idle"
<1> USE DEF At, Goto, Exit, Loop, Others, Files, control
<1>e. /\ env.approval /\ env.events \cap {"crash", "error", "edit", "force", "overlap"} = {}
      /\ env.maxIssues \in Nat
  BY EnvTyped DEF Undisturbed, Quiet, Typed
<1>p. /\ phase \in 0..3 /\ current \in Run
      /\ rounds = IF pc = "idle" THEN 1 ELSE 0
      /\ env.command # "start" => pc # "error"
      /\ pc \in {"enter", "work", "leave", "progress"} => phase \in 1..3
      /\ pc = "idle" \/ env.command = "start" => todo = <<>>
      /\ todo \in Seq(Run) /\ \A i, j \in DOMAIN todo : todo[i] = todo[j] => i = j
      /\ pc \in Stage => ~InTodo(current)
  BY DEF Passes
<1>1. CASE UNCHANGED <<control, env>>
  BY <1>1 DEF Passes, Early, Underway, InTodo
<1>2. CASE OrderIssues
  <2>1. /\ pc = "idle" /\ env.command \in {"cycle", "preview"} /\ rounds' = rounds - 1
        /\ todo' = AtMostFirst(ordered', env.maxIssues) /\ pc' \in {"next", "exited"}
        /\ UNCHANGED <<phase, current, env>>
    BY <1>2 DEF OrderIssues
  <2>2. todo' \in Seq(Run) /\ \A i, j \in DOMAIN todo' : todo'[i] = todo'[j] => i = j
    <3>1. CASE ordered' = <<>>
      <4>1. ordered' \in Seq(Run) /\ \A i, j \in DOMAIN ordered' : ordered'[i] = ordered'[j] => i = j
        BY <3>1
      <4> QED
        BY <4>1, <2>1, <1>e, FirstOnce
    <3>2. CASE ordered' # <<>>
      <4>1. ordered' \in Seq(Run) /\ \A i, j \in DOMAIN ordered' : ordered'[i] = ordered'[j] => i = j
        BY <3>2 DEF BlockersFirst
      <4> QED
        BY <4>1, <2>1, <1>e, FirstOnce
    <3> QED
      BY <3>1, <3>2
  <2> QED
    BY <1>p, <2>1, <2>2 DEF Passes, Early, Underway, Stage
<1>3. CASE Start
  BY <1>p, <1>3 DEF Start, Passes, InTodo, Early, Underway, Stage
<1>4. CASE Again
  BY <1>p, <1>4 DEF Again
<1>5. CASE Throw \/ CrashPipeline
  BY <1>e, <1>5 DEF Throw, CrashPipeline
<1>6. CASE Create \/ Telemetry \/ Begin \/ Enter \/ Prepared \/ Drafted \/ Executed \/ Leave
  BY <1>p, <1>6 DEF Create, Telemetry, Begin, Enter, Prepared, Drafted, Executed, Leave, Passes, InTodo,
                    Early, Underway, Stage
<1>7. CASE Progress
  BY <1>p, <1>7 DEF Progress, Passes, InTodo, Early, Underway, Stage
<1>8. CASE RecordPrd
  BY <1>p, <1>e, <1>8 DEF RecordPrd, Executes, Passes, InTodo, Early, Underway, Stage
<1>9. CASE RequireApproval
  BY <1>p, <1>9 DEF RequireApproval, Passes, InTodo, Early, Underway, Stage
<1>10. CASE SkipIssue
  <2>1. todo # <<>> /\ todo' = Tail(todo) /\ pc = "next" /\ UNCHANGED <<pc, phase, current, rounds, env>>
    BY <1>10 DEF SkipIssue
  <2> QED
    BY <1>p, <2>1, TailOnce DEF Passes, InTodo, Early, Underway, Stage
<1>11. CASE NextIssue
  <2>1. /\ todo # <<>> /\ todo' = Tail(todo) /\ current' = Head(todo)
        /\ pc = "next" /\ pc' = "create" /\ phase' = 0 /\ UNCHANGED <<rounds, env>>
    BY <1>11 DEF NextIssue
  <2> QED
    BY <1>p, <2>1, TailOnce DEF Passes, InTodo, Early, Underway, Stage
<1>12. CASE IssueDone \/ CycleDone \/ StartDone \/ StartFailed
  BY <1>p, <1>12 DEF IssueDone, CycleDone, StartDone, StartFailed, Passes, InTodo, Early, Underway, Stage
<1>13. CASE IssueFailed
  BY <1>p, <1>13 DEF IssueFailed
<1>14. CASE UNCHANGED vars
  BY <1>1, <1>14 DEF vars
<1>15. ASSUME NEW a \in Reviewer, Review(a) \/ CrashReviewer(a) PROVE UNCHANGED <<control, env>>
  BY <1>15 DEF Review, Consider, Request, Refuse, WriteRecord, WriteGate, Deny, CrashReviewer, Withdraw
<1>16. ASSUME NEW r \in Run, Edit(r) \/ PlanTasks(r) PROVE UNCHANGED <<control, env>>
  BY <1>16 DEF Edit, PlanTasks
<1>17. ASSUME Resume \/ CrashResume PROVE UNCHANGED <<control, env>>
  BY <1>17 DEF Resume, Analyze, Prepare, PrepareThrows, RunEngine, CrashResume, Resuming
<1> QED
  BY <1>1, <1>2, <1>3, <1>4, <1>5, <1>6, <1>7, <1>8, <1>9, <1>10, <1>11, <1>12, <1>13, <1>14, <1>15, <1>16,
     <1>17 DEF Next, Pipeline

-----------------------------------------------------------------------------
\* An approval of the PRD that is there is recorded.
Settled(r) == Approved(r, {prd[r], Skipped})

\* Before its gate is required, nobody has anything to decide about a run.
Untouched ==
    \A r \in Run : Early(r) =>
        /\ ~manifest[r].pending /\ ~manifest[r].prd
        /\ \A a \in Reviewer : reviewer[a].at # "idle" => reviewer[a].run # r

\* Before the command there is no directory.
IdleAbsent == pc = "idle" => \A r \in Run : ~manifest[r].exists

\* Tasks come from a PRD.
PlannedAfterDraft == \A r \in Run : queue[r] # "none" => prd[r] > 0

\* A PRD the pipeline has left is approved or waits for approval.
WaitsOrSettled == \A r \in Run : prd[r] > 0 /\ ~Underway(r) => manifest[r].pending \/ Settled(r)

\* An approval is of the PRD that is there.
DecidesCurrent ==
    \A a \in Reviewer : reviewer[a].verdict = "approved" =>
        /\ reviewer[a].at = "decide" => reviewer[a].hash \in {prd[reviewer[a].run], Skipped}
        /\ reviewer[a].at = "commit" => Settled(reviewer[a].run)

\* resume runs after the command, and its engine only with the PRD approved.
ResumesSettled ==
    /\ resume.at # "idle" => pc = "exited" /\ ~resume.forced
    /\ resume.at = "engine" => (prd[resume.run] > 0 => Settled(resume.run))

QuietShared == Untouched /\ IdleAbsent /\ PlannedAfterDraft /\ WaitsOrSettled /\ DecidesCurrent
QuietInv == Undisturbed => Passes /\ QuietShared /\ ResumesSettled

\* What PassesStep says of every step.
Moves ==
    /\ env' = env
    /\ \A r \in Run : Early(r)' => Early(r)
    /\ \A r \in Run : Underway(r) => Underway(r)' \/ RequireApproval
    /\ pc = "exited" => pc' = "exited"
    /\ pc' = "idle" => pc = "idle"

\* A PRD that has been approved stays approved as long as it stays the same.
LEMMA SettledKept ==
    ASSUME \A q \in Run : \A i \in DOMAIN approvals[q] :
              i \in DOMAIN approvals'[q] /\ approvals'[q][i] = approvals[q][i]
    PROVE  \A q \in Run : prd'[q] = prd[q] => (Settled(q) => Settled(q)')
  BY DEF Settled, Approved, Skipped

\* Steps of others keep what resume knows.
LEMMA ResumesFrame ==
    ASSUME Typed, ResumesSettled, Moves, UNCHANGED resume,
           \A r \in Run : pc = "exited" => prd'[r] = prd[r],
           \A q \in Run : \A i \in DOMAIN approvals[q] :
              i \in DOMAIN approvals'[q] /\ approvals'[q][i] = approvals[q][i]
    PROVE  ResumesSettled'
<1>1. resume.run \in Run
  BY DEF Typed, ResumeState
<1>2. \A q \in Run : pc = "exited" => (Settled(q) => Settled(q)')
  BY SettledKept
<1> QED
  BY <1>1, <1>2 DEF ResumesSettled, Moves

\* A step that leaves the gates, the PRDs and the reviewers alone keeps what holds of them.
LEMMA QuietFrame ==
    ASSUME Typed, QuietShared, Moves, ~RequireApproval,
           \A r \in Run : SameGate(manifest'[r], manifest[r]),
           \A r \in Run : queue'[r] # "none" => prd[r] > 0,
           UNCHANGED <<prd, approvals, reviewer>>
    PROVE  QuietShared'
<1>r. \A a \in Reviewer : reviewer[a].run \in Run
  BY DEF Typed, Decision
<1>s. \A q \in Run : Settled(q) => Settled(q)'
  BY SettledKept
<1>1. Untouched'
  BY DEF QuietShared, Untouched, Moves, SameGate
<1>2. IdleAbsent'
  BY DEF QuietShared, IdleAbsent, Moves, SameGate
<1>3. PlannedAfterDraft'
  BY DEF QuietShared, PlannedAfterDraft
<1>4. WaitsOrSettled'
  BY <1>s DEF QuietShared, WaitsOrSettled, Moves, SameGate
<1>5. DecidesCurrent'
  BY <1>s, <1>r DEF QuietShared, DecidesCurrent, Skipped
<1> QED
  BY <1>1, <1>2, <1>3, <1>4, <1>5 DEF QuietShared

\* Silent updates, steps without a write and a plan disturb nothing.
LEMMA SilentQuiet ==
    ASSUME Typed, QuietShared, ResumesSettled, Moves,
           SilentUpdate \/ ControlStep \/ \E r \in Run : PlanTasks(r)
    PROVE  QuietShared' /\ ResumesSettled'
<1> USE DEF At, Goto, Exit, Loop, Others, Files, control
<1>1. /\ UNCHANGED <<prd, approvals, reviewer, resume>>
      /\ \A r \in Run : SameGate(manifest'[r], manifest[r])
  BY SilentUpdateFrame, ControlStepFrame DEF SameGate, PlanTasks
<1>2. \A r \in Run : queue'[r] # "none" => prd[r] > 0
  <2>1. \A r \in Run : queue[r] # "none" => prd[r] > 0
    BY DEF QuietShared, PlannedAfterDraft
  <2>2. CASE SilentUpdate
    BY <2>1, <2>2, SilentUpdateFrame
  <2>3. CASE Executed
    BY <2>1, <2>3 DEF Executed, Ran, Typed
  <2>4. CASE ControlStep /\ ~Executed
    <3>1. queue' = queue
      BY <2>4 DEF ControlStep, Prepared, SkipIssue, NextIssue, IssueDone, IssueFailed, CycleDone,
         StartDone, OrderIssues, Start, Again, Throw, CrashPipeline
    <3> QED
      BY <2>1, <3>1
  <2>5. ASSUME NEW q \in Run, PlanTasks(q) PROVE \A r \in Run : queue'[r] # "none" => prd[r] > 0
    BY <2>1, <2>5 DEF PlanTasks, Typed
  <2> QED
    BY <2>2, <2>3, <2>4, <2>5
<1>3. ~RequireApproval
  <2>1. RequireApproval => pc = "gate" /\ pc' = "finish" /\ UNCHANGED <<current, todo, rounds>>
    BY DEF RequireApproval
  <2> QED
    BY <2>1 DEF SilentUpdate, ControlStep, Telemetry, Begin, Enter, Leave, Progress, StartFailed, Prepared,
       Executed, SkipIssue, NextIssue, IssueDone, IssueFailed, CycleDone, StartDone, OrderIssues, Start,
       Again, Throw, CrashPipeline, PlanTasks
<1> QED
  BY <1>1, <1>2, <1>3, QuietFrame, ResumesFrame

\* The run that is created has not been decided on.
LEMMA CreateQuiet ==
    ASSUME Typed, QuietShared, ResumesSettled, Moves, Create
    PROVE  QuietShared' /\ ResumesSettled'
<1>1. /\ UNCHANGED <<prd, approvals, queue, reviewer, resume, current, todo>>
      /\ \A q \in Run : manifest'[q] = IF q = current THEN InitialManifest ELSE manifest[q]
      /\ pc = "create" /\ pc' \in {"telemetry", "begin"}
  BY DEF Create, Typed, At, Loop, Others, Files
<1>r. \A a \in Reviewer : reviewer[a].run \in Run
  BY DEF Typed, Decision
<1>s. \A q \in Run : Settled(q) => Settled(q)'
  BY <1>1, SettledKept
<1>2. Untouched'
  BY <1>1, InitialTyped DEF QuietShared, Untouched, Moves
<1>3. IdleAbsent' /\ PlannedAfterDraft'
  BY <1>1 DEF QuietShared, IdleAbsent, PlannedAfterDraft
<1>4. WaitsOrSettled'
  BY <1>1, <1>s DEF QuietShared, WaitsOrSettled, Underway, Stage
<1>5. DecidesCurrent'
  BY <1>1, <1>s, <1>r DEF QuietShared, DecidesCurrent, Skipped
<1>6. ResumesSettled'
  BY <1>1, ResumesFrame
<1> QED
  BY <1>2, <1>3, <1>4, <1>5, <1>6 DEF QuietShared

\* The PRD that is drafted has not been decided on.
LEMMA DraftedQuiet ==
    ASSUME Typed, Passes, QuietShared, ResumesSettled, Moves, Drafted
    PROVE  QuietShared' /\ ResumesSettled'
<1>1. /\ UNCHANGED <<manifest, approvals, queue, reviewer, resume, current, todo>>
      /\ pc = "work" /\ pc' = "leave" /\ current \in Run
  BY DEF Drafted, Passes, At, Goto, Loop, Others, Files
<1>2. prd \in [Run -> Nat] /\ prd' = [prd EXCEPT ![current] = prd[current] + 1]
  BY Constants DEF Drafted, Typed
<1>3. \A q \in Run : prd'[q] = IF q = current THEN prd[q] + 1 ELSE prd[q]
  BY <1>2
<1>e. \A a \in Reviewer : reviewer[a].run \in Run /\ (reviewer[a].at # "idle" => reviewer[a].run # current)
  BY <1>1 DEF Typed, Decision, QuietShared, Untouched, Early, Stage
<1>s. \A q \in Run : q # current => (Settled(q) => Settled(q)')
  BY <1>1, <1>3, SettledKept
<1>4. Untouched'
  BY <1>1 DEF QuietShared, Untouched, Moves
<1>5. IdleAbsent' /\ PlannedAfterDraft'
  BY <1>1, <1>2, <1>3 DEF QuietShared, IdleAbsent, PlannedAfterDraft
<1>6. WaitsOrSettled'
  BY <1>1, <1>3, <1>s DEF QuietShared, WaitsOrSettled, Underway, Stage
<1>7. DecidesCurrent'
  BY <1>1, <1>3, <1>s, <1>e DEF QuietShared, DecidesCurrent, Skipped
<1>8. ResumesSettled'
  BY <1>1, ResumesFrame
<1> QED
  BY <1>4, <1>5, <1>6, <1>7, <1>8 DEF QuietShared

\* Between the record of the PRD and the gate the run is underway.
LEMMA RecordPrdQuiet ==
    ASSUME Typed, Undisturbed, Passes, QuietShared, ResumesSettled, Moves, RecordPrd
    PROVE  QuietShared' /\ ResumesSettled'
<1> DEFINE s == IF env.approval THEN "paused" ELSE "in_progress"
           m == [manifest[current] EXCEPT !.prd = TRUE, !.status = s]
<1>1. /\ UNCHANGED <<prd, approvals, queue, reviewer, resume, current, todo>>
      /\ Update(current, m) /\ pc = "record" /\ pc' = "gate"
  BY DEF RecordPrd, Executes, Undisturbed, At, Loop, Others, Files
<1>c. current \in Run /\ ~InTodo(current)
  BY <1>1 DEF Passes, Stage
<1>2. m \in Manifest /\ (m.exists <=> manifest[current].exists) /\ (m.pending <=> manifest[current].pending)
  <2>1. manifest[current] \in Manifest /\ s \in Status
    BY <1>c DEF Typed, Status
  <2> QED
    BY <2>1, RecordedTyped
<1>3. \A q \in Run : manifest'[q] = IF q = current THEN m ELSE manifest[q]
  BY <1>1, <1>2, UpdateTyped DEF Typed
<1> HIDE DEF m, s
<1>r. \A a \in Reviewer : reviewer[a].run \in Run
  BY DEF Typed, Decision
<1>s. \A q \in Run : Settled(q) => Settled(q)'
  BY <1>1, SettledKept
<1>4. Untouched'
  <2>1. ~Early(current)'
    BY <1>1, <1>c DEF Early, InTodo
  <2> QED
    BY <1>1, <1>3, <2>1 DEF QuietShared, Untouched, Moves
<1>5. IdleAbsent' /\ PlannedAfterDraft'
  BY <1>1 DEF QuietShared, IdleAbsent, PlannedAfterDraft
<1>6. WaitsOrSettled'
  BY <1>1, <1>2, <1>3, <1>s DEF QuietShared, WaitsOrSettled, Underway, Stage
<1>7. DecidesCurrent'
  BY <1>1, <1>s, <1>r DEF QuietShared, DecidesCurrent, Skipped
<1>8. ResumesSettled'
  BY <1>1, ResumesFrame
<1> QED
  BY <1>4, <1>5, <1>6, <1>7, <1>8 DEF QuietShared

\* The pipeline leaves a run whose PRD is there with its gate pending.
LEMMA RequireApprovalQuiet ==
    ASSUME Typed, Passes, QuietShared, ResumesSettled, Moves, RequireApproval
    PROVE  QuietShared' /\ ResumesSettled'
<1> DEFINE m == [manifest[current] EXCEPT !.pending = TRUE]
<1>1. /\ UNCHANGED <<prd, approvals, queue, reviewer, resume, current, todo>>
      /\ Update(current, m) /\ pc = "gate" /\ pc' = "finish"
  BY DEF RequireApproval, MarkApprovalRequired, At, Goto, Loop, Others, Files
<1>c. current \in Run /\ ~InTodo(current)
  BY <1>1 DEF Passes, Stage
<1>2. m \in Manifest /\ m.pending
  BY <1>c, RequiredTyped DEF Typed
<1>3. \A q \in Run : manifest'[q] = IF q = current THEN m ELSE manifest[q]
  BY <1>1, <1>2, UpdateTyped DEF Typed
<1> HIDE DEF m
<1>r. \A a \in Reviewer : reviewer[a].run \in Run
  BY DEF Typed, Decision
<1>s. \A q \in Run : Settled(q) => Settled(q)'
  BY <1>1, SettledKept
<1>4. Untouched'
  <2>1. ~Early(current)'
    BY <1>1, <1>c DEF Early, InTodo
  <2> QED
    BY <1>1, <1>3, <2>1 DEF QuietShared, Untouched, Moves
<1>5. IdleAbsent' /\ PlannedAfterDraft'
  BY <1>1 DEF QuietShared, IdleAbsent, PlannedAfterDraft
<1>6. WaitsOrSettled'
  BY <1>1, <1>2, <1>3, <1>s DEF QuietShared, WaitsOrSettled, Underway
<1>7. DecidesCurrent'
  BY <1>1, <1>s, <1>r DEF QuietShared, DecidesCurrent, Skipped
<1>8. ResumesSettled'
  BY <1>1, ResumesFrame
<1> QED
  BY <1>4, <1>5, <1>6, <1>7, <1>8 DEF QuietShared

\* A step of a reviewer that leaves the manifests alone.
LEMMA DecideQuiet ==
    ASSUME Typed, QuietShared, ResumesSettled, Moves, NEW a \in Reviewer,
           \A b \in Reviewer : b # a => reviewer'[b] = reviewer[b],
           reviewer'[a].at # "idle" => reviewer'[a].run \in Run /\ ~Early(reviewer'[a].run),
           reviewer'[a].verdict = "approved" =>
              /\ reviewer'[a].at = "decide" => reviewer'[a].hash \in {prd[reviewer'[a].run], Skipped}
              /\ reviewer'[a].at = "commit" =>
                    \A q \in Run : q = reviewer'[a].run => Settled(q)',
           \A q \in Run : \A i \in DOMAIN approvals[q] :
              i \in DOMAIN approvals'[q] /\ approvals'[q][i] = approvals[q][i],
           UNCHANGED <<manifest, prd, queue, resume, pc, current>>
    PROVE  QuietShared' /\ ResumesSettled'
<1>r. \A b \in Reviewer : reviewer[b].run \in Run
  BY DEF Typed, Decision
<1>s. \A q \in Run : Settled(q) => Settled(q)'
  BY SettledKept
<1>1. Untouched'
  BY DEF QuietShared, Untouched, Moves
<1>2. IdleAbsent' /\ PlannedAfterDraft'
  BY DEF QuietShared, IdleAbsent, PlannedAfterDraft
<1>3. WaitsOrSettled'
  BY <1>s DEF QuietShared, WaitsOrSettled, Underway
<1>4. DecidesCurrent'
  BY <1>s, <1>r DEF QuietShared, DecidesCurrent, Skipped
<1>5. ResumesSettled'
  BY ResumesFrame
<1> QED
  BY <1>1, <1>2, <1>3, <1>4, <1>5 DEF QuietShared

\* A gate stops being pending only with an approval of the PRD that is there.
LEMMA ReviewQuiet ==
    ASSUME Typed, GateInv, Undisturbed, QuietShared, ResumesSettled, Moves,
           NEW a \in Reviewer, Review(a) \/ CrashReviewer(a)
    PROVE  QuietShared' /\ ResumesSettled'
<1> USE DEF control, Files
<1>d. reviewer[a] \in Decision /\ reviewer[a].run \in Run /\ reviewer[a].verdict \in Verdict
  BY DEF Typed, Decision
<1>k. \A q \in Run : \A i \in DOMAIN approvals[q] : i \in DOMAIN approvals[q] /\ approvals[q][i] = approvals[q][i]
  OBVIOUS
<1>i. NoDecision.at = "idle"
  BY DEF NoDecision
<1>1. ASSUME NEW r \in Run, NEW v \in {"approved", "rejected"}, Consider(a, r, v)
      PROVE  QuietShared' /\ ResumesSettled'
  <2>1. PICK h \in {prd[r], Skipped} :
            Deciding(a, [NoDecision EXCEPT !.at = "decide", !.run = r, !.verdict = v, !.hash = h])
    BY <1>1 DEF Consider
  <2>2. /\ \A b \in Reviewer : b # a => reviewer'[b] = reviewer[b]
        /\ reviewer'[a].at = "decide" /\ reviewer'[a].hash = h /\ reviewer'[a].run = r
    BY <2>1 DEF Deciding, NoDecision, Typed
  <2>3. ~Early(r)
    BY <1>1 DEF Consider, QuietShared, Untouched
  <2>4. UNCHANGED <<manifest, prd, approvals, queue, resume, pc, current>>
    BY <1>1 DEF Consider
  <2> QED
    BY <1>k, <2>2, <2>3, <2>4, DecideQuiet
<1>2. ASSUME NEW r \in Run, Request(a, r) PROVE QuietShared' /\ ResumesSettled'
  <2>1. /\ \A b \in Reviewer : b # a => reviewer'[b] = reviewer[b]
        /\ reviewer'[a].at = "decide" /\ reviewer'[a].verdict = "requested_changes" /\ reviewer'[a].run = r
    BY <1>2 DEF Request, Deciding, NoDecision, Typed
  <2>2. ~Early(r)
    BY <1>2 DEF Request, QuietShared, Untouched
  <2>3. UNCHANGED <<manifest, prd, approvals, queue, resume, pc, current>>
    BY <1>2 DEF Request
  <2> QED
    BY <1>k, <2>1, <2>2, <2>3, DecideQuiet
<1>3. CASE Refuse(a)
  <2>1. /\ \A b \in Reviewer : b # a => reviewer'[b] = reviewer[b]
        /\ reviewer'[a].at = "idle"
        /\ UNCHANGED <<manifest, prd, approvals, queue, resume, pc, current>>
    BY <1>3, <1>i DEF Refuse, Withdraw, Deciding, Typed
  <2> QED
    BY <1>k, <2>1, DecideQuiet
<1>4. CASE Deny(a)
  <2> DEFINE x == [verdict |-> "rejected", hash |-> NoHash]
  <2>1. x \in ApprovalRecord
    BY Constants DEF ApprovalRecord, NoHash, Verdict
  <2>2. \A q \in Run : \A i \in DOMAIN approvals[q] :
            i \in DOMAIN approvals'[q] /\ approvals'[q][i] = approvals[q][i]
    BY <1>4, <1>d, <2>1, ApprovedAppend DEF Deny, Append1
  <2>3. /\ \A b \in Reviewer : b # a => reviewer'[b] = reviewer[b]
        /\ reviewer'[a].at = "idle"
        /\ UNCHANGED <<manifest, prd, queue, resume, pc, current>>
    BY <1>4, <1>i DEF Deny, Deciding, Typed
  <2> QED
    BY <2>2, <2>3, DecideQuiet
<1>5. CASE WriteRecord(a)
  <2> DEFINE d == reviewer[a]
             x == [verdict |-> d.verdict, hash |-> d.hash]
  <2>1. x \in ApprovalRecord
    BY <1>d DEF Decision, ApprovalRecord
  <2>2. /\ d.at = "decide" /\ d.run \in Run /\ approvals' = [approvals EXCEPT ![d.run] = Append(@, x)]
        /\ UNCHANGED <<manifest, prd, queue, resume, pc, current>>
    BY <1>5, <1>d DEF WriteRecord, Append1
  <2>3. /\ \A b \in Reviewer : b # a => reviewer'[b] = reviewer[b]
        /\ reviewer'[a].at = "commit" /\ reviewer'[a].verdict = d.verdict /\ reviewer'[a].run = d.run
    BY <1>5, <1>d DEF WriteRecord, Deciding, Typed, Decision
  <2>4. \A q \in Run : \A i \in DOMAIN approvals[q] :
            i \in DOMAIN approvals'[q] /\ approvals'[q][i] = approvals[q][i]
    BY <2>1, <2>2, ApprovedAppend
  <2>5. \A q \in Run : d.verdict = "approved" /\ q = d.run => Settled(q)'
    <3>1. approvals'[d.run] = Append(approvals[d.run], x) /\ approvals[d.run] \in Seq(ApprovalRecord)
      BY <2>2 DEF Typed
    <3>2. Len(approvals[d.run]) + 1 \in DOMAIN approvals'[d.run]
          /\ approvals'[d.run][Len(approvals[d.run]) + 1] = x
      BY <2>1, <3>1
    <3>3. d.verdict = "approved" => d.hash \in {prd[d.run], Skipped}
      BY <2>2 DEF QuietShared, DecidesCurrent
    <3> QED
      BY <2>2, <3>2, <3>3 DEF Settled, Approved, Skipped
  <2>6. ~Early(d.run)
    BY <2>2 DEF QuietShared, Untouched
  <2> HIDE DEF d, x
  <2> QED
    BY <2>2, <2>3, <2>4, <2>5, <2>6, DecideQuiet
<1>6. CASE WriteGate(a)
  <2> DEFINE d == reviewer[a]
             m == IF d.verdict = "approved" THEN [d.copy EXCEPT !.pending = FALSE, !.completed = TRUE]
                  ELSE [d.copy EXCEPT !.pending = TRUE]
  <2>1. /\ d.at = "commit" /\ d.run \in Run /\ manifest' = [manifest EXCEPT ![d.run] = m]
        /\ UNCHANGED <<approvals, prd, queue, resume, pc, current>>
    BY <1>6, <1>d DEF WriteGate
  <2>2. reviewer'[a].at = "idle" /\ \A b \in Reviewer : b # a => reviewer'[b] = reviewer[b]
    BY <1>6, <1>i DEF WriteGate, Deciding, Typed
  <2>3. d.verdict # "approved" => m.pending
    BY <1>d, RequiredTyped DEF Decision
  <2>4. \A q \in Run : manifest'[q] = IF q = d.run THEN m ELSE manifest[q]
    BY <2>1 DEF Typed
  <2>5. ~Early(d.run)
    BY <2>1 DEF QuietShared, Untouched
  <2>6. d.verdict = "approved" => Settled(d.run)
    BY <2>1 DEF QuietShared, DecidesCurrent
  <2> HIDE DEF d, m
  <2>r. \A b \in Reviewer : reviewer[b].run \in Run
    BY DEF Typed, Decision
  <2>s. \A q \in Run : Settled(q) => Settled(q)'
    BY <2>1, SettledKept
  <2>7. Untouched'
    BY <2>2, <2>4, <2>5 DEF QuietShared, Untouched, Moves
  <2>8. IdleAbsent' /\ PlannedAfterDraft'
    BY <2>1, <2>4, <2>5 DEF QuietShared, IdleAbsent, PlannedAfterDraft, Early
  <2>9. WaitsOrSettled'
    BY <2>1, <2>3, <2>4, <2>6, <2>s DEF QuietShared, WaitsOrSettled, Underway
  <2>10. DecidesCurrent'
    BY <2>1, <2>2, <2>s, <2>r DEF QuietShared, DecidesCurrent, Skipped
  <2>11. ResumesSettled'
    BY <2>1, ResumesFrame
  <2> QED
    BY <2>7, <2>8, <2>9, <2>10, <2>11 DEF QuietShared
<1>7. CASE CrashReviewer(a)
  BY <1>7 DEF CrashReviewer, Undisturbed, Quiet
<1> QED
  BY <1>1, <1>2, <1>3, <1>4, <1>5, <1>6, <1>7 DEF Review

\* resume comes to the engine only when the gate is not pending and the command is gone.
LEMMA ResumeQuiet ==
    ASSUME Typed, Undisturbed, QuietShared, ResumesSettled, Moves, Resume \/ CrashResume
    PROVE  QuietShared' /\ ResumesSettled'
<1> USE DEF control
<1>r. resume.run \in Run
  BY DEF Typed, ResumeState
<1>1. UNCHANGED <<prd, approvals, reviewer, pc, current>>
  BY DEF Resume, Analyze, Prepare, PrepareThrows, RunEngine, CrashResume, Resuming
<1>2. \A q \in Run : SameGate(manifest'[q], manifest[q])
  <2>1. CASE Prepare
    <3> DEFINE r == resume.run  m == manifest[r]
               u == [m EXCEPT !.error = FALSE, !.current = IF m.last # 0 THEN m.last ELSE @]
    <3>1. r \in Run /\ m \in Manifest
      BY <1>r DEF Typed
    <3>2. SameGate(u, m)
      BY <3>1, ResumedTyped
    <3>3. manifest' = [manifest EXCEPT ![r] = u]
      BY <2>1 DEF Prepare
    <3>4. \A q \in Run : manifest'[q] = IF q = r THEN u ELSE manifest[q]
      BY <3>3 DEF Typed
    <3> HIDE DEF u
    <3> QED
      BY <3>2, <3>4 DEF SameGate
  <2>2. CASE ~Prepare
    <3>1. manifest' = manifest
      BY <2>2 DEF Resume, Analyze, PrepareThrows, RunEngine, CrashResume
    <3> QED
      BY <3>1 DEF SameGate
  <2> QED
    BY <2>1, <2>2
<1>3. \A r \in Run : queue'[r] # "none" => prd[r] > 0
  BY DEF QuietShared, PlannedAfterDraft, Resume, Analyze, Prepare, PrepareThrows, RunEngine, Ran, CrashResume,
         Typed
<1>4. ~RequireApproval
  BY <1>1 DEF RequireApproval, At, Goto
<1>5. QuietShared'
  BY <1>1, <1>2, <1>3, <1>4, QuietFrame
<1>s. \A q \in Run : Settled(q) => Settled(q)'
  BY <1>1, SettledKept
<1>6. ASSUME NEW r \in Run, NEW f \in BOOLEAN, Analyze(r, f) PROVE ResumesSettled'
  <2>1. ~f /\ pc \notin Live /\ manifest[r].exists
    BY <1>6 DEF Analyze, Undisturbed, Quiet
  <2>2. pc = "exited"
    BY <2>1 DEF QuietShared, IdleAbsent, Typed
  <2>3. resume'.at = "prepare" /\ ~resume'.forced
    BY <1>6, <2>1 DEF Analyze, Resuming
  <2> QED
    BY <1>1, <2>2, <2>3 DEF ResumesSettled
<1>7. CASE Prepare
  <2>1. resume.at = "prepare" /\ pc = "exited" /\ ~resume.forced
    BY <1>7 DEF Prepare, ResumesSettled
  <2>2. resume'.at = "engine" /\ resume'.run = resume.run /\ ~resume'.forced
    BY <1>7, <2>1 DEF Prepare, Resuming, Typed, ResumeState
  <2>3. ~manifest[resume.run].pending
    BY <1>7, <2>1 DEF Prepare, CanResume, Awaited
  <2>4. prd[resume.run] > 0 => Settled(resume.run)
    BY <1>r, <2>1, <2>3 DEF QuietShared, WaitsOrSettled, Underway, Stage
  <2>5. \A q \in Run : q = resume.run /\ prd[q] > 0 => Settled(q)'
    BY <1>s, <2>4
  <2>6. resume'.run \in Run /\ prd' = prd /\ pc' = "exited"
    BY <1>1, <1>r, <2>1, <2>2
  <2>7. prd'[resume'.run] > 0 => Settled(resume.run)'
    BY <2>2, <2>5, <2>6
  <2> QED
    BY <1>5, <2>2, <2>6, <2>7 DEF ResumesSettled
<1>8. CASE PrepareThrows \/ RunEngine \/ CrashResume
  <2>1. resume'.at = "idle"
    BY <1>8 DEF PrepareThrows, RunEngine, CrashResume, Resuming, NotResuming
  <2> QED
    BY <1>5, <2>1 DEF ResumesSettled
<1> QED
  BY <1>5, <1>6, <1>7, <1>8 DEF Resume

\* The invariant holds where no run directory is.
LEMMA QuietInit == ASSUME Init PROVE QuietInv
<1>1. /\ pc = "idle" /\ phase = 0 /\ todo = <<>> /\ current \in Run /\ resume.at = "idle" /\ rounds = env.rounds
      /\ \A r \in Run : prd[r] = 0 /\ queue[r] = "none"
      /\ \A a \in Reviewer : reviewer[a].at = "idle"
  BY Constants DEF Init, NoDecision, NotResuming
<1>2. \A r \in Run : ~manifest[r].exists /\ ~manifest[r].pending /\ ~manifest[r].prd
  BY AbsentTyped DEF Init
<1>3. Undisturbed => Passes
  BY <1>1 DEF Passes, Undisturbed, Quiet, Stage
<1>4. QuietShared /\ ResumesSettled
  BY <1>1, <1>2 DEF QuietShared, Untouched, IdleAbsent, PlannedAfterDraft, WaitsOrSettled, DecidesCurrent,
                    ResumesSettled
<1> QED
  BY <1>3, <1>4 DEF QuietInv

\* Every step keeps the invariant, as long as issues are ordered without repetitions.
LEMMA QuietStep ==
    ASSUME Typed, GateInv, QuietInv, BlockersFirst', [Next]_vars
    PROVE  QuietInv'
<1>e. env' = env
  BY DEF Next, vars, OrderIssues, Start, Again, Pipeline, Throw, CrashPipeline, Review, CrashReviewer, Edit,
         PlanTasks, Resume, CrashResume, Create, Telemetry, Begin, Enter, Prepared, Drafted, Executed, Leave,
         Progress, RecordPrd, RequireApproval, SkipIssue, NextIssue, IssueDone, IssueFailed, CycleDone, StartDone,
         StartFailed, Consider, Request, Refuse, Withdraw, WriteRecord, WriteGate, Deny, Analyze, Prepare,
         PrepareThrows, RunEngine, Resuming, Exit, Goto, Others
<1> SUFFICES ASSUME Undisturbed PROVE Passes' /\ QuietShared' /\ ResumesSettled'
  BY <1>e DEF QuietInv, Undisturbed, Quiet
<1>i. Passes /\ QuietShared /\ ResumesSettled
  BY DEF QuietInv
<1>m. Passes' /\ Moves
  BY <1>i, PassesStep DEF Moves
<1>1. CASE SilentUpdate \/ ControlStep \/ \E r \in Run : PlanTasks(r)
  BY <1>1, <1>i, <1>m, SilentQuiet
<1>2. CASE Create \/ Drafted \/ RecordPrd \/ RequireApproval
  BY <1>2, <1>i, <1>m, CreateQuiet, DraftedQuiet, RecordPrdQuiet, RequireApprovalQuiet
<1>3. CASE \E a \in Reviewer : Review(a) \/ CrashReviewer(a)
  BY <1>3, <1>i, <1>m, ReviewQuiet
<1>4. CASE \E r \in Run : Edit(r)
  BY <1>4 DEF Edit, Undisturbed, Quiet
<1>5. CASE Resume \/ CrashResume
  BY <1>5, <1>i, <1>m, ResumeQuiet
<1>6. CASE UNCHANGED vars
  <2>1. UNCHANGED <<manifest, prd, approvals, queue, reviewer, resume, pc>>
    BY <1>6 DEF vars, control
  <2>2. ~RequireApproval
    BY <2>1 DEF RequireApproval, At, Goto
  <2>3. \A r \in Run : queue'[r] # "none" => prd[r] > 0
    BY <1>i, <2>1 DEF QuietShared, PlannedAfterDraft
  <2> QED
    BY <1>i, <1>m, <2>1, <2>2, <2>3, QuietFrame, ResumesFrame DEF SameGate
<1> QED
  BY <1>m, <1>1, <1>2, <1>3, <1>4, <1>5, <1>6 DEF Next, Pipeline, SilentUpdate, ControlStep

\* A step that executes tasks finds their PRD approved.
LEMMA QuietExecutes ==
    ASSUME Typed, QuietInv, [Next]_vars, NEW r \in Run, Quiet, Executing(r), env.approval
    PROVE  Approved(r, {prd[r], Skipped})
<1>i. Passes /\ QuietShared /\ ResumesSettled
  BY DEF QuietInv, Undisturbed
<1>1. queue'[r] # queue[r] /\ queue'[r] \in {"done", "failed"}
  BY DEF Executing
<1>2. Executed \/ RunEngine
  <2>1. CASE SilentUpdate
    BY <1>1, <2>1, SilentUpdateFrame
  <2>2. ASSUME NEW q \in Run, PlanTasks(q) PROVE FALSE
    BY <1>1, <2>2 DEF PlanTasks, Typed
  <2>3. queue' = queue \/ SilentUpdate \/ Executed \/ RunEngine \/ \E q \in Run : PlanTasks(q)
    BY DEF Next, vars, Files, Loop, Others, OrderIssues, Start, Again, Pipeline, SilentUpdate, Throw,
         CrashPipeline, Review, CrashReviewer, Edit, Resume, CrashResume, Create, Prepared, Drafted,
         RecordPrd, RequireApproval, SkipIssue, NextIssue, IssueDone, IssueFailed, CycleDone, StartDone,
         Consider, Request, Refuse, Withdraw, WriteRecord, WriteGate, Deny, Analyze, Prepare, PrepareThrows
  <2> QED
    BY <1>1, <2>1, <2>2, <2>3
<1>3. ~Executed
  BY <1>i DEF Executed, At, Passes
<1>4. RunEngine /\ r = resume.run /\ queue[r] # "none"
  <2>1. RunEngine
    BY <1>2, <1>3
  <2>2. PICK outcome \in {"done", "failed"} : Ran(resume.run, outcome)
    BY <1>1, <2>1 DEF RunEngine
  <2> QED
    BY <1>1, <2>1, <2>2 DEF Ran, Typed
<1>5. prd[r] > 0 /\ resume.at = "engine"
  BY <1>i, <1>4 DEF RunEngine, QuietShared, PlannedAfterDraft
<1> QED
  BY <1>i, <1>4, <1>5 DEF ResumesSettled, Settled

(***************************************************************************)
(* When nobody dies, fails, edits, forces or overlaps, tasks are executed  *)
(* only with an approval of the PRD that is there: the only engine that    *)
(* runs under a required gate is resume's, after the command is gone, and  *)
(* the gate is then either pending, which stops resume, or approved.       *)
(* That the order of a cycle comes to each issue once (part of             *)
(* BlockersFirst) is what the algorithm of IssueOrder.tla computes, and    *)
(* model-checked.                                                          *)
(***************************************************************************)
THEOREM ApprovedBeforeExecution == Spec /\ []BlockersFirst => ExecutesApprovedWhenQuiet
<1>1. Init => QuietInv
  BY QuietInit
<1>2. Typed /\ GateInv /\ QuietInv /\ BlockersFirst' /\ [Next]_vars => QuietInv'
  BY QuietStep
<1>3. Typed /\ QuietInv /\ [Next]_vars =>
        [\A r \in Run : Quiet /\ Executing(r) /\ env.approval => Approved(r, {prd[r], Skipped})]_vars
  BY QuietExecutes
<1> QED
  BY <1>1, <1>2, <1>3, TypeCorrect, GateInvInvariant, PTL DEF Spec, ExecutesApprovedWhenQuiet
=============================================================================
