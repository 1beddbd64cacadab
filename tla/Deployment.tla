----------------------------- MODULE Deployment -----------------------------
(***************************************************************************)
(* triggerDeployment beside the commands of PullRequests.tla: it loads     *)
(* manifest, pr.json and the branch protection report, assesses the pull   *)
(* request afresh, selects a strategy, carries it out and appends the      *)
(* outcome to deployment.json under the run lock.  The other writer of     *)
(* that file, logDeploymentAction, does not take the lock.  No command     *)
(* calls triggerDeployment; its tests and exports do.                      *)
(*                                                                         *)
(* env.config holds the flags of the configuration, env.approved whether   *)
(* deploy is among the completed gates of the manifest, env.pending        *)
(* whether another gate is pending.                                        *)
(***************************************************************************)
EXTENDS PullRequests

deployVars == <<prVars, lock>>

\* loadDeploymentContext: a report that does not parse counts as none.
LoadedReport == IF report.kind = "report" THEN report ELSE Absent

BeginDeploy(p, force) ==
    /\ Starts(p, "deploy")
    /\ agent' = [agent EXCEPT ![p] = [Loaded("deploy") EXCEPT
                    !.at = IF prFile.kind = "pr" THEN "assess" ELSE "error", !.report = LoadedReport, !.force = force]]
    /\ UNCHANGED lock

ProtectionBlockers(r, pr) ==
    IF r = Absent THEN {b \in {"protection"} : pr.blocked}
    ELSE {b \in {"checks", "reviews", "update"} :
            \/ b = "checks" /\ ~r.checks
            \/ b = "reviews" /\ ~r.reviews
            \/ b = "update" /\ r.stale}

ApprovalBlockers == {b \in {"approvals"} : env.pending \/ (env.config.approval /\ ~env.approved)}

\* assessMergeReadiness of the pull request as it is now and the report as it was loaded.
Blockers(r, pr) ==
    {b \in {"closed", "draft", "conflicts"} :
        \/ b = "closed" /\ pr.state # "open"
        \/ b = "draft" /\ pr.draft
        \/ b = "conflicts" /\ ~pr.mergeable}
    \cup ProtectionBlockers(r, pr) \cup ApprovalBlockers

\* selectDeploymentStrategy: the first rule that applies.
Strategy(blockers, force, r) ==
    IF blockers # {} /\ ~force THEN "blocked"
    ELSE IF env.config.dispatch # "none" THEN "dispatch"
    ELSE IF env.config.prevent \/ ~env.config.auto \/ (r # Absent /\ ~r.autoMerge) THEN "merge"
    ELSE "auto"

Assess(p) ==
    LET strategy == Strategy(Blockers(agent[p].report, getPullRequest), agent[p].force, agent[p].report)
    IN  /\ agent[p].at = "assess"
        /\ \E ok \in Reads :
            agent' = [agent EXCEPT ![p].at = IF ~ok THEN "error" ELSE IF strategy = "auto" THEN "node" ELSE strategy,
                                   ![p].seen = getPullRequest]
        /\ UNCHANGED <<remote, lock>> /\ Calling

\* A dry run leaves nothing behind.
DryRun(p) ==
    /\ agent[p].at \in {"blocked", "dispatch", "merge", "node"}
    /\ "dry" \in env.events
    /\ Quit(p)
    /\ UNCHANGED <<remote, lock>> /\ Calling

\* buildOutcome: the head recorded and the report (by its hash) that were relied on.
Outcome(p, strategy, ok) ==
    [strategy |-> strategy, ok |-> ok, head |-> IF agent[p].pr = Absent THEN 0 ELSE agent[p].pr.head, report |-> agent[p].report,
     force |-> agent[p].force]

Conclude(p, strategy, ok) ==
    agent' = [agent EXCEPT ![p].at = "outcome", ![p].entry = Outcome(p, strategy, ok)]

\* Mutant: the head is left out.
MergeAnyHead(p) ==
    /\ agent[p].at = "merge"
    /\ \E r \in mergePullRequest(ByName) : remote' = r.remote /\ Conclude(p, "merge", r.ok)
    /\ UNCHANGED lock /\ Calling

\* executeManualMerge: the head recorded in pr.json is sent along.
Merge(p) ==
    /\ agent[p].at = "merge"
    /\ \E r \in mergePullRequest(agent[p].pr.head) : remote' = r.remote /\ Conclude(p, "merge", r.ok)
    /\ UNCHANGED lock /\ Calling

\* executeAutoMerge: getPRNodeId reads the pull request first.
GetNodeId(p) ==
    /\ agent[p].at = "node"
    /\ \E ok \in Reads : IF ok THEN Goto(p, "auto") ELSE Conclude(p, "auto", FALSE)
    /\ UNCHANGED <<remote, lock>> /\ Calling

AutoMerge(p) ==
    /\ agent[p].at = "auto"
    /\ \E r \in enableAutoMerge : remote' = r.remote /\ Conclude(p, "auto", r.ok)
    /\ UNCHANGED lock /\ Calling

\* executeWorkflowDispatch: inputs alone, without a workflow_id in the configuration, are an error.
Dispatch(p) ==
    /\ agent[p].at = "dispatch"
    /\ \E r \in triggerWorkflow :
        IF env.config.dispatch = "workflow" THEN remote' = r.remote /\ Conclude(p, "dispatch", r.ok)
                                            ELSE Conclude(p, "dispatch", FALSE) /\ UNCHANGED remote
    /\ UNCHANGED lock /\ Calling

\* handleBlocked, and the catch of triggerDeployment.
Refused(p) ==
    /\ agent[p].at \in {"blocked", "error"}
    /\ Conclude(p, "blocked", FALSE)
    /\ UNCHANGED <<remote, lock>> /\ Calling

\* persistDeploymentOutcome: DeploymentHistorySchema drops the actions, and refuses a file without outcomes.
ReadHistory(p) ==
    /\ agent[p].at = "outcome"
    /\ Acquire(p)
    /\ LET old == IF history = Absent THEN <<>> ELSE history.outcomes
       IN  agent' = [agent EXCEPT ![p].at = "persist",
                                  ![p].log = [EmptyLog EXCEPT !.outcomes = Append(old, agent[p].entry)]]
    /\ UNCHANGED <<remote, fileVars, commands>>

PersistOutcome(p) ==
    /\ agent[p].at = "persist"
    /\ Release(p)
    /\ history' = agent[p].log
    /\ Quit(p)
    /\ UNCHANGED <<remote, prFile, prTmp, linked, historyTmp, report, commands>>

\* A process dies; the report it was writing may be left torn.
CrashAgent(p) ==
    /\ "crash" \in env.events
    /\ agent[p].at # "idle"
    /\ Quit(p) /\ Abandon(p)
    /\ report' \in {report} \cup {r \in {Torn} : agent[p].at = "report"}
    /\ UNCHANGED <<remote, prFile, prTmp, linked, history, historyTmp, commands>>

DeploymentNext ==
    \/ PullRequestsNext /\ UNCHANGED lock
    \/ \E p \in Process :
        \/ \E force \in BOOLEAN : BeginDeploy(p, force)
        \/ Assess(p) \/ DryRun(p) \/ Merge(p) \/ GetNodeId(p) \/ AutoMerge(p) \/ Dispatch(p) \/ Refused(p)
        \/ ReadHistory(p) \/ PersistOutcome(p) \/ CrashAgent(p)
    \/ Others /\ UNCHANGED <<fileVars, agent, commands, lock>>
-----------------------------------------------------------------------------
Quiet == \A p \in Process : agent[p].at = "idle"

(***************************************************************************)
(* pr.json never claims more than GitHub knows: its pull request exists,   *)
(* its reviewers were requested, its head was pushed.  Unless a call       *)
(* failed or a process died, a pull request that pr create opened is       *)
(* recorded, and while nobody deploys and commands follow one another,     *)
(* deployment.json names every reviewer pr.json has.                       *)
(* (persistPRData, logDeploymentAction, the order of the calls of create)  *)
(***************************************************************************)
PrFileAgrees ==
    /\ prFile.kind = "pr" =>
            /\ remote.state # "none"
            /\ prFile.requested \subseteq remote.requested
            /\ prFile.head <= remote.head
    /\ Quiet /\ env.events \cap {"failure", "lost", "crash", "overlap"} = {} =>
            /\ remote.state # "none" => prFile.kind = "pr" /\ linked
            /\ prFile.kind = "pr" /\ "deploy" \notin env.ops =>
                    prFile.requested = UNION {history.actions[i].users : i \in DOMAIN history.actions}

(***************************************************************************)
(* A report says that checks pass, that reviews suffice or that the branch *)
(* is stale only if that holds of the commit it names, though it is put    *)
(* together from five answers between which others push, review and report *)
(* checks, as long as no result of a commit turns from good to bad; and    *)
(* its verdict, the recommended actions and what blocks a deployment are   *)
(* the same.  (evaluateCompliance, assessMergeReadiness)                   *)
(***************************************************************************)
ReportAgrees ==
    report.kind = "report" =>
        /\ "regress" \notin env.events /\ report.protected /\ report.sha # ByName =>
                /\ report.checks => ChecksGood(report.sha)
                /\ report.reviews => ReviewsGood
                /\ report.stale => Behind(report.sha)
        /\ CanProceed(report) <=> ProtectionBlockers(report, Unseen) = {}
        /\ Recommended(report) = ProtectionBlockers(report, Unseen)

RecordsAgree == PrFileAgrees /\ ReportAgrees

(***************************************************************************)
(* An outcome that says success happened: the pull request is merged, and  *)
(* at the very commit pr.json had when the deployment began, whatever was  *)
(* pushed meanwhile.  What was merged without force on a report of that    *)
(* commit satisfies the rules.  Auto-merge is enabled, unless GitHub could *)
(* refuse it within an answer that counts as success or the pull request   *)
(* is not open any more; a workflow was dispatched.                        *)
(* (executeManualMerge, executeAutoMerge, assessMergeReadiness)            *)
(***************************************************************************)
OutcomesTrue ==
    history.kind = "log" =>
        \A i \in DOMAIN history.outcomes : LET o == history.outcomes[i] IN o.ok =>
            /\ o.strategy = "merge" => remote.state = "merged" /\ remote.merged = o.head
            /\ /\ o.strategy = "merge" /\ ~o.force /\ "regress" \notin env.events
               /\ o.report # Absent /\ o.report.protected /\ o.report.sha = o.head
               => ChecksGood(o.head) /\ ReviewsGood
            /\ o.strategy = "auto" => remote.auto \/ remote.state # "open" \/ "refuse" \in env.events
            /\ o.strategy = "dispatch" => remote.dispatched

(***************************************************************************)
(* While only deployments write deployment.json, side by side or not, and  *)
(* none of them dies or loses an answer, the outcome of every merge they   *)
(* made is there to stay.  (persistDeploymentOutcome)                      *)
(***************************************************************************)
OutcomesKept ==
    /\ env.ops = {"deploy"} /\ env.events \cap {"lost", "crash"} = {}
    /\ Quiet /\ remote.merged # 0 /\ ~remote.auto
    =>
    \E i \in DOMAIN history.outcomes : history.outcomes[i].ok /\ history.outcomes[i].strategy = "merge"

OutcomesAgree == OutcomesTrue /\ OutcomesKept
=============================================================================
