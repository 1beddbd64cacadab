---------------------------- MODULE PullRequests ----------------------------
(***************************************************************************)
(* The commands pr create, pr reviewers and pr status, and the refresh of  *)
(* the branch protection report by status.  pr disable-auto-merge returns  *)
(* early unless pr.json says that auto-merge is enabled, which no code     *)
(* ever writes.  A command reads pr.json once, when it starts, and writes    *)
(* the whole record back; none of them takes the run lock.  pr.json and    *)
(* deployment.json are written to one temporary file each and renamed,     *)
(* the report is written in place.                                         *)
(***************************************************************************)
EXTENDS GitHub

CONSTANT MaxCommands    \* bound on the commands started

VARIABLES
    prFile,         \* pr.json
    prTmp,          \* pr.json.tmp
    linked,         \* github_pr_number of feature.json is set
    history,        \* deployment.json
    historyTmp,     \* deployment.json.tmp
    report,         \* status/branch_protection.json
    agent,          \* what each process is doing
    commands        \* the number of commands started

fileVars == <<prFile, prTmp, linked, history, historyTmp, report>>
prVars == <<remote, fileVars, agent, commands>>

Absent == [kind |-> "absent"]
Torn == [kind |-> "torn"]

Metadata(head, requested) ==
    [kind |-> "pr", head |-> head, requested |-> requested, auto |-> FALSE, ready |-> FALSE, reasons |-> {}]

EmptyLog == [kind |-> "log", outcomes |-> <<>>, actions |-> <<>>]

NoFacts == [sha |-> ByName, checks |-> TRUE, behind |-> FALSE, reviews |-> TRUE]

Unseen == [state |-> "none", head |-> 1, draft |-> FALSE, mergeable |-> TRUE, blocked |-> FALSE]

Idle ==
    [at |-> "idle", op |-> "none", pr |-> Absent, seen |-> Unseen, suites |-> "none", ask |-> {},
     entry |-> "none", log |-> Absent, facts |-> NoFacts, report |-> Absent, force |-> FALSE]

\* A run starts before its pull request, or with one that was created.
PullRequestsInit ==
    /\ remote = [NoPullRequest EXCEPT !.state = env.start]
    /\ prFile = IF env.start = "none" THEN Absent ELSE Metadata(1, {})
    /\ linked = (env.start # "none")
    /\ history = IF env.start = "none" THEN Absent
                 ELSE [EmptyLog EXCEPT !.actions = <<[action |-> "pr_created", users |-> {}]>>]
    /\ prTmp = Absent /\ historyTmp = Absent /\ report = Absent
    /\ agent = [p \in Process |-> Idle]
    /\ commands = 0

Goto(p, at) == agent' = [agent EXCEPT ![p].at = at]
Quit(p) == agent' = [agent EXCEPT ![p] = Idle]

Starts(p, op) ==
    /\ op \in env.ops
    /\ agent[p].at = "idle"
    /\ "overlap" \in env.events \/ \A q \in Process : agent[q].at = "idle"
    /\ commands < env.commands
    /\ commands' = commands + 1
    /\ UNCHANGED <<remote, fileVars>>

\* What stays as it is when a process talks to GitHub only.
Calling == UNCHANGED <<fileVars, commands>>

\* loadPRContext: pr.json is read; the manifest and the configuration are there.
Loaded(op) == [Idle EXCEPT !.op = op, !.pr = prFile]
-----------------------------------------------------------------------------
\* pr create: no pr.json, code approved, validation.json says success, a local branch.
BeginCreate(p) ==
    /\ Starts(p, "create")
    /\ prFile.kind # "pr"
    /\ env.codeApproved /\ env.validated
    /\ agent' = [agent EXCEPT ![p] = [Loaded("create") EXCEPT !.at = "create"]]

\* createPullRequest; the answer has the head.
CreatePr(p) ==
    /\ agent[p].at = "create"
    /\ \E draft \in BOOLEAN : \E r \in createPullRequest(draft) :
        /\ remote' = r.remote
        /\ \/ /\ r.ok
              /\ \E ask \in {{}, Reviewer} :
                    agent' = [agent EXCEPT ![p].at = IF ask = {} THEN "tmp" ELSE "ask", ![p].ask = ask,
                                           ![p].pr = Metadata(r.remote.head, ask), ![p].entry = "pr_created"]
           \/ ~r.ok /\ Quit(p)
    /\ Calling

\* pr reviewers --add
BeginReviewers(p, ask) ==
    /\ Starts(p, "reviewers")
    /\ prFile.kind = "pr"
    /\ agent' = [agent EXCEPT ![p] = [Loaded("reviewers") EXCEPT !.at = "ask", !.ask = ask]]

\* requestReviewers; a failure ends the command, after create with a pull request nobody recorded.
AskReviewers(p) ==
    /\ agent[p].at = "ask"
    /\ \E r \in requestReviewers(agent[p].ask) :
        /\ remote' = r.remote
        /\ \/ /\ r.ok
              /\ agent' = [agent EXCEPT ![p].at = "tmp", ![p].pr.requested = @ \cup agent[p].ask,
                                        ![p].entry = IF @ = "none" THEN "reviewers_requested" ELSE @]
           \/ ~r.ok /\ Quit(p)
    /\ Calling

\* pr status
BeginStatus(p) ==
    /\ Starts(p, "status")
    /\ prFile.kind = "pr"
    /\ agent' = [agent EXCEPT ![p] = [Loaded("status") EXCEPT !.at = "pr"]]

\* getPullRequest; isPullRequestReadyToMerge asks for it again.
FetchPr(p) ==
    /\ agent[p].at \in {"pr", "prAgain"}
    /\ \E ok \in Reads :
        IF ok THEN agent' = [agent EXCEPT ![p].seen = getPullRequest,
                                          ![p].at = IF @ = "pr" THEN "suites" ELSE "suitesAgain",
                                          ![p].pr.head = IF agent[p].at = "pr" THEN remote.head ELSE @]
              ELSE Quit(p)
    /\ UNCHANGED remote /\ Calling

\* getStatusChecks of the head just seen.
FetchSuites(p) ==
    LET a == agent[p]
        reasons == Reasons(a.seen, getStatusChecks(a.seen.head))
    IN  /\ a.at \in {"suites", "suitesAgain"}
        /\ \E ok \in Reads :
            IF ~ok THEN Quit(p)
            ELSE IF a.at = "suites" THEN Goto(p, "prAgain")
            ELSE agent' = [agent EXCEPT ![p].at = "tmp", ![p].pr.ready = reasons = {},
                                        ![p].pr.reasons = reasons]
        /\ UNCHANGED remote /\ Calling
-----------------------------------------------------------------------------
\* persistPRData: the temporary file of another process may be the one that is renamed.
WriteTmp(p) ==
    /\ agent[p].at = "tmp"
    /\ prTmp' = agent[p].pr
    /\ Goto(p, "rename")
    /\ UNCHANGED <<remote, prFile, linked, history, historyTmp, report, commands>>

Rename(p) ==
    /\ agent[p].at = "rename"
    /\ IF prTmp = Absent THEN Quit(p) /\ UNCHANGED <<prFile, prTmp>>
       ELSE /\ prFile' = prTmp /\ prTmp' = Absent
            /\ Goto(p, "feature")
    /\ UNCHANGED <<remote, linked, history, historyTmp, report, commands>>

\* feature.json: a failure is only warned of.
LinkFeature(p) ==
    /\ agent[p].at = "feature"
    /\ linked' \in {TRUE} \cup (IF "failure" \in env.events THEN {linked} ELSE {})
    /\ IF agent[p].entry = "none" THEN Quit(p) ELSE Goto(p, "readLog")
    /\ UNCHANGED <<remote, prFile, prTmp, history, historyTmp, report, commands>>

\* logDeploymentAction: whatever else is in the file is kept.
ReadLog(p) ==
    /\ agent[p].at = "readLog"
    /\ agent' = [agent EXCEPT ![p].at = "log", ![p].log = IF history = Absent THEN EmptyLog ELSE history]
    /\ UNCHANGED <<remote, fileVars, commands>>

WriteLog(p) ==
    /\ agent[p].at = "log"
    /\ historyTmp' = [agent[p].log EXCEPT !.actions =
                        Append(@, [action |-> agent[p].entry, users |-> agent[p].ask])]
    /\ Goto(p, "renameLog")
    /\ UNCHANGED <<remote, prFile, prTmp, linked, history, report, commands>>

RenameLog(p) ==
    /\ agent[p].at = "renameLog"
    /\ IF historyTmp = Absent THEN UNCHANGED <<history, historyTmp>>
                              ELSE history' = historyTmp /\ historyTmp' = Absent
    /\ Quit(p)
    /\ UNCHANGED <<remote, prFile, prTmp, linked, report, commands>>
-----------------------------------------------------------------------------
\* status: validateRefreshContext, executeBranchProtectionRefresh.
BeginRefresh(p) ==
    /\ Starts(p, "refresh")
    /\ prFile.kind = "pr"
    /\ agent' = [agent EXCEPT ![p] = [Loaded("refresh") EXCEPT !.at = "rules"]]

\* One request of evaluateCompliance; if it fails the refresh ends with a warning.
Request(p, at, next, Answer) ==
    /\ agent[p].at = at
    /\ \E ok \in Reads :
        IF ok THEN agent' = [agent EXCEPT ![p].at = next, ![p].facts = Answer] ELSE Quit(p)
    /\ UNCHANGED remote /\ Calling

ReadRules(p) == Request(p, "rules", "refs", agent[p].facts)

\* The references of the pull request; without them the name of the branch is used.
ReadRefs(p) ==
    /\ agent[p].at = "refs"
    /\ \E ok \in Reads :
        agent' = [agent EXCEPT ![p].facts.sha = IF ok THEN getPullRequest.head ELSE ByName,
                               ![p].at = IF getBranchProtection.protected THEN "checks" ELSE "report"]
    /\ UNCHANGED remote /\ Calling

AfterChecks == IF env.rules.reviews > 0 THEN "reviews" ELSE "report"

ReadChecks(p) ==
    LET sha == agent[p].facts.sha
    IN  Request(p, "checks", IF env.rules.checks /\ env.rules.strict THEN "compare" ELSE AfterChecks,
                [agent[p].facts EXCEPT !.checks =
                    ChecksPassing(env.rules, getCommitStatuses(sha), getCheckRuns(sha))])

Compare(p) ==
    Request(p, "compare", AfterChecks,
            [agent[p].facts EXCEPT !.behind = compareCommits(agent[p].facts.sha)])

ReadReviews(p) ==
    Request(p, "reviews", "report",
            [agent[p].facts EXCEPT !.reviews = ReviewsSatisfied(env.rules, getPullRequestReviews)])

\* persistReport
WriteReport(p) ==
    /\ agent[p].at = "report"
    /\ report' = Report(getBranchProtection, agent[p].facts)
    /\ Quit(p)
    /\ UNCHANGED <<remote, prFile, prTmp, linked, history, historyTmp, commands>>
-----------------------------------------------------------------------------
PullRequestsNext ==
    \E p \in Process :
        \/ BeginCreate(p) \/ CreatePr(p)
        \/ \E ask \in SUBSET Reviewer \ {{}} : BeginReviewers(p, ask)
        \/ AskReviewers(p)
        \/ BeginStatus(p) \/ FetchPr(p) \/ FetchSuites(p)
        \/ WriteTmp(p) \/ Rename(p) \/ LinkFeature(p)
        \/ ReadLog(p) \/ WriteLog(p) \/ RenameLog(p)
        \/ BeginRefresh(p) \/ ReadRules(p) \/ ReadRefs(p) \/ ReadChecks(p) \/ Compare(p)
        \/ ReadReviews(p) \/ WriteReport(p)
=============================================================================
