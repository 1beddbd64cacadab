------------------------------- MODULE GitHub -------------------------------
(***************************************************************************)
(* The pull request of a run as GitHub keeps it (external), the calls of   *)
(* GitHubAdapter and BranchProtectionAdapter, and the rules of branch      *)
(* protection as evaluateCompliance and isPullRequestReadyToMerge read     *)
(* them.  The answer to a call that changes something may be lost; a call  *)
(* may also fail before it has an effect (HttpClient.tla says when).       *)
(*                                                                         *)
(* Commits of the branch are numbered; one status context is required.     *)
(* env.rules are the rules of the branch that evaluateCompliance asks      *)
(* about, which is the head branch of the pull request.                    *)
(***************************************************************************)
EXTENDS RunDirectory

CONSTANTS
    Reviewer,       \* the users who review
    MaxSha,         \* bound on the commits of the branch
    MaxResults      \* bound on the statuses of a commit, and on the reviews

VARIABLE remote     \* the pull request and its branch on GitHub

ASSUME GitHubAssumption ==
    /\ IsFiniteSet(Reviewer) /\ MaxSha \in Nat \ {0}
    /\ \A e \in Environment :
        /\ e.start \in {"none", "open"}
        /\ e.rules \in [protected : BOOLEAN, checks : BOOLEAN, strict : BOOLEAN, reviews : Nat, force : BOOLEAN]

Sha == 1..MaxSha

\* The name of the branch in the place of a commit: GitHub takes its tip.
ByName == 0

NoPullRequest ==
    [state |-> "none", head |-> 1, draft |-> FALSE, mergeable |-> TRUE, auto |-> FALSE,
     requested |-> {}, statuses |-> [s \in Sha |-> <<>>], run |-> [s \in Sha |-> "none"],
     reviews |-> <<>>, base |-> 0, contains |-> [s \in Sha |-> 0], merged |-> 0, dispatched |-> FALSE]
-----------------------------------------------------------------------------
Succeeded(statuses) == \E i \in DOMAIN statuses : statuses[i] = "success"

\* What branch protection means (external): the last result counts, a comment withdraws nothing.
Approves(user) ==
    \E i \in DOMAIN remote.reviews :
        /\ remote.reviews[i].user = user /\ remote.reviews[i].state = "APPROVED"
        /\ \A j \in DOMAIN remote.reviews :
                j > i /\ remote.reviews[j].user = user => remote.reviews[j].state = "COMMENTED"

ChecksGood(sha) ==
    \/ ~env.rules.checks
    \/ remote.statuses[sha] # <<>> /\ remote.statuses[sha][Len(remote.statuses[sha])] = "success"
    \/ remote.run[sha] = "success"

ReviewsGood == Cardinality({u \in Reviewer : Approves(u)}) >= env.rules.reviews

Behind(sha) == remote.contains[IF sha = ByName THEN remote.head ELSE sha] < remote.base

Satisfied ==
    env.rules.protected =>
        /\ ChecksGood(remote.head) /\ ReviewsGood
        /\ (env.rules.checks /\ env.rules.strict) => ~Behind(remote.head)

\* The others: developers, reviewers, the checks, GitHub's auto-merge (external).
Others ==
    /\ remote.state = "open"
    /\ \/ /\ "push" \in env.events /\ remote.head < MaxSha
          /\ remote' = [remote EXCEPT !.head = @ + 1, !.contains[remote.head + 1] = remote.base]
       \/ /\ "base" \in env.events /\ remote.base = 0
          /\ remote' = [remote EXCEPT !.base = 1]
       \/ /\ "check" \in env.events
          /\ \E sha \in Sha, r \in {"success", "failure"} :
                /\ sha <= remote.head
                /\ Len(remote.statuses[sha]) < MaxResults
                /\ "regress" \in env.events \/ ~Succeeded(remote.statuses[sha])
                /\ remote' = [remote EXCEPT !.statuses[sha] = Append(@, r)]
       \/ /\ "run" \in env.events /\ remote.run[remote.head] = "none"
          /\ \E r \in {"success", "failure", "pending"} : remote' = [remote EXCEPT !.run[remote.head] = r]
       \/ /\ "review" \in env.events /\ Len(remote.reviews) < MaxResults
          /\ \E u \in Reviewer, s \in {"APPROVED", "COMMENTED"} \cup
                                      (IF "regress" \in env.events THEN {"CHANGES_REQUESTED"} ELSE {}) :
                remote' = [remote EXCEPT !.reviews = Append(@, [user |-> u, state |-> s])]
       \/ /\ "close" \in env.events
          /\ remote' = [remote EXCEPT !.state = "closed"]
       \/ /\ "conflict" \in env.events
          /\ remote' = [remote EXCEPT !.mergeable = ~@]
       \/ /\ remote.draft
          /\ remote' = [remote EXCEPT !.draft = FALSE]
       \/ /\ remote.auto /\ Satisfied /\ remote.mergeable /\ ~remote.draft
          /\ remote' = [remote EXCEPT !.state = "merged", !.merged = remote.head]
-----------------------------------------------------------------------------
\* The results a call can have that GitHub grants only if possible.
Results(possible, after) ==
    { r \in [remote : {remote, after}, ok : BOOLEAN] :
        \/ possible /\ r = [remote |-> after, ok |-> TRUE]
        \/ possible /\ "lost" \in env.events /\ r = [remote |-> after, ok |-> FALSE]
        \/ (~possible \/ "failure" \in env.events) /\ r = [remote |-> remote, ok |-> FALSE] }

\* A call that reads succeeds, or fails for good.
Reads == {TRUE} \cup (IF "failure" \in env.events THEN {FALSE} ELSE {})

createPullRequest(draft) ==
    Results(remote.state = "none", [remote EXCEPT !.state = "open", !.draft = draft])

requestReviewers(users) ==
    Results(remote.state # "none", [remote EXCEPT !.requested = @ \cup users])

\* merge_method is data; GitHub refuses a sha that is not the head.
mergePullRequest(sha) ==
    Results(/\ remote.state = "open" /\ ~remote.draft /\ remote.mergeable
            /\ sha \in {ByName, remote.head},
            [remote EXCEPT !.state = "merged", !.merged = remote.head])

\* A refusal comes as errors in an answer with status 200, at which nobody looks.
enableAutoMerge ==
    LET granted == remote.state = "open" /\ "refuse" \notin env.events
    IN  Results(TRUE, IF granted THEN [remote EXCEPT !.auto = TRUE] ELSE remote)

triggerWorkflow == Results(TRUE, [remote EXCEPT !.dispatched = TRUE])

getPullRequest ==
    [state |-> remote.state, head |-> remote.head, draft |-> remote.draft, mergeable |-> remote.mergeable,
     blocked |-> ~Satisfied]

\* The check suites of a commit.
getStatusChecks(sha) == remote.run[sha]

\* isPullRequestReadyToMerge: what speaks against it; a suite that still runs does not.
Reasons(pr, checks) ==
    {r \in {"state", "draft", "conflicts", "blocked", "checks"} :
        \/ r = "state" /\ pr.state # "open"
        \/ r = "draft" /\ pr.draft
        \/ r = "conflicts" /\ ~pr.mergeable
        \/ r = "blocked" /\ pr.blocked
        \/ r = "checks" /\ checks = "failure"}
-----------------------------------------------------------------------------
\* getBranchProtection: 404 means unprotected.
getBranchProtection == env.rules

Tip(sha) == IF sha = ByName THEN remote.head ELSE sha
getCommitStatuses(sha) == remote.statuses[Tip(sha)]
getCheckRuns(sha) == remote.run[Tip(sha)]
compareCommits(sha) == Behind(sha)
getPullRequestReviews == remote.reviews

\* Mutant: a check that has not failed passes.
ChecksNotFailing(rules, statuses, run) ==
    ~rules.checks \/ \A i \in DOMAIN statuses : statuses[i] # "failure"

\* A required check passes if any of its statuses, or its check run, is a success.
ChecksPassing(rules, statuses, run) ==
    ~rules.checks \/ Succeeded(statuses) \/ run = "success"

\* The latest review of each user, whatever its state.
ReviewsSatisfied(rules, reviews) ==
    LET latest(u) == \E i \in DOMAIN reviews :
                        /\ reviews[i].user = u /\ reviews[i].state = "APPROVED"
                        /\ \A j \in DOMAIN reviews : j > i => reviews[j].user # u
    IN  Cardinality({u \in Reviewer : latest(u)}) >= rules.reviews

\* buildBranchProtectionReport of what evaluateCompliance found out.
Report(rules, facts) ==
    LET compliant == rules.protected => facts.checks /\ ~facts.behind /\ facts.reviews
    IN  [kind |-> "report", sha |-> facts.sha, protected |-> rules.protected, checks |-> facts.checks, stale |-> facts.behind,
         reviews |-> facts.reviews, compliant |-> compliant,
         autoMerge |-> ~rules.protected \/ (~rules.force /\ compliant)]

\* canProceedWithDeployment and getRecommendedAction, with no caller but tests.
CanProceed(r) == ~r.protected \/ r.compliant
Recommended(r) ==
    IF CanProceed(r) THEN {}
    ELSE {a \in {"checks", "reviews", "update"} :
            \/ a = "checks" /\ ~r.checks
            \/ a = "reviews" /\ ~r.reviews
            \/ a = "update" /\ r.stale}
=============================================================================
