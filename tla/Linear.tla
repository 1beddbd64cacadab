------------------------------- MODULE Linear -------------------------------
(***************************************************************************)
(* LinearAdapter: the snapshot of an issue with its cache in the run       *)
(* directory, the fallback to the cache when the API fails, the hourly     *)
(* budget of requests, writes as a preview feature, and the relations of   *)
(* the issues of a cycle.  Issue and comments change on Linear and are     *)
(* fetched by two requests; the cache is written in place and guarded by a *)
(* hash.  The budget is counted per adapter, one per process here, and per *)
(* call: the attempts HttpClient repeats are not counted.  That repeated   *)
(* 429s need an acknowledgement is WriteActionQueue.tla's ledger; here a   *)
(* request may be refused.  Time counts hours.                             *)
(***************************************************************************)
EXTENDS RunDirectory

CONSTANTS
    Ttl,            \* DEFAULT_CACHE_TTL
    Window,         \* RATE_LIMIT_WINDOW_MS
    Budget,         \* RATE_LIMIT_PER_HOUR
    MaxHour         \* bound on the hours considered

ASSUME LinearAssumption == Ttl \in Nat \ {0} /\ Window \in Nat /\ Budget \in Nat

VARIABLES
    issue,          \* the versions of the issue and of its comments on Linear, and when each was replaced
    snapshot,       \* inputs/linear_issue_<id>.json
    reader,         \* what each process does with its adapter
    sent,           \* the requests counted, each [by, at]; those of a process that died are nobody's
    requests,       \* requestTimestamps of each adapter, the numbers of its requests in sent
    hour,
    fetches         \* the operations started

linearVars == <<issue, snapshot, reader, sent, requests, hour, fetches>>

NoSnapshot == [kind |-> "none"]
TornSnapshot == [kind |-> "torn"]

IdleReader == [at |-> "idle", mode |-> "normal", issue |-> 0, result |-> NoSnapshot, stale |-> FALSE]

LinearInit ==
    /\ issue = [issue |-> 0, comments |-> 0, replaced |-> <<>>]
    /\ snapshot = NoSnapshot
    /\ reader = [p \in Process |-> IdleReader]
    /\ sent = <<>> /\ requests = [p \in Process |-> {}]
    /\ hour = 0 /\ fetches = 0

Read(p, r) == reader' = [reader EXCEPT ![p] = r]

\* trimRequestWindow
Trimmed(p) == {n \in requests[p] : sent[n].at >= hour - Window}

\* assertRateLimitHeadroom: cooldown, acknowledgement, budget.
Headroom(p) == Cardinality(Trimmed(p)) < Budget

\* executeGraphQL: the request is counted, then sent; it may be refused before or fail after.
Executes(p, done, failed) ==
    \/ /\ Headroom(p)
       /\ sent' = Append(sent, [by |-> p, at |-> hour])
       /\ requests' = [requests EXCEPT ![p] = Trimmed(p) \cup {Len(sent')}]
       /\ done \/ ("failure" \in env.events /\ failed)
    \/ /\ ~Headroom(p) \/ "cooldown" \in env.events
       /\ requests' = [requests EXCEPT ![p] = Trimmed(p)] /\ UNCHANGED sent
       /\ failed

\* loadCachedSnapshot: a file that does not parse or match its hash counts as none.
Cached == IF snapshot.kind = "snapshot" THEN snapshot ELSE NoSnapshot

\* Mutant: any snapshot in the cache will do.
AnySnapshot(s) == s # NoSnapshot

\* isSnapshotValid
ValidSnapshot(s) == s # NoSnapshot /\ hour - s.at < Ttl

StartsRead(p) == reader[p].at = "idle" /\ fetches < env.calls /\ fetches' = fetches + 1

\* fetchIssueSnapshot: the cache first, unless told otherwise.
BeginSnapshot(p, mode) ==
    /\ StartsRead(p)
    /\ LET r == [IdleReader EXCEPT !.mode = mode]
       IN  IF mode = "normal" /\ ValidSnapshot(Cached) THEN Read(p, [r EXCEPT !.at = "returned", !.result = Cached])
                                               ELSE Read(p, [r EXCEPT !.at = "issue"])
    /\ UNCHANGED <<issue, snapshot, sent, requests, hour>>

FetchIssue(p) ==
    /\ reader[p].at = "issue"
    /\ Executes(p, Read(p, [reader[p] EXCEPT !.at = "comments", !.issue = issue.issue]),
                   Read(p, [reader[p] EXCEPT !.at = "fallback"]))
    /\ UNCHANGED <<issue, snapshot, hour, fetches>>

FetchComments(p) ==
    /\ reader[p].at = "comments"
    /\ Executes(p, Read(p, [reader[p] EXCEPT !.at = "save", !.result =
                        [kind |-> "snapshot", issue |-> reader[p].issue, comments |-> issue.comments, at |-> hour]]),
                   Read(p, [reader[p] EXCEPT !.at = "fallback"]))
    /\ UNCHANGED <<issue, snapshot, hour, fetches>>

\* saveSnapshot in place, without a lock; a failure is only warned of.
SaveSnapshot(p) ==
    /\ reader[p].at \in {"save", "saving"}
    /\ \/ reader[p].at = "save" /\ snapshot' = TornSnapshot /\ Read(p, [reader[p] EXCEPT !.at = "saving"])
       \/ reader[p].at = "saving" /\ snapshot' = reader[p].result /\ Read(p, [reader[p] EXCEPT !.at = "returned"])
       \/ "failure" \in env.events /\ Read(p, [reader[p] EXCEPT !.at = "returned"]) /\ UNCHANGED snapshot
    /\ UNCHANGED <<issue, sent, requests, hour, fetches>>

\* The catch of fetchIssueSnapshot: whatever is cached, marked with the error.
Fallback(p) ==
    /\ reader[p].at = "fallback"
    /\ IF reader[p].mode # "noCache" /\ Cached # NoSnapshot
       THEN Read(p, [reader[p] EXCEPT !.at = "returned", !.result = Cached, !.stale = TRUE])
       ELSE Read(p, [reader[p] EXCEPT !.at = "failed"])
    /\ UNCHANGED <<issue, snapshot, sent, requests, hour, fetches>>

Changed(part) == [issue EXCEPT ![part] = @ + 1, !.replaced = Append(@, [part |-> part, version |-> issue[part], at |-> hour])]

\* updateIssue, postComment: preview features only; the answer may be lost.
WriteIssue(p, part) ==
    /\ env.preview
    /\ StartsRead(p)
    /\ issue[part] < env.versions
    /\ \E effect \in {Changed(part)} \cup (IF "failure" \in env.events THEN {issue} ELSE {}) :
        Executes(p, issue' = effect /\ reader' = reader, issue' = issue /\ reader' = reader)
    /\ UNCHANGED <<snapshot, hour>>

Return(p) ==
    /\ reader[p].at \in {"returned", "failed"}
    /\ Read(p, IdleReader)
    /\ UNCHANGED <<issue, snapshot, sent, requests, hour, fetches>>

CrashReader(p) ==
    /\ "crash" \in env.events
    /\ reader[p].at # "idle"
    /\ Read(p, IdleReader)
    /\ sent' = [n \in DOMAIN sent |-> IF sent[n].by = p THEN [sent[n] EXCEPT !.by = Nobody] ELSE sent[n]]
    /\ requests' = [requests EXCEPT ![p] = {}]
    /\ UNCHANGED <<issue, snapshot, hour, fetches>>

\* People work on the issue (external).
ChangeIssue(part) ==
    /\ issue[part] < env.versions
    /\ issue' = Changed(part)
    /\ UNCHANGED <<snapshot, reader, sent, requests, hour, fetches>>

PassHour ==
    /\ hour < MaxHour
    /\ "slow" \in env.events \/ \A p \in Process : reader[p].at \notin {"comments", "save", "saving", "returned"}
    /\ hour' = hour + 1
    /\ UNCHANGED <<issue, snapshot, reader, sent, requests, fetches>>

LinearNext ==
    \/ \E p \in Process :
        \/ \E mode \in {"normal", "forceRefresh", "noCache"} : BeginSnapshot(p, mode)
        \/ FetchIssue(p) \/ FetchComments(p) \/ SaveSnapshot(p) \/ Fallback(p) \/ Return(p) \/ CrashReader(p)
        \/ \E part \in {"issue", "comments"} : WriteIssue(p, part)
    \/ \E part \in {"issue", "comments"} : ChangeIssue(part)
    \/ PassHour
-----------------------------------------------------------------------------
\* normalizeCycleRelation: blocked_by and duplicate_of are turned round, what is unknown is dropped.
Normalized(from, type, to) ==
    CASE type \in {"blocks", "duplicate", "related"} -> {[type |-> type, issue |-> from, relatedIssue |-> to]}
      [] type = "blocked_by" -> {[type |-> "blocks", issue |-> to, relatedIssue |-> from]}
      [] type = "duplicate_of" -> {[type |-> "duplicate", issue |-> to, relatedIssue |-> from]}
      [] OTHER -> {}

\* fetchCycleIssues page by page until a page has no next: [id, type, to] of each relation of a page.
CycleRelations(pages) ==
    UNION {Normalized(n.id, n.type, n.to) : n \in UNION {pages[k] : k \in DOMAIN pages}}

(***************************************************************************)
(* A snapshot returned without an error mark has an issue and comments     *)
(* that were on Linear within the last ttl, although cache, clock, API and *)
(* other processes are in play; one that had to fall back is marked, and   *)
(* is returned only to callers who accept the cache.                       *)
(* (fetchIssueSnapshot, isSnapshotValid, saveSnapshot)                     *)
(***************************************************************************)
SnapshotsTrue ==
    \A p \in Process :
        LET r == reader[p]
            gone(part, version) ==
                \E k \in DOMAIN issue.replaced :
                    LET x == issue.replaced[k] IN x.part = part /\ x.version = version /\ hour - x.at >= Ttl
        IN  r.at = "returned" =>
                /\ r.result.kind = "snapshot"
                /\ r.mode = "noCache" => ~r.stale
                /\ ~r.stale /\ "slow" \notin env.events =>
                        ~gone("issue", r.result.issue) /\ ~gone("comments", r.result.comments)

(***************************************************************************)
(* An adapter never starts more calls in a window than its budget, however *)
(* its reads and writes mix.  (assertRateLimitHeadroom, recordRequest)     *)
(***************************************************************************)
HourlyBudgetKept ==
    \A p \in Process :
        Cardinality({n \in DOMAIN sent : sent[n].by = p /\ sent[n].at >= hour - Window}) <= Budget

(***************************************************************************)
(* A cycle has the same relations whether each is reported by the one      *)
(* issue, by the other, or by both on different pages.                     *)
(* (normalizeCycleRelation)                                                *)
(***************************************************************************)
RelationsTrue ==
    LET forward == {[id |-> x[1], type |-> "blocks", to |-> x[2]] : x \in env.blocks}
        backward == {[id |-> x[2], type |-> "blocked_by", to |-> x[1]] : x \in env.blocks}
    IN  /\ CycleRelations(<<forward>>) = CycleRelations(<<backward>>)
        /\ CycleRelations(<<forward, backward>>) = CycleRelations(<<forward>>)

LinearAgrees == SnapshotsTrue /\ HourlyBudgetKept /\ RelationsTrue
=============================================================================
