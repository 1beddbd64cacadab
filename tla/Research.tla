------------------------------ MODULE Research ------------------------------
(***************************************************************************)
(* The research tasks of a run: what the detector of unknowns finds in the *)
(* metadata, the prompt, the specification and the context files, and how  *)
(* the coordinator queues, starts, completes and fails the tasks.  A task  *)
(* is a file of its own, tasks.jsonl logs what happened to it; an          *)
(* operation takes the lock, saves the task and logs the event.            *)
(*                                                                         *)
(* A snippet of text is <<word, case>>; snippets of one word differ in     *)
(* case only.  A line without a marker of DETECTION_PATTERNS is Plain.     *)
(***************************************************************************)
EXTENDS RunDirectory

CONSTANTS
    MaxAge,         \* max_age_hours of the results
    MaxTime,        \* bound on the clock, env.maxTime of each environment
    MaxTasks        \* bound on the tasks, env.maxTasks of each environment

IsList(s) == s \in Seq({s[i] : i \in DOMAIN s})

ASSUME ResearchAssumption ==
    /\ MaxAge \in Nat
    /\ \A e \in Environment :
        LET u == e.unknowns
        IN  /\ IsList(u.metadata) /\ IsList(u.manual) /\ IsList(u.prompt) /\ IsList(u.spec)
            /\ IsList(u.files) /\ \A i \in DOMAIN u.files : IsList(u.files[i].lines)
            /\ IsList(e.asked) /\ Len(e.asked) = 1
            /\ e.maxTime \in Nat

VARIABLES
    tasks,          \* research/tasks/<id>.json, in the order of their creation
    log,            \* the last event of each task in research/tasks.jsonl, reuse apart
    now,            \* Date.now()
    researcher      \* what each process is doing, with a coordinator of its own

researchVars == <<tasks, log, now, researcher>>

Plain == <<"plain", "any">>
Lower(snippet) == snippet[1]

Hint(title, objective, origin) == [title |-> title, objective |-> objective, origin |-> origin]

\* The numbers of a set in their order, and the first n of them.
Ascending(set) == [k \in 1..Cardinality(set) |-> CHOOSE i \in set : Cardinality({j \in set : j <= i}) = k]
First(n, set) == {i \in set : Cardinality({j \in set : j <= i}) <= n}

\* extractUnknownsFromMetadata, manualUnknownsToHints: entries without an objective are skipped.
EntryHints(entries, kind, origin) ==
    LET given == Ascending({i \in DOMAIN entries : entries[i].objective # Plain})
        hint(e) == Hint(IF e.title = "" THEN <<kind, e.objective>> ELSE <<e.title, Plain>>,
                        e.objective,
                        IF e.origin = "" THEN origin ELSE e.origin)
    IN  [k \in DOMAIN given |-> hint(entries[given[k]])]

\* extractUnknownsFromText: the first lines with a marker, each snippet once.
TextHints(lines, kind, origin, limit) ==
    LET first(i) == \A j \in 1..(i - 1) : Lower(lines[j]) # Lower(lines[i])
        marked == Ascending(First(limit, {i \in DOMAIN lines : lines[i] # Plain /\ first(i)}))
    IN  [k \in DOMAIN marked |-> Hint(<<kind, lines[marked[k]]>>, lines[marked[k]], origin)]

\* collectContextFileHints: the heaviest text files that can be read.
FileHints(files, maxFiles, limit) ==
    LET texts == {i \in DOMAIN files : files[i].text}
        before(i) == {j \in texts : files[j].weight > files[i].weight \/ (files[j].weight = files[i].weight /\ j < i)}
        scanned == {i \in texts : Cardinality(before(i)) < Seqs!Max({1, maxFiles}) /\ files[i].readable}
        places == Ascending({Cardinality(before(i)) : i \in scanned})
        at(k) == files[CHOOSE i \in scanned : Cardinality(before(i)) = places[k]]
    IN  Seqs!FoldLeft(\o, <<>>, [k \in DOMAIN places |-> TextHints(at(k).lines, "file", at(k).path, limit)])

Folded(hint) == <<hint.title[1], Lower(hint.title[2]), Lower(hint.objective), hint.origin>>

Unique(hints) ==
    LET first(i) == \A j \in 1..(i - 1) : Folded(hints[j]) # Folded(hints[i])
        kept == Ascending({i \in DOMAIN hints : first(i)})
    IN  [k \in DOMAIN kept |-> hints[kept[k]]]

\* The hints that detectUnknownsFromContext queues.
Detected(u) ==
    Unique(EntryHints(u.metadata, "metadata", "context-metadata")
        \o EntryHints(u.manual, "manual", "manual-input")
        \o TextHints(u.prompt, "prompt", "prompt", u.limit)
        \o TextHints(u.spec, "spec", "spec", u.limit)
        \o FileHints(u.files, u.maxFiles, u.limit))

\* generateCacheKey: the title is no part of it.
Key(hint) == <<hint.objective, hint.origin>>
-----------------------------------------------------------------------------
Resting == [at |-> "idle", todo |-> <<>>, force |-> FALSE, task |-> 0, event |-> "created",
            lastCreated |-> 0, made |-> {}]
Status == {"pending", "in_progress", "completed", "failed", "torn"}
ResearchInit ==
    /\ tasks = <<>> /\ log = <<>> /\ now = 1
    /\ researcher = [p \in Process |-> Resting]

MayResearch(p) ==
    /\ researcher[p].at = "idle"
    /\ "overlap" \in env.events \/ \A q \in Process : researcher[q].at = "idle"

Rests(p) == researcher' = [researcher EXCEPT ![p] = Resting]

\* The next hint of a detection, if there is one.
Continue(p) ==
    IF Len(researcher[p].todo) <= 1 THEN Rests(p)
    ELSE researcher' = [researcher EXCEPT ![p].at = "queue", ![p].todo = Tail(@)]

Queues(p, hints, force) ==
    /\ MayResearch(p) /\ hints # <<>>
    /\ env.orderly => ~force /\ \A t \in DOMAIN tasks : tasks[t].status = "completed"
    /\ researcher' = [researcher EXCEPT ![p] =
            [Resting EXCEPT !.at = "queue", !.todo = hints, !.force = force]]
    /\ UNCHANGED <<tasks, log, now, lock>>

\* detectUnknownsFromContext, unless autoDetectTasks is off; it holds no lock.
BeginDetection(p) == env.detects /\ Queues(p, Detected(env.unknowns), FALSE)

\* research create: one task of the user's words.
BeginCreate(p, force) == Queues(p, env.asked, force)

\* Mutant: a result on the limit of its age is stale.
FreshBefore(t, force) == tasks[t].found # 0 /\ ~force /\ now - tasks[t].found < MaxAge

\* isCachedTaskFresh: the status of the task does not count.
Fresh(t, force) == tasks[t].found # 0 /\ ~force /\ now - tasks[t].found <= MaxAge

\* findCachedTask: readdir lists the files in no particular order.
Candidates(key) == {t \in DOMAIN tasks : tasks[t].status # "torn" /\ tasks[t].key = key}

\* queueTask finds a task with fresh results, and logs that.
Reuse(p) ==
    /\ researcher[p].at = "queue"
    /\ Free
    /\ \E t \in Candidates(Key(Head(researcher[p].todo))) :
        Fresh(t, researcher[p].force)
    /\ Continue(p)
    /\ UNCHANGED <<tasks, log, now>>

\* queueTask finds no task, or first one without fresh results.
SaveNew(p) ==
    LET hint == Head(researcher[p].todo)
        found == Candidates(Key(hint))
        last == researcher[p].lastCreated
        created == IF now > last THEN now ELSE last + 1
    IN  /\ researcher[p].at = "queue" /\ Len(tasks) < env.maxTasks
        /\ Acquire(p)
        /\ found = {} \/ \E t \in found : ~Fresh(t, researcher[p].force)
        /\ tasks' = Append(tasks, [key |-> Key(hint), title |-> hint.title, status |-> "pending",
                                   found |-> 0, force |-> researcher[p].force,
                                   created |-> created])
        /\ log' = Append(log, "none")
        /\ researcher' = [researcher EXCEPT ![p].at = "log", ![p].task = Len(tasks'),
                                            ![p].event = "created", ![p].lastCreated = created,
                                            ![p].made = @ \cup {Len(tasks')}]
        /\ UNCHANGED now

Save(p, t, status, found, event) ==
    /\ MayResearch(p)
    /\ Acquire(p)
    /\ tasks' = [tasks EXCEPT ![t].status = status, ![t].found = found]
    /\ researcher' = [researcher EXCEPT ![p] = [Resting EXCEPT !.at = "log", !.task = t, !.event = event]]
    /\ UNCHANGED <<log, now>>

StartTask(p, t) ==
    /\ tasks[t].status = "pending"
    /\ Save(p, t, "in_progress", tasks[t].found, "started")

\* completeTask and failTask take a task in any status; a failed one keeps its results.
CompleteTask(p, t) ==
    /\ tasks[t].status # "torn"
    /\ "late" \in env.events \/ tasks[t].status = "in_progress"
    /\ Save(p, t, "completed", now, "completed")

FailTask(p, t) ==
    /\ tasks[t].status # "torn"
    /\ "late" \in env.events \/ tasks[t].status = "in_progress"
    /\ Save(p, t, "failed", tasks[t].found, "failed")

\* appendTaskLog
LogEvent(p) ==
    /\ researcher[p].at = "log"
    /\ Release(p)
    /\ log' = [log EXCEPT ![researcher[p].task] = researcher[p].event]
    /\ Continue(p)
    /\ UNCHANGED <<tasks, now>>

Tick ==
    /\ "time" \in env.events
    /\ now < env.maxTime
    /\ now' = now + 1
    /\ UNCHANGED <<tasks, log, researcher, lock>>

\* A process dies, and the task it was saving may be left torn.
CrashResearch(p) ==
    /\ "crash" \in env.events
    /\ researcher[p].at # "idle"
    /\ Rests(p) /\ Abandon(p)
    /\ \/ UNCHANGED tasks
       \/ /\ researcher[p].at = "log"
          /\ tasks' = [tasks EXCEPT ![researcher[p].task].status = "torn"]
    /\ UNCHANGED <<log, now>>

ResearchNext ==
    \/ \E p \in Process :
        \/ BeginDetection(p) \/ \E force \in BOOLEAN : BeginCreate(p, force)
        \/ Reuse(p) \/ SaveNew(p) \/ LogEvent(p) \/ CrashResearch(p)
        \/ \E t \in DOMAIN tasks : StartTask(p, t) \/ CompleteTask(p, t) \/ FailTask(p, t)
    \/ Tick
-----------------------------------------------------------------------------
\* listTasks: newest first, and in some order of their ids what is of one time; a file that does not parse is left out.
Listings(status) ==
    LET listed == {t \in DOMAIN tasks : tasks[t].status \in status}
    IN  {list \in [1..Cardinality(listed) -> listed] :
            \A i, j \in DOMAIN list : i < j =>
                list[i] # list[j] /\ tasks[list[i]].created >= tasks[list[j]].created}

StatusOf(event) ==
    CASE event = "created" -> "pending" [] event = "started" -> "in_progress" [] OTHER -> event

\* getDiagnostics, and the stale tasks of the status command.
Diagnostics(status) == Cardinality({t \in DOMAIN tasks : tasks[t].status = status})
StaleTasks == {t \in DOMAIN tasks : tasks[t].status = "completed" /\ ~Fresh(t, tasks[t].force)}

(***************************************************************************)
(* Whatever the processes do beside one another, and unless one died, the  *)
(* counts of research list are those the log tells whenever the lock is    *)
(* free.  (saveTask, appendTaskLog, getDiagnostics)                        *)
(***************************************************************************)
LogTellsStatus ==
    lock = Nobody /\ "crash" \notin env.events =>
        \A s \in Status :
            Diagnostics(s) = Cardinality({t \in DOMAIN tasks : StatusOf(log[t]) = s})

(***************************************************************************)
(* What one coordinator created is listed in the reverse order, however    *)
(* fast it creates and whatever lies between.                              *)
(* (normalizeTaskTimestamps, listTasks)                                    *)
(***************************************************************************)
ListedInOrder ==
    \A listed \in Listings(Status \ {"torn"}) :
        \A p \in Process : \A i, j \in DOMAIN listed :
            i < j /\ {listed[i], listed[j]} \subseteq researcher[p].made => listed[i] > listed[j]

(***************************************************************************)
(* As long as every task is finished before the next search and no result  *)
(* grows old, the same unknown is researched twice only if it was found    *)
(* under two titles, and no result is said to be stale: hints that differ  *)
(* in case, or that come back with the next detection, find the results.   *)
(* (detectUnknownsFromContext, queueTask)                                  *)
(***************************************************************************)
NoRepeatedWork ==
    env.events = {"time"} /\ env.orderly /\ env.maxTime <= MaxAge + 1 =>
        /\ StaleTasks = {}
        /\ \A t, u \in DOMAIN tasks :
                tasks[t].key = tasks[u].key /\ tasks[t].title = tasks[u].title => t = u

ResearchAgrees == LogTellsStatus /\ ListedInOrder /\ NoRepeatedWork

(***************************************************************************)
(* A task is created only if no task with the same key has fresh results.  *)
(* (src/src/workflows/researchCoordinator.ts, the comment of queueTask)    *)
(***************************************************************************)
FreshIsReused ==
    [][\A p \in Process :
        SaveNew(p) => \A t \in Candidates(Key(Head(researcher[p].todo))) : ~Fresh(t, researcher[p].force)]_researchVars
=============================================================================
