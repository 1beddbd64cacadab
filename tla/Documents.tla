------------------------------ MODULE Documents ------------------------------
(***************************************************************************)
(* The documents of a run and what is derived from what: the PRD, the      *)
(* specification composed from it, the plan made of the specification, and *)
(* the trace map over all three.  A document is a file and a metadata file *)
(* that says its hash, whether it is approved and what it was made of; an  *)
(* approval is a file of its own, and approvals.json lists them all.       *)
(*                                                                         *)
(* Writers take the lock of the run, readers never do: a composition, a    *)
(* plan or a trace map is a sequence of reads that others may write        *)
(* between, and a last section that writes.  The content of a file is its  *)
(* version, which is its hash too.                                         *)
(***************************************************************************)
EXTENDS RunDirectory, TaskGraph

CONSTANTS
    MaxVersion,     \* no draft, composition or plan begins when there are env.versions already,
                    \* at most this many; those under way and edits may take it to twice as many
    MaxRecords      \* bound on the approval records

VARIABLES
    file,           \* the version in prd.md and in spec.md; 0 without one
    meta,           \* prd_metadata.json and spec_metadata.json
    json,           \* the version of the specification in spec.json
    drafts,         \* versions of the PRD so far
    source,         \* of each version of the specification, what it was made of
    records,        \* the files APR-<id>.json
    index,          \* approvals.json
    plan,           \* plan.json
    planMeta,       \* plan_metadata.json
    plans,          \* plans made so far
    trace,          \* trace.json
    traced,         \* how the last trace map ended
    author          \* what each process is doing

documents == <<file, meta, json, drafts, source, records, index, plan, planMeta, plans, trace, traced>>
documentVars == <<documents, author>>

Gate == {"prd", "spec"}
Verdict == {"approved", "rejected", "changes_requested"}
NoDocument == [status |-> "none", hash |-> 0, approvals |-> {}, cited |-> 0]
NoPlan == [state |-> "none", checksum |-> 0, from |-> 0]
NoTrace == [state |-> "none", prd |-> 0, spec |-> 0, tasks |-> 0]
Idle == [at |-> "idle", gate |-> "prd", verdict |-> "approved", hash |-> 0, cited |-> 0, from |-> 0]

DocumentsInit ==
    /\ file = [g \in Gate |-> 0]
    /\ meta = [g \in Gate |-> NoDocument]
    /\ json = 0 /\ drafts = 0 /\ plans = 0
    /\ source = <<>> /\ records = <<>>
    /\ index = [state |-> "none", ids |-> {}]
    /\ plan = NoPlan
    /\ planMeta = [state |-> "none", checksum |-> 0, spec |-> 0]
    /\ trace = NoTrace /\ traced = "none"
    /\ author = [p \in Process |-> Idle]

\* No two commands run at once unless the environment says so.
MayBegin(p, command) ==
    /\ command \in env.commands
    /\ author[p].at = "idle"
    /\ "overlap" \in env.events \/ \A q \in Process : author[q].at = "idle"

Goes(p, from, to) ==
    /\ author[p].at = from
    /\ author' = [author EXCEPT ![p].at = to]

\* A job that ends, or that throws.
Ends(p) == author' = [author EXCEPT ![p] = Idle]
-----------------------------------------------------------------------------
(***************************************************************************)
(* draftPRD: prd.md, its hash, and metadata that asks for approval.        *)
(***************************************************************************)
BeginDraft(p) ==
    /\ MayBegin(p, "draft") /\ drafts < env.versions
    /\ Goes(p, "idle", "draft")
    /\ UNCHANGED <<documents, lock>>

WritePrd(p) ==
    /\ Goes(p, "draft", "hash") /\ drafts < 2 * env.versions
    /\ Free
    /\ drafts' = drafts + 1
    /\ file' = [file EXCEPT !["prd"] = drafts']
    /\ UNCHANGED <<meta, json, source, records, index, plan, planMeta, plans, trace, traced>>

\* computeFileHash of what is on disk by now, outside the lock.
HashDocument(p) ==
    /\ author[p].at = "hash"
    /\ author' = [author EXCEPT ![p].at = "metadata", ![p].hash = file[author[p].gate]]
    /\ UNCHANGED <<documents, lock>>

WriteMetadata(p) ==
    /\ author[p].at = "metadata"
    /\ Free
    /\ meta' = [meta EXCEPT ![author[p].gate] =
                    [status |-> "pending", hash |-> author[p].hash, approvals |-> {},
                     cited |-> author[p].cited]]
    /\ Ends(p)
    /\ UNCHANGED <<file, json, drafts, source, records, index, plan, planMeta, plans, trace, traced>>
-----------------------------------------------------------------------------
(***************************************************************************)
(* composeSpecification.  The metadata is read twice and prd.md is read    *)
(* without a look at its hash.                                             *)
(***************************************************************************)
\* isPRDApproved
BeginCompose(p) ==
    /\ MayBegin(p, "compose") /\ Len(source) < env.versions
    /\ meta["prd"].status = "approved"
    /\ Goes(p, "idle", "load")
    /\ UNCHANGED <<documents, lock>>

Readable(g) == meta[g].status \notin {"none", "torn"}

LoadPrd(p) ==
    /\ author[p].at = "load"
    /\ IF Readable("prd")
       THEN author' = [author EXCEPT ![p].at = "read", ![p].cited = meta["prd"].hash]
       ELSE Ends(p)
    /\ UNCHANGED <<documents, lock>>

ReadPrd(p) ==
    /\ author[p].at = "read"
    /\ author' = [author EXCEPT ![p].at = "compose", ![p].from = file["prd"]]
    /\ UNCHANGED <<documents, lock>>

\* writeSpecFiles: spec.md, then spec.json, under one lock.
WriteSpec(p) ==
    /\ author[p].at = "compose" /\ Len(source) < 2 * env.versions
    /\ Acquire(p)
    /\ source' = Append(source, [from |-> author[p].from, cited |-> author[p].cited])
    /\ file' = [file EXCEPT !["spec"] = Len(source')]
    /\ author' = [author EXCEPT ![p].at = "json", ![p].hash = Len(source')]
    /\ UNCHANGED <<meta, json, drafts, records, index, plan, planMeta, plans, trace, traced>>

WriteSpecJson(p) ==
    /\ author[p].at = "json"
    /\ Release(p)
    /\ json' = author[p].hash
    /\ author' = [author EXCEPT ![p].at = "hash", ![p].gate = "spec"]
    /\ UNCHANGED <<file, meta, drafts, source, records, index, plan, planMeta, plans, trace, traced>>
-----------------------------------------------------------------------------
(***************************************************************************)
(* recordPRDApproval and recordSpecApproval: three files under one lock.   *)
(* The hash of spec.md is compared, that of spec.json is not.              *)
(***************************************************************************)
\* Mutant: the decision is recorded whatever the hash of the document.
HashAgreesAlways(g) == Readable(g)

HashAgrees(g) == Readable(g) /\ file[g] = meta[g].hash

WriteRecord(p, g, verdict) ==
    /\ MayBegin(p, "decide") /\ Len(records) < MaxRecords
    /\ verdict # "approved" => "deny" \in env.events
    /\ HashAgrees(g)
    /\ Acquire(p)
    /\ records' = Append(records, [gate |-> g, hash |-> file[g], verdict |-> verdict])
    /\ author' = [author EXCEPT ![p] = [Idle EXCEPT !.at = "decided", !.gate = g, !.verdict = verdict,
                                                    !.from = Len(records')]]
    /\ UNCHANGED <<file, meta, json, drafts, source, index, plan, planMeta, plans, trace, traced>>

UpdateMetadata(p) ==
    /\ Goes(p, "decided", "index")
    /\ LET a == author[p]
       IN  meta' = [meta EXCEPT ![a.gate].status = a.verdict, ![a.gate].approvals = @ \cup {a.from}]
    /\ UNCHANGED <<file, json, drafts, source, records, index, plan, planMeta, plans, trace, traced,
                   lock>>

\* An index that does not parse is kept by the PRD's store and replaced by the specification's.
Indexed(g, id) ==
    CASE index.state = "torn" /\ g = "prd" -> index
      [] index.state = "torn" /\ g = "spec" -> [state |-> "ok", ids |-> {id}]
      [] OTHER -> [state |-> "ok", ids |-> index.ids \cup {id}]

UpdateIndex(p) ==
    /\ author[p].at = "index"
    /\ Release(p)
    /\ index' = Indexed(author[p].gate, author[p].from)
    /\ Ends(p)
    /\ UNCHANGED <<file, meta, json, drafts, source, records, plan, planMeta, plans, trace, traced>>
-----------------------------------------------------------------------------
(***************************************************************************)
(* generateExecutionPlan.  A plan.json that is there is returned unless a  *)
(* new one is forced; one that does not parse counts as missing.           *)
(***************************************************************************)
BeginPlan(p, force) ==
    /\ MayBegin(p, "plan") /\ plans < env.versions
    /\ force \/ plan.state # "ok"
    /\ Goes(p, "idle", "plan")
    /\ UNCHANGED <<documents, lock>>

\* loadAndValidateSpec
LoadSpec(p) ==
    /\ author[p].at = "plan"
    /\ IF meta["spec"].status = "approved"
       THEN author' = [author EXCEPT ![p].at = "requirements", ![p].hash = meta["spec"].hash]
       ELSE Ends(p)
    /\ UNCHANGED <<documents, lock>>

\* extractSpecRequirements: nothing of a file that is missing or does not parse.
RequirementsOf(version) == IF version = 0 THEN <<>> ELSE env.requirements

ReadRequirements(p) ==
    /\ author[p].at = "requirements"
    /\ IF Valid(Graph(RequirementsOf(json)))
       THEN author' = [author EXCEPT ![p].at = "store", ![p].from = json]
       ELSE Ends(p)
    /\ UNCHANGED <<documents, lock>>

\* persistPlan: plan.json with its checksum, then plan_metadata.json, under one lock.
WritePlan(p) ==
    /\ Goes(p, "store", "planMetadata") /\ plans < 2 * env.versions
    /\ Acquire(p)
    /\ plans' = plans + 1
    /\ plan' = [state |-> "ok", checksum |-> plans', from |-> author[p].from]
    /\ UNCHANGED <<file, meta, json, drafts, source, records, index, planMeta, trace, traced>>

WritePlanMetadata(p) ==
    /\ author[p].at = "planMetadata"
    /\ Release(p)
    /\ planMeta' = [state |-> "ok", checksum |-> plans, spec |-> author[p].hash]
    /\ Ends(p)
    /\ UNCHANGED <<file, meta, json, drafts, source, records, index, plan, plans, trace, traced>>

\* Mutant: the specification is taken for unchanged as long as there is one.
HasChangesOfPlan ==
    \/ planMeta.state # "ok" \/ ~Readable("spec")
    \/ plan.state # "ok" \/ plan.checksum # planMeta.checksum

\* comparePlanDiff: the checksum is the one that plan.json states of itself.
HasChanges ==
    \/ planMeta.state # "ok" \/ ~Readable("spec")
    \/ planMeta.spec # meta["spec"].hash
    \/ plan.state # "ok" \/ plan.checksum # planMeta.checksum
-----------------------------------------------------------------------------
(***************************************************************************)
(* generateTraceMap, as approve calls it: trace.json is replaced.          *)
(***************************************************************************)
BeginTrace(p) ==
    /\ MayBegin(p, "trace")
    /\ meta["prd"].status = "approved"
    /\ author' = [author EXCEPT ![p].at = "trace", ![p].cited = meta["prd"].hash]
    /\ UNCHANGED <<documents, lock>>

TraceSpec(p) ==
    /\ author[p].at = "trace"
    /\ IF meta["spec"].status = "approved"
       THEN author' = [author EXCEPT ![p].at = "links", ![p].hash = meta["spec"].hash]
       ELSE Ends(p)
    /\ UNCHANGED <<documents, lock>>

\* extractExecutionTasks: the tasks of plan.json have a title and no description.
TasksOfPlan == IF plan.state = "ok" THEN Len(RequirementsOf(plan.from)) ELSE 0

\* generateSpecToTaskLinks takes a substring of the description of each task.
Links(p) ==
    /\ author[p].at = "links"
    /\ IF TasksOfPlan > 0 /\ RequirementsOf(json) # <<>>
       THEN Ends(p) /\ traced' = "thrown"
       ELSE author' = [author EXCEPT ![p].at = "traceMap"] /\ UNCHANGED traced
    /\ UNCHANGED <<file, meta, json, drafts, source, records, index, plan, planMeta, plans, trace,
                   lock>>

WriteTrace(p) ==
    /\ author[p].at = "traceMap"
    /\ Free
    /\ trace' = [state |-> "ok", prd |-> author[p].cited, spec |-> author[p].hash, tasks |-> 0]
    /\ traced' = "written"
    /\ Ends(p)
    /\ UNCHANGED <<file, meta, json, drafts, source, records, index, plan, planMeta, plans>>
-----------------------------------------------------------------------------
(***************************************************************************)
(* The environment.                                                        *)
(***************************************************************************)
Edit(g) ==
    /\ "edit" \in env.events
    /\ file[g] > 0
    /\ IF g = "prd"
       THEN /\ drafts < 2 * env.versions
            /\ drafts' = drafts + 1
            /\ file' = [file EXCEPT ![g] = drafts']
            /\ UNCHANGED source
       ELSE /\ Len(source) < 2 * env.versions
            /\ source' = Append(source, source[file[g]])
            /\ file' = [file EXCEPT ![g] = Len(source')]
            /\ UNCHANGED drafts
    /\ UNCHANGED <<meta, json, records, index, plan, planMeta, plans, trace, traced, author, lock>>

\* A process dies, and the file it was writing may be left torn.
Die(p) ==
    /\ "crash" \in env.events
    /\ author[p].at # "idle"
    /\ Ends(p) /\ Abandon(p)

Torn(p, stage) == author[p].at = stage /\ MayWrite(p)

CrashAuthor(p) ==
    /\ Die(p)
    /\ \/ UNCHANGED documents
       \/ /\ Torn(p, "metadata") \/ Torn(p, "decided")
          /\ meta' = [meta EXCEPT ![author[p].gate].status = "torn"]
          /\ UNCHANGED <<file, json, drafts, source, records, index, plan, planMeta, plans, trace, traced>>
       \/ /\ Torn(p, "json") /\ json' = 0
          /\ UNCHANGED <<file, meta, drafts, source, records, index, plan, planMeta, plans, trace, traced>>
       \/ /\ Torn(p, "index") /\ index' = [index EXCEPT !.state = "torn"]
          /\ UNCHANGED <<file, meta, json, drafts, source, records, plan, planMeta, plans, trace, traced>>
       \/ /\ Torn(p, "store") /\ plan' = [plan EXCEPT !.state = "torn"]
          /\ UNCHANGED <<file, meta, json, drafts, source, records, index, planMeta, plans, trace, traced>>
       \/ /\ Torn(p, "planMetadata") /\ planMeta' = [planMeta EXCEPT !.state = "torn"]
          /\ UNCHANGED <<file, meta, json, drafts, source, records, index, plan, plans, trace, traced>>
       \/ /\ Torn(p, "traceMap") /\ trace' = [trace EXCEPT !.state = "torn"]
          /\ UNCHANGED <<file, meta, json, drafts, source, records, index, plan, planMeta, plans, traced>>

Author(p) ==
    \/ BeginDraft(p) \/ WritePrd(p) \/ HashDocument(p) \/ WriteMetadata(p)
    \/ BeginCompose(p) \/ LoadPrd(p) \/ ReadPrd(p) \/ WriteSpec(p) \/ WriteSpecJson(p)
    \/ \E g \in Gate, v \in Verdict : WriteRecord(p, g, v)
    \/ UpdateMetadata(p) \/ UpdateIndex(p)
    \/ \E force \in BOOLEAN : BeginPlan(p, force)
    \/ LoadSpec(p) \/ ReadRequirements(p) \/ WritePlan(p) \/ WritePlanMetadata(p)
    \/ BeginTrace(p) \/ TraceSpec(p) \/ Links(p) \/ WriteTrace(p)
    \/ CrashAuthor(p)

DocumentsNext == (\E p \in Process : Author(p)) \/ (\E g \in Gate : Edit(g))
-----------------------------------------------------------------------------
Approved(g, hash) ==
    \E i \in DOMAIN records : records[i] = [gate |-> g, hash |-> hash, verdict |-> "approved"]

Quiet == \A p \in Process : author[p].at = "idle"

(***************************************************************************)
(* A document is said to be approved only if an approval on disk is for    *)
(* the hash that its metadata states, whoever writes beside the decision   *)
(* and wherever a process dies; and approvals.json misses no decision      *)
(* unless a process died.  (recordPRDApproval, recordSpecApproval)         *)
(***************************************************************************)
ApprovedHash ==
    \A g \in Gate : meta[g].status = "approved" =>
        \E i \in meta[g].approvals :
            records[i] = [gate |-> g, hash |-> meta[g].hash, verdict |-> "approved"]

IndexComplete == Quiet /\ "crash" \notin env.events => index.ids = DOMAIN records

ApprovalsAgree == ApprovedHash /\ IndexComplete

(***************************************************************************)
(* A plan is made of a specification that was approved, and without        *)
(* another author, an edit or a crash in between that specification is     *)
(* made of the PRD that was approved.                                      *)
(* (generateExecutionPlan, composeSpecification)                           *)
(***************************************************************************)
PlanOfApproved == planMeta.state # "none" => planMeta.spec = 0 \/ Approved("spec", planMeta.spec)

SpecOfApproved ==
    env.events \cap {"overlap", "edit", "crash"} = {} =>
        \A i \in DOMAIN source : source[i].from = source[i].cited /\ Approved("prd", source[i].cited)

ChainOfApproval == PlanOfApproved /\ SpecOfApproved

(***************************************************************************)
(* When nobody is at work, the metadata states the hash of spec.md and the *)
(* diff of the plan reports no change, the plan was made of the            *)
(* requirements of that very specification, however compositions,          *)
(* decisions and plans were interleaved; crashes and edits excepted, since *)
(* spec.json is covered by no hash.  Metadata that a slower composition    *)
(* left behind the file are not looked at by the diff.  (comparePlanDiff)  *)
(***************************************************************************)
NoChangeMeansCurrent ==
    Quiet /\ file["spec"] = meta["spec"].hash /\ ~HasChanges /\ env.events \cap {"crash", "edit"} = {} =>
        plan.from = meta["spec"].hash /\ json = meta["spec"].hash

PlanFollows == ChainOfApproval /\ NoChangeMeansCurrent

(***************************************************************************)
(* What the planner accepts can be executed: validateDAG accepts a graph   *)
(* exactly if no set of its tasks waits for itself, and then Kahn's order  *)
(* has every task once, after all it waits for, at the depth of its        *)
(* longest chain.  (validateDAG, computeTopologicalOrder)                  *)
(***************************************************************************)
PlanOrder ==
    env.part = "planning" =>
    LET graph == Graph(env.requirements)
        order == TopologicalOrder(graph)
        depth == Depths(graph)
    IN  /\ Valid(graph) <=> Acyclic(graph)
        /\ Valid(graph) =>
            /\ Len(order) = Cardinality(DOMAIN graph)
            /\ \A i, j \in DOMAIN order : order[j] \in graph[order[i]] => j < i
            /\ \A t \in DOMAIN graph : depth[t] = LongestChain(graph, t)

(***************************************************************************)
(* A trace map can be made once there is a plan.                           *)
(* (src/docs/playbooks/traceability_playbook.md; generateTraceMap)         *)
(***************************************************************************)
TraceMapFollowsPlan == traced # "thrown"
=============================================================================
