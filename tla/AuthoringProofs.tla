-------------------------- MODULE AuthoringProofs --------------------------
(***************************************************************************)
(* Theorems about Authoring.tla, for all processes and environments.       *)
(*                                                                         *)
(* The documents: a decision is three files under one lock, a              *)
(* specification and a plan are two, and every reader goes without it.     *)
(* What a reader found is kept in its job until it writes, so the          *)
(* invariant ties each job to what the documents still say of it: the      *)
(* approval it saw is on disk for good (records are only added), the       *)
(* metadata it is about to write were hashed from this very file, the      *)
(* requirements it planned are no newer than spec.json.                    *)
(*                                                                         *)
(* The context: summary.json is written back long after it was read, and   *)
(* only persisting takes the lock, so the invariant says of every worker   *)
(* what it has read (still what is there), and, of each file of its        *)
(* document, that it is still on its list or has all its summaries; the    *)
(* hashes of the two files agree for as long as nobody is between them.    *)
(*                                                                         *)
(* The research tasks: the log is only appended to and written ahead of    *)
(* the tasks, so the invariant ties a task to the newest event about it,   *)
(* and what a searcher has in memory to the events it has read; the folds  *)
(* of the detection are unfolded once and for all into what they list.     *)
(*                                                                         *)
(* The child processes: an outcome is a function of what happened to the   *)
(* child, so the invariant follows a job through it; the lines of its log  *)
(* stand in the order of their numbers over all the files of the rotation, *)
(* and the places they can be in are disjoint.                             *)
(*                                                                         *)
(* The issue: what is replaced on Linear is replaced for good, so a        *)
(* version that was there when it was fetched was replaced no earlier;     *)
(* unless an operation is slow, what it fetched is of this hour until it   *)
(* returns.  The cache says when its versions were fetched.                *)
(*                                                                         *)
(* Validation: the ledger and the tree are shared, what a call has done is *)
(* in its memory.  The invariant says what of it the ledger and the tree   *)
(* bear out, and counts the attempts that the calls may still add.         *)
(***************************************************************************)
EXTENDS Authoring, FiniteSetTheorems, SequenceTheorems, TLAPS

-----------------------------------------------------------------------------
(* Documents.tla *)

Holding == {"json", "decided", "index", "planMetadata"}
Stage == Holding \cup {"idle", "draft", "hash", "metadata", "load", "read", "compose", "plan", "requirements", "store",
                       "trace", "links", "traceMap"}
Job == [at : Stage, gate : Gate, verdict : Verdict, hash : Nat, cited : Nat, from : Nat]

DocumentsTyped ==
    /\ file \in [Gate -> Nat]
    /\ meta \in [Gate -> [status : Verdict \cup {"none", "pending", "torn"}, hash : Nat, approvals : SUBSET Nat, cited : Nat]]
    /\ json \in Nat /\ drafts \in Nat /\ plans \in Nat
    /\ source \in Seq([from : Nat, cited : Nat])
    /\ records \in Seq([gate : Gate, hash : Nat, verdict : Verdict])
    /\ index \in [state : {"none", "ok", "torn"}, ids : SUBSET Nat]
    /\ plan \in [state : {"none", "ok", "torn"}, checksum : Nat, from : Nat]
    /\ planMeta \in [state : {"none", "ok", "torn"}, checksum : Nat, spec : Nat]
    /\ author \in [Process -> Job]
    /\ file["spec"] <= Len(source)

\* Whoever writes several files holds the lock, and other parts have no author.
LockHeld ==
    /\ \A p \in Process : author[p].at \in Holding => lock = p
    /\ \A p \in Process : author[p].at = "idle" => author[p] = Idle
    /\ env.part # "documents" => \A p \in Process : author[p].at = "idle"

\* A decision between its record and the metadata is about the hash the metadata still state.
Decided ==
    /\ \A p \in Process : author[p].at = "decided" =>
            /\ author[p].from \in DOMAIN records
            /\ records[author[p].from] =
                    [gate |-> author[p].gate, hash |-> meta[author[p].gate].hash, verdict |-> author[p].verdict]
    /\ \A gate \in Gate : meta[gate].approvals \subseteq DOMAIN records
    /\ ApprovedHash

\* Between its record and its place in the index a decision is the one that is missing.
IndexFollows ==
    "crash" \notin env.events =>
        /\ index.state # "torn"
        /\ \A p \in Process : author[p].at \in {"decided", "index"} => DOMAIN records = index.ids \cup {author[p].from}
        /\ (\A p \in Process : author[p].at \notin {"decided", "index"}) => DOMAIN records = index.ids

\* The specification that a planner found approved was approved for good.
PlansApproved ==
    /\ \A p \in Process : author[p].at \in {"requirements", "store", "planMetadata"} => Approved("spec", author[p].hash)
    /\ planMeta.spec = 0 \/ Approved("spec", planMeta.spec)

\* While commands follow one another.
SpecsApproved ==
    env.events \cap {"overlap", "edit", "crash"} = {} =>
        /\ \A p, q \in Process : author[p].at # "idle" /\ author[q].at # "idle" => p = q
        /\ \A p \in Process :
            LET a == author[p]
            IN  /\ a.at \in {"load", "read"} => meta["prd"].status = "approved"
                /\ a.at = "read" => a.cited = meta["prd"].hash
                /\ a.at = "compose" => a.from = a.cited /\ Approved("prd", a.cited)
                /\ a.at = "draft" => a.gate = "prd"
                /\ a.at = "metadata" /\ a.gate = "prd" => a.hash = file["prd"]
        /\ (\A p \in Process : ~(author[p].at \in {"hash", "metadata"} /\ author[p].gate = "prd")) =>
                meta["prd"].hash = file["prd"]
        /\ \A i \in DOMAIN source : source[i].from = source[i].cited /\ Approved("prd", source[i].cited)

\* While nobody dies and nobody edits, versions only grow.
VersionsGrow ==
    env.events \cap {"crash", "edit"} = {} =>
        /\ file["spec"] = Len(source) /\ json <= Len(source)
        /\ (\A p \in Process : author[p].at # "json") => json = Len(source)
        /\ meta["spec"].hash <= json
        /\ plan.checksum <= plans /\ planMeta.checksum <= plans
        /\ planMeta.state = "ok" /\ plan.state = "ok" /\ planMeta.checksum = plan.checksum =>
                planMeta.spec <= plan.from /\ plan.from <= json
        /\ \A p \in Process :
            LET a == author[p]
            IN  /\ a.at = "json" => a.hash = Len(source)
                /\ a.at = "metadata" /\ a.gate = "spec" => a.hash <= Len(source)
                /\ a.at = "requirements" => a.hash <= json
                /\ a.at \in {"store", "planMetadata"} => a.hash <= a.from /\ a.from <= json
                /\ a.at = "planMetadata" => plan.checksum = plans /\ plan.from = a.from

DocumentsInv ==
    /\ DocumentsTyped /\ LockHeld /\ Decided /\ IndexFollows /\ PlansApproved /\ SpecsApproved /\ VersionsGrow

-----------------------------------------------------------------------------
LEMMA DocumentsStart == Init => DocumentsInv
<1> SUFFICES ASSUME Init PROVE DocumentsInv
  OBVIOUS
<1>1. /\ file = [g \in Gate |-> 0] /\ meta = [g \in Gate |-> NoDocument]
      /\ json = 0 /\ drafts = 0 /\ plans = 0 /\ source = <<>> /\ records = <<>>
      /\ index = [state |-> "none", ids |-> {}] /\ plan = NoPlan
      /\ planMeta = [state |-> "none", checksum |-> 0, spec |-> 0]
      /\ author = [p \in Process |-> Idle]
  BY DEF Init, DocumentsInit
<1>2. Idle \in Job /\ Idle.at = "idle"
  BY DEF Idle, Job, Stage, Holding, Gate, Verdict
<1>3. \A p \in Process : author[p] = Idle
  BY <1>1
<1>4. DocumentsTyped
  <2>1. author \in [Process -> Job]
    BY <1>1, <1>2
  <2>2. plan \in [state : {"none", "ok", "torn"}, checksum : Nat, from : Nat]
    BY <1>1 DEF NoPlan
  <2>3. NoDocument \in [status : Verdict \cup {"none", "pending", "torn"}, hash : Nat, approvals : SUBSET Nat, cited : Nat]
    BY DEF NoDocument
  <2>4. meta \in [Gate -> [status : Verdict \cup {"none", "pending", "torn"}, hash : Nat, approvals : SUBSET Nat, cited : Nat]]
    BY <1>1, <2>3
  <2>5. file["spec"] = 0 /\ Len(source) = 0
    BY <1>1 DEF Gate
  <2> QED BY <1>1, <2>1, <2>2, <2>4, <2>5 DEF DocumentsTyped
<1>5. LockHeld
  BY <1>2, <1>3 DEF LockHeld, Holding
<1>6. Decided
  BY <1>1, <1>2, <1>3 DEF Decided, ApprovedHash, NoDocument
<1>7. IndexFollows
  BY <1>1, <1>2, <1>3 DEF IndexFollows
<1>8. PlansApproved
  BY <1>1, <1>2, <1>3 DEF PlansApproved
<1>9. SpecsApproved
  BY <1>1, <1>2, <1>3 DEF SpecsApproved, NoDocument, Gate
<1>10. VersionsGrow
  BY <1>1, <1>2, <1>3 DEF VersionsGrow, NoDocument, NoPlan, Gate
<1> QED BY <1>4, <1>5, <1>6, <1>7, <1>8, <1>9, <1>10 DEF DocumentsInv

-----------------------------------------------------------------------------
\* One process goes on, the others stay.
LEMMA Moved ==
    ASSUME DocumentsTyped, NEW p \in Process, NEW j \in Job, author' = [author EXCEPT ![p] = j]
    PROVE  author' \in [Process -> Job] /\ author'[p] = j /\ \A q \in Process : q # p => author'[q] = author[q]
BY DEF DocumentsTyped

\* Approvals on disk stay: a record is only ever added.
LEMMA RecordsStay ==
    ASSUME DocumentsTyped, NEW r \in [gate : Gate, hash : Nat, verdict : Verdict], records' = Append(records, r)
    PROVE  /\ records' \in Seq([gate : Gate, hash : Nat, verdict : Verdict])
           /\ Len(records') = Len(records) + 1 /\ records'[Len(records')] = r
           /\ DOMAIN records' = DOMAIN records \cup {Len(records')}
           /\ \A i \in DOMAIN records : records'[i] = records[i]
           /\ \A gate, hash : Approved(gate, hash) => Approved(gate, hash)'
<1>1. records \in Seq([gate : Gate, hash : Nat, verdict : Verdict])
  BY DEF DocumentsTyped
<1>2. /\ records' \in Seq([gate : Gate, hash : Nat, verdict : Verdict])
      /\ Len(records') = Len(records) + 1 /\ records'[Len(records')] = r /\ Len(records) \in Nat
      /\ \A i \in 1..Len(records) : records'[i] = records[i]
  BY <1>1
<1>3. DOMAIN records' = 1..(Len(records) + 1) /\ DOMAIN records = 1..Len(records)
  BY <1>1, <1>2
<1>4. 1..(Len(records) + 1) = (1..Len(records)) \cup {Len(records) + 1}
  BY <1>2
<1>5. \A gate, hash : Approved(gate, hash) => Approved(gate, hash)'
  BY <1>2, <1>3, <1>4 DEF Approved
<1> QED BY <1>2, <1>3, <1>4, <1>5

\* What the parts of the invariant read.
kept == <<file, meta, json, drafts, source, records, index, plan, planMeta, plans>>

\* The environments of SpecsApproved and of VersionsGrow.
Orderly == env.events \cap {"overlap", "edit", "crash"} = {}
Undisturbed == env.events \cap {"crash", "edit"} = {}

\* A process goes on to what it may do next, and no document changes.
LEMMA WalkStep ==
    ASSUME DocumentsInv, UNCHANGED <<kept, env>>, lock' = lock, env.part = "documents",
           NEW p \in Process, NEW j \in Job, author' = [author EXCEPT ![p] = j],
           author[p].at \notin Holding, j.at \notin Holding,
           j.at = "idle" => j = Idle,
           j.at \in {"requirements", "store"} => Approved("spec", j.hash),
           Orderly =>
                /\ author[p].at # "idle" \/ \A q \in Process : author[q].at = "idle"
                /\ j.at \in {"load", "read"} => meta["prd"].status = "approved"
                /\ j.at = "read" => j.cited = meta["prd"].hash
                /\ j.at = "compose" => j.from = j.cited /\ Approved("prd", j.cited)
                /\ j.at = "draft" => j.gate = "prd"
                /\ j.at = "metadata" /\ j.gate = "prd" => j.hash = file["prd"]
                /\ author[p].at \in {"hash", "metadata"} /\ author[p].gate = "prd" =>
                        j.at \in {"hash", "metadata"} /\ j.gate = "prd",
           Undisturbed =>
                /\ j.at = "metadata" /\ j.gate = "spec" => j.hash <= Len(source)
                /\ j.at = "requirements" => j.hash <= json
                /\ j.at = "store" => j.hash <= j.from /\ j.from <= json
    PROVE  DocumentsInv'
<1>1. /\ DocumentsTyped /\ LockHeld /\ Decided /\ IndexFollows
      /\ PlansApproved /\ SpecsApproved /\ VersionsGrow
  BY DEF DocumentsInv
<1>2. author' \in [Process -> Job] /\ author'[p] = j /\ \A q \in Process : q # p => author'[q] = author[q]
  BY <1>1, Moved
<1>3. /\ file' = file /\ meta' = meta /\ json' = json /\ drafts' = drafts /\ source' = source /\ records' = records
      /\ index' = index /\ plan' = plan /\ planMeta' = planMeta /\ plans' = plans /\ env' = env
  BY DEF kept
<1>4. \A gate, hash : Approved(gate, hash)' <=> Approved(gate, hash)
  BY <1>3 DEF Approved
<1>5. DocumentsTyped'
  BY <1>1, <1>2, <1>3 DEF DocumentsTyped
<1>6. LockHeld'
  BY <1>1, <1>2, <1>3 DEF LockHeld
<1>7. Decided'
  BY <1>1, <1>2, <1>3 DEF Decided, ApprovedHash, Holding
<1>8. IndexFollows'
  BY <1>1, <1>2, <1>3 DEF IndexFollows, Holding
<1>9. PlansApproved'
  BY <1>1, <1>2, <1>3, <1>4 DEF PlansApproved, Holding
<1>10. SpecsApproved'
  BY <1>1, <1>2, <1>3, <1>4 DEF SpecsApproved, Orderly
<1>11. VersionsGrow'
  BY <1>1, <1>2, <1>3 DEF VersionsGrow, Undisturbed, Holding
<1> QED BY <1>5, <1>6, <1>7, <1>8, <1>9, <1>10, <1>11 DEF DocumentsInv

\* The steps that read, or that begin and end a job.
LEMMA ReadingSteps ==
    ASSUME DocumentsInv, env' = env, env.part = "documents", NEW p \in Process,
           \/ BeginDraft(p) \/ HashDocument(p) \/ BeginCompose(p) \/ LoadPrd(p) \/ ReadPrd(p)
           \/ \E force \in BOOLEAN : BeginPlan(p, force)
           \/ LoadSpec(p) \/ ReadRequirements(p) \/ BeginTrace(p) \/ TraceSpec(p) \/ Links(p) \/ WriteTrace(p)
    PROVE  DocumentsInv'
<1> DEFINE a == author[p]
<1>1. /\ DocumentsTyped /\ LockHeld /\ Decided /\ IndexFollows
      /\ PlansApproved /\ SpecsApproved /\ VersionsGrow
  BY DEF DocumentsInv
<1>2. /\ a \in Job /\ author \in [Process -> Job]
      /\ file \in [Gate -> Nat] /\ json \in Nat /\ Len(source) \in Nat /\ file["spec"] <= Len(source)
      /\ meta["prd"].hash \in Nat /\ meta["spec"].hash \in Nat
  BY <1>1 DEF DocumentsTyped, Gate
<1>3. Idle \in Job /\ Idle.at = "idle"
  BY DEF Idle, Job, Stage, Holding, Gate, Verdict
<1>4. a.at = "idle" => a = Idle
  BY <1>1 DEF LockHeld
<1>5. (\E q \in Process : author[q].at # "idle") \/ \A q \in Process : author[q].at = "idle"
  OBVIOUS
\* An idle process that begins.
<1>6. ASSUME NEW command, MayBegin(p, command)
      PROVE  /\ a = Idle /\ a.at = "idle"
             /\ Orderly => \A q \in Process : author[q].at = "idle"
  BY <1>4, <1>6 DEF MayBegin, Orderly
\* A process that leaves its job.
<1>7. ASSUME Ends(p), UNCHANGED <<kept, lock>>, a.at \notin Holding, a.at # "idle",
             ~(a.at \in {"hash", "metadata"})
      PROVE  DocumentsInv'
  <2> DEFINE j == Idle
  <2>1. author' = [author EXCEPT ![p] = j]
    BY <1>7 DEF Ends
  <2>2. j \in Job /\ j.at = "idle" /\ j = Idle /\ j.at \notin Holding
    BY <1>3 DEF Holding
  <2> HIDE DEF j
  <2> QED BY <1>7, <2>1, <2>2, WalkStep
<1>8. CASE BeginDraft(p)
  <2> DEFINE j == [a EXCEPT !.at = "draft"]
  <2>1. /\ author' = [author EXCEPT ![p] = j] /\ UNCHANGED <<kept, lock>> /\ MayBegin(p, "draft")
    BY <1>8 DEF BeginDraft, Goes, documents, kept
  <2>2. a = Idle /\ a.at = "idle" /\ (Orderly => \A q \in Process : author[q].at = "idle")
    BY <1>6, <2>1
  <2>3. j \in Job /\ j.at = "draft" /\ j.gate = a.gate
    BY <1>2 DEF Job, Stage, Holding
  <2>4. a.gate = "prd"
    BY <2>2 DEF Idle
  <2> HIDE DEF j
  <2> QED BY <2>1, <2>2, <2>3, <2>4, WalkStep DEF Holding
<1>9. CASE HashDocument(p)
  <2> DEFINE j == [a EXCEPT !.at = "metadata", !.hash = file[a.gate]]
  <2>1. author' = [author EXCEPT ![p] = j] /\ UNCHANGED <<kept, lock>> /\ a.at = "hash"
    BY <1>9 DEF HashDocument, documents, kept
  <2>2. j \in Job /\ j.at = "metadata" /\ j.gate = a.gate /\ j.hash = file[a.gate]
    BY <1>2 DEF Job, Stage, Holding
  <2> HIDE DEF j
  <2> QED BY <1>2, <2>1, <2>2, WalkStep DEF Holding
<1>10. CASE BeginCompose(p)
  <2> DEFINE j == [a EXCEPT !.at = "load"]
  <2>1. /\ author' = [author EXCEPT ![p] = j] /\ UNCHANGED <<kept, lock>> /\ MayBegin(p, "compose")
        /\ meta["prd"].status = "approved"
    BY <1>10 DEF BeginCompose, Goes, documents, kept
  <2>2. a = Idle /\ a.at = "idle" /\ (Orderly => \A q \in Process : author[q].at = "idle")
    BY <1>6, <2>1
  <2>3. j \in Job /\ j.at = "load"
    BY <1>2 DEF Job, Stage, Holding
  <2> HIDE DEF j
  <2> QED BY <2>1, <2>2, <2>3, WalkStep DEF Holding
<1>11. CASE LoadPrd(p)
  <2>1. a.at = "load" /\ UNCHANGED <<kept, lock>>
    BY <1>11 DEF LoadPrd, documents, kept
  <2>2. CASE Readable("prd")
    <3> DEFINE j == [a EXCEPT !.at = "read", !.cited = meta["prd"].hash]
    <3>1. author' = [author EXCEPT ![p] = j]
      BY <1>11, <2>2 DEF LoadPrd
    <3>2. j \in Job /\ j.at = "read" /\ j.cited = meta["prd"].hash
      BY <1>2 DEF Job, Stage, Holding
    <3> HIDE DEF j
    <3>3. Orderly => meta["prd"].status = "approved"
      BY <1>1, <2>1 DEF SpecsApproved, Orderly
    <3> QED BY <2>1, <3>1, <3>2, <3>3, WalkStep DEF Holding
  <2>3. CASE ~Readable("prd")
    <3>1. Ends(p)
      BY <1>11, <2>3 DEF LoadPrd
    <3> QED BY <1>7, <2>1, <3>1 DEF Holding
  <2> QED BY <2>2, <2>3
<1>12. CASE ReadPrd(p)
  <2> DEFINE j == [a EXCEPT !.at = "compose", !.from = file["prd"]]
  <2>1. author' = [author EXCEPT ![p] = j] /\ UNCHANGED <<kept, lock>> /\ a.at = "read"
    BY <1>12 DEF ReadPrd, documents, kept
  <2>2. j \in Job /\ j.at = "compose" /\ j.from = file["prd"] /\ j.cited = a.cited
    BY <1>2 DEF Job, Stage, Holding, Gate
  <2> HIDE DEF j
  <2>3. Orderly => j.from = j.cited /\ Approved("prd", j.cited)
    <3> HAVE Orderly
    <3>1. a.cited = meta["prd"].hash /\ meta["prd"].status = "approved"
      BY <1>1, <2>1 DEF SpecsApproved, Orderly
    <3>2. \A q \in Process : author[q].at \notin {"hash", "metadata"}
      BY <1>1, <2>1 DEF SpecsApproved, Orderly
    <3>3. meta["prd"].hash = file["prd"]
      BY <1>1, <3>2 DEF SpecsApproved, Orderly
    <3>4. Approved("prd", meta["prd"].hash)
      BY <1>1, <3>1 DEF Decided, ApprovedHash, Approved, Gate
    <3> QED BY <2>2, <3>1, <3>3, <3>4
  <2> QED BY <2>1, <2>2, <2>3, WalkStep DEF Holding
<1>13. CASE \E force \in BOOLEAN : BeginPlan(p, force)
  <2> DEFINE j == [a EXCEPT !.at = "plan"]
  <2>1. /\ author' = [author EXCEPT ![p] = j] /\ UNCHANGED <<kept, lock>> /\ MayBegin(p, "plan")
    BY <1>13 DEF BeginPlan, Goes, documents, kept
  <2>2. a = Idle /\ a.at = "idle" /\ (Orderly => \A q \in Process : author[q].at = "idle")
    BY <1>6, <2>1
  <2>3. j \in Job /\ j.at = "plan"
    BY <1>2 DEF Job, Stage, Holding
  <2> HIDE DEF j
  <2> QED BY <2>1, <2>2, <2>3, WalkStep DEF Holding
<1>14. CASE LoadSpec(p)
  <2>1. a.at = "plan" /\ UNCHANGED <<kept, lock>>
    BY <1>14 DEF LoadSpec, documents, kept
  <2>2. CASE meta["spec"].status = "approved"
    <3> DEFINE j == [a EXCEPT !.at = "requirements", !.hash = meta["spec"].hash]
    <3>1. author' = [author EXCEPT ![p] = j]
      BY <1>14, <2>2 DEF LoadSpec
    <3>2. j \in Job /\ j.at = "requirements" /\ j.hash = meta["spec"].hash
      BY <1>2 DEF Job, Stage, Holding
    <3> HIDE DEF j
    <3>3. Approved("spec", meta["spec"].hash)
      BY <1>1, <2>2 DEF Decided, ApprovedHash, Approved, Gate
    <3>4. Undisturbed => meta["spec"].hash <= json
      BY <1>1 DEF VersionsGrow, Undisturbed
    <3> QED BY <2>1, <3>1, <3>2, <3>3, <3>4, WalkStep DEF Holding
  <2>3. CASE meta["spec"].status # "approved"
    <3>1. Ends(p)
      BY <1>14, <2>3 DEF LoadSpec
    <3> QED BY <1>7, <2>1, <3>1 DEF Holding
  <2> QED BY <2>2, <2>3
<1>15. CASE ReadRequirements(p)
  <2>1. a.at = "requirements" /\ UNCHANGED <<kept, lock>>
    BY <1>15 DEF ReadRequirements, documents, kept
  <2>2. CASE Valid(Graph(RequirementsOf(json)))
    <3> DEFINE j == [a EXCEPT !.at = "store", !.from = json]
    <3>1. author' = [author EXCEPT ![p] = j]
      BY <1>15, <2>2 DEF ReadRequirements
    <3>2. j \in Job /\ j.at = "store" /\ j.hash = a.hash /\ j.from = json
      BY <1>2 DEF Job, Stage, Holding
    <3> HIDE DEF j
    <3>3. Approved("spec", a.hash)
      BY <1>1, <2>1 DEF PlansApproved
    <3>4. Undisturbed => a.hash <= json
      BY <1>1, <2>1 DEF VersionsGrow, Undisturbed
    <3>5. Approved("spec", j.hash) /\ (Undisturbed => j.hash <= j.from /\ j.from <= json)
      BY <1>2, <3>2, <3>3, <3>4
    <3> QED BY <2>1, <3>1, <3>2, <3>5, WalkStep DEF Holding
  <2>3. CASE ~Valid(Graph(RequirementsOf(json)))
    <3>1. Ends(p)
      BY <1>15, <2>3 DEF ReadRequirements
    <3> QED BY <1>7, <2>1, <3>1 DEF Holding
  <2> QED BY <2>2, <2>3
<1>16. CASE BeginTrace(p)
  <2> DEFINE j == [a EXCEPT !.at = "trace", !.cited = meta["prd"].hash]
  <2>1. /\ author' = [author EXCEPT ![p] = j] /\ UNCHANGED <<kept, lock>> /\ MayBegin(p, "trace")
    BY <1>16 DEF BeginTrace, documents, kept
  <2>2. a = Idle /\ a.at = "idle" /\ (Orderly => \A q \in Process : author[q].at = "idle")
    BY <1>6, <2>1
  <2>3. j \in Job /\ j.at = "trace"
    BY <1>2 DEF Job, Stage, Holding
  <2> HIDE DEF j
  <2> QED BY <2>1, <2>2, <2>3, WalkStep DEF Holding
<1>17. CASE TraceSpec(p)
  <2>1. a.at = "trace" /\ UNCHANGED <<kept, lock>>
    BY <1>17 DEF TraceSpec, documents, kept
  <2>2. CASE meta["spec"].status = "approved"
    <3> DEFINE j == [a EXCEPT !.at = "links", !.hash = meta["spec"].hash]
    <3>1. author' = [author EXCEPT ![p] = j]
      BY <1>17, <2>2 DEF TraceSpec
    <3>2. j \in Job /\ j.at = "links"
      BY <1>2 DEF Job, Stage, Holding
    <3> HIDE DEF j
    <3> QED BY <2>1, <3>1, <3>2, WalkStep DEF Holding
  <2>3. CASE meta["spec"].status # "approved"
    <3>1. Ends(p)
      BY <1>17, <2>3 DEF TraceSpec
    <3> QED BY <1>7, <2>1, <3>1 DEF Holding
  <2> QED BY <2>2, <2>3
<1>18. CASE Links(p)
  <2>1. a.at = "links" /\ UNCHANGED <<kept, lock>>
    BY <1>18 DEF Links, kept
  <2>2. CASE Ends(p)
    BY <1>7, <2>1, <2>2 DEF Holding
  <2>3. CASE author' = [author EXCEPT ![p].at = "traceMap"]
    <3> DEFINE j == [a EXCEPT !.at = "traceMap"]
    <3>1. author' = [author EXCEPT ![p] = j]
      BY <2>3
    <3>2. j \in Job /\ j.at = "traceMap"
      BY <1>2 DEF Job, Stage, Holding
    <3> HIDE DEF j
    <3> QED BY <2>1, <3>1, <3>2, WalkStep DEF Holding
  <2> QED BY <1>18, <2>2, <2>3 DEF Links
<1>19. CASE WriteTrace(p)
  <2>1. a.at = "traceMap" /\ UNCHANGED <<kept, lock>> /\ Ends(p)
    BY <1>19 DEF WriteTrace, kept, Free
  <2> QED BY <1>7, <2>1 DEF Holding
<1> QED BY <1>8, <1>9, <1>10, <1>11, <1>12, <1>13, <1>14, <1>15, <1>16, <1>17, <1>18, <1>19

\* Whoever may take the lock finds nobody between two writes.
LEMMA NobodyHolds ==
    ASSUME LockHeld, lock = Nobody
    PROVE  \A q \in Process : author[q].at \notin Holding
BY DirectoryAssumption DEF LockHeld

LEMMA WritePrdStep ==
    ASSUME DocumentsInv, env' = env, env.part = "documents", NEW p \in Process, WritePrd(p)
    PROVE  DocumentsInv'
<1> DEFINE a == author[p]
           j == [a EXCEPT !.at = "hash"]
<1>1. /\ DocumentsTyped /\ LockHeld /\ Decided /\ IndexFollows
      /\ PlansApproved /\ SpecsApproved /\ VersionsGrow
  BY DEF DocumentsInv
<1>2. /\ a.at = "draft" /\ author' = [author EXCEPT ![p] = j]
      /\ lock = Nobody /\ lock' = lock /\ drafts' = drafts + 1 /\ file' = [file EXCEPT !["prd"] = drafts + 1]
      /\ meta' = meta /\ json' = json /\ source' = source /\ records' = records
      /\ index' = index /\ plan' = plan /\ planMeta' = planMeta /\ plans' = plans
  BY DEF WritePrd, Goes, Free
<1>3. j \in Job /\ j.at = "hash" /\ j.gate = a.gate /\ j # Idle
  BY <1>1 DEF DocumentsTyped, Job, Stage, Holding, Idle
<1> HIDE DEF j
<1>4. author' \in [Process -> Job] /\ author'[p] = j /\ \A q \in Process : q # p => author'[q] = author[q]
  BY <1>1, <1>2, <1>3, Moved
<1>5. /\ file' \in [Gate -> Nat] /\ file'["spec"] = file["spec"] /\ drafts' \in Nat
  BY <1>1, <1>2 DEF DocumentsTyped, Gate
<1>6. \A gate, hash : Approved(gate, hash)' <=> Approved(gate, hash)
  BY <1>2 DEF Approved
<1>7. DocumentsTyped'
  BY <1>1, <1>2, <1>4, <1>5 DEF DocumentsTyped
<1>8. LockHeld'
  BY <1>1, <1>2, <1>3, <1>4 DEF LockHeld, Holding
<1>9. Decided'
  BY <1>1, <1>2, <1>3, <1>4 DEF Decided, ApprovedHash
<1>10. IndexFollows'
  BY <1>1, <1>2, <1>3, <1>4 DEF IndexFollows
<1>11. PlansApproved'
  BY <1>1, <1>2, <1>3, <1>4, <1>6 DEF PlansApproved
<1>12. SpecsApproved'
  BY <1>1, <1>2, <1>3, <1>4, <1>6 DEF SpecsApproved
<1>13. VersionsGrow'
  BY <1>1, <1>2, <1>3, <1>4, <1>5 DEF VersionsGrow
<1> QED BY <1>7, <1>8, <1>9, <1>10, <1>11, <1>12, <1>13 DEF DocumentsInv

LEMMA WriteMetadataStep ==
    ASSUME DocumentsInv, env' = env, env.part = "documents", NEW p \in Process, WriteMetadata(p)
    PROVE  DocumentsInv'
<1> DEFINE a == author[p]
           m == [status |-> "pending", hash |-> a.hash, approvals |-> {}, cited |-> a.cited]
<1>1. /\ DocumentsTyped /\ LockHeld /\ Decided /\ IndexFollows
      /\ PlansApproved /\ SpecsApproved /\ VersionsGrow
  BY DEF DocumentsInv
<1>2. /\ a.at = "metadata" /\ author' = [author EXCEPT ![p] = Idle]
      /\ lock = Nobody /\ lock' = lock /\ meta' = [meta EXCEPT ![a.gate] = m]
      /\ file' = file /\ drafts' = drafts /\ json' = json /\ source' = source /\ records' = records
      /\ index' = index /\ plan' = plan /\ planMeta' = planMeta /\ plans' = plans
  BY DEF WriteMetadata, Ends, Free
<1>3. Idle \in Job /\ Idle.at = "idle" /\ a \in Job /\ a.gate \in Gate /\ a.hash \in Nat /\ a.cited \in Nat
  BY <1>1 DEF DocumentsTyped, Idle, Job, Stage, Holding, Gate, Verdict
<1>4. author' \in [Process -> Job] /\ author'[p] = Idle /\ \A q \in Process : q # p => author'[q] = author[q]
  BY <1>1, <1>2, <1>3, Moved
<1>5. \A q \in Process : author[q].at \notin Holding
  BY <1>1, <1>2, NobodyHolds
<1>6. /\ m \in [status : Verdict \cup {"none", "pending", "torn"}, hash : Nat, approvals : SUBSET Nat, cited : Nat]
      /\ m.status = "pending" /\ m.hash = a.hash /\ m.approvals = {}
  BY <1>3
<1> HIDE DEF m
<1>7. /\ meta' \in [Gate -> [status : Verdict \cup {"none", "pending", "torn"}, hash : Nat, approvals : SUBSET Nat, cited : Nat]]
      /\ meta'[a.gate] = m /\ \A g \in Gate : g # a.gate => meta'[g] = meta[g]
  BY <1>1, <1>2, <1>3, <1>6 DEF DocumentsTyped
<1>8. \A gate, hash : Approved(gate, hash)' <=> Approved(gate, hash)
  BY <1>2 DEF Approved
<1>9. DocumentsTyped'
  BY <1>1, <1>2, <1>4, <1>7 DEF DocumentsTyped
<1>10. LockHeld'
  BY <1>1, <1>2, <1>3, <1>4 DEF LockHeld, Holding
<1>11. Decided'
  BY <1>1, <1>2, <1>3, <1>4, <1>5, <1>6, <1>7 DEF Decided, ApprovedHash, Holding
<1>12. IndexFollows'
  BY <1>1, <1>2, <1>3, <1>4 DEF IndexFollows
<1>13. PlansApproved'
  BY <1>1, <1>2, <1>3, <1>4, <1>8 DEF PlansApproved
<1>14. SpecsApproved'
  <2> SUFFICES ASSUME Orderly PROVE SpecsApproved'
    BY <1>2 DEF SpecsApproved, Orderly
  <2>1. \A q \in Process : author'[q].at = "idle"
    BY <1>1, <1>2, <1>3, <1>4 DEF SpecsApproved, Orderly
  <2>2. meta'["prd"].hash = file["prd"]
    <3>1. CASE a.gate = "prd"
      BY <1>1, <1>2, <1>6, <1>7, <3>1 DEF SpecsApproved, Orderly
    <3>2. CASE a.gate # "prd"
      <4>1. \A q \in Process : ~(author[q].at \in {"hash", "metadata"} /\ author[q].gate = "prd")
        BY <1>1, <1>2, <3>2 DEF SpecsApproved, Orderly
      <4>2. meta["prd"].hash = file["prd"]
        BY <1>1, <4>1 DEF SpecsApproved, Orderly
      <4> QED BY <1>7, <3>2, <4>2 DEF Gate
    <3> QED BY <3>1, <3>2
  <2>3. \A i \in DOMAIN source : source[i].from = source[i].cited /\ Approved("prd", source[i].cited)
    BY <1>1 DEF SpecsApproved, Orderly
  <2> QED BY <1>2, <1>8, <2>1, <2>2, <2>3 DEF SpecsApproved
<1>15. VersionsGrow'
  <2> SUFFICES ASSUME Undisturbed PROVE VersionsGrow'
    BY <1>2 DEF VersionsGrow, Undisturbed
  <2>1. meta'["spec"].hash <= json
    <3>1. json = Len(source)
      BY <1>1, <1>5 DEF VersionsGrow, Undisturbed, Holding
    <3>2. CASE a.gate = "spec"
      BY <1>1, <1>2, <1>6, <1>7, <3>1, <3>2 DEF VersionsGrow, Undisturbed
    <3>3. CASE a.gate # "spec"
      BY <1>1, <1>7, <3>3 DEF VersionsGrow, Undisturbed, Gate
    <3> QED BY <3>2, <3>3
  <2> QED BY <1>1, <1>2, <1>3, <1>4, <2>1 DEF VersionsGrow, Undisturbed
<1> QED BY <1>9, <1>10, <1>11, <1>12, <1>13, <1>14, <1>15 DEF DocumentsInv

LEMMA WriteSpecStep ==
    ASSUME DocumentsInv, env' = env, env.part = "documents", NEW p \in Process, WriteSpec(p)
    PROVE  DocumentsInv'
<1> DEFINE a == author[p]
           s == [from |-> a.from, cited |-> a.cited]
           n == Len(source) + 1
           j == [a EXCEPT !.at = "json", !.hash = n]
<1>1. /\ DocumentsTyped /\ LockHeld /\ Decided /\ IndexFollows
      /\ PlansApproved /\ SpecsApproved /\ VersionsGrow
  BY DEF DocumentsInv
<1>2. /\ a \in Job /\ a.from \in Nat /\ a.cited \in Nat /\ source \in Seq([from : Nat, cited : Nat])
      /\ Len(source) \in Nat /\ file \in [Gate -> Nat] /\ json \in Nat
  BY <1>1 DEF DocumentsTyped, Job
<1>3. /\ source' = Append(source, s) /\ s \in [from : Nat, cited : Nat] /\ s.from = a.from /\ s.cited = a.cited
  BY <1>2 DEF WriteSpec
<1> HIDE DEF s
<1>4. /\ source' \in Seq([from : Nat, cited : Nat]) /\ Len(source') = n /\ n \in Nat
      /\ source'[n] = s /\ \A i \in 1..Len(source) : source'[i] = source[i]
      /\ DOMAIN source' = 1..n /\ DOMAIN source = 1..Len(source)
  BY <1>2, <1>3
<1>5. /\ a.at = "compose" /\ lock = Nobody /\ lock' = p
      /\ file' = [file EXCEPT !["spec"] = n] /\ author' = [author EXCEPT ![p] = j]
      /\ meta' = meta /\ json' = json /\ drafts' = drafts /\ records' = records
      /\ index' = index /\ plan' = plan /\ planMeta' = planMeta /\ plans' = plans
  BY <1>4 DEF WriteSpec, Acquire
<1>6. j \in Job /\ j.at = "json" /\ j.hash = n
  BY <1>2, <1>4 DEF Job, Stage, Holding
<1> HIDE DEF j, n
<1>7. author' \in [Process -> Job] /\ author'[p] = j /\ \A q \in Process : q # p => author'[q] = author[q]
  BY <1>1, <1>5, <1>6, Moved
<1>8. file' \in [Gate -> Nat] /\ file'["spec"] = n /\ file'["prd"] = file["prd"]
  BY <1>2, <1>4, <1>5 DEF Gate
<1>9. \A q \in Process : author[q].at \notin Holding
  BY <1>1, <1>5, NobodyHolds
<1>10. \A gate, hash : Approved(gate, hash)' <=> Approved(gate, hash)
  BY <1>5 DEF Approved
<1>11. n = Len(source) + 1
  BY DEF n
<1>12. DocumentsTyped'
  BY <1>1, <1>4, <1>5, <1>7, <1>8 DEF DocumentsTyped
<1>13. LockHeld'
  BY <1>1, <1>5, <1>6, <1>7, <1>9 DEF LockHeld
<1>14. Decided'
  BY <1>1, <1>5, <1>6, <1>7 DEF Decided, ApprovedHash
<1>15. IndexFollows'
  BY <1>1, <1>5, <1>6, <1>7 DEF IndexFollows
<1>16. PlansApproved'
  BY <1>1, <1>5, <1>6, <1>7, <1>10 DEF PlansApproved
<1>17. SpecsApproved'
  <2> SUFFICES ASSUME Orderly PROVE SpecsApproved'
    BY DEF SpecsApproved, Orderly
  <2>1. \A i \in DOMAIN source' : source'[i].from = source'[i].cited /\ Approved("prd", source'[i].cited)
    <3>1. a.from = a.cited /\ Approved("prd", a.cited)
      BY <1>1, <1>5 DEF SpecsApproved, Orderly
    <3>2. \A i \in DOMAIN source : source[i].from = source[i].cited /\ Approved("prd", source[i].cited)
      BY <1>1 DEF SpecsApproved, Orderly
    <3> QED BY <1>2, <1>3, <1>4, <1>11, <3>1, <3>2
  <2>2. \A q, r \in Process : author'[q].at # "idle" /\ author'[r].at # "idle" => q = r
    BY <1>1, <1>5, <1>7 DEF SpecsApproved, Orderly
  <2>3. \A q \in Process : q # p => author'[q].at = "idle"
    BY <1>1, <1>5, <1>7 DEF SpecsApproved, Orderly
  <2>4. meta["prd"].hash = file["prd"]
    <3>1. \A q \in Process : author[q].at \notin {"hash", "metadata"}
      BY <1>1, <1>5 DEF SpecsApproved, Orderly
    <3> QED BY <1>1, <3>1 DEF SpecsApproved, Orderly
  <2> QED BY <1>5, <1>6, <1>7, <1>8, <1>10, <2>1, <2>2, <2>3, <2>4 DEF SpecsApproved
<1>18. VersionsGrow'
  <2> SUFFICES ASSUME Undisturbed PROVE VersionsGrow'
    BY DEF VersionsGrow, Undisturbed
  <2>1. \A q \in Process : q # p =>
            /\ author'[q].at # "json"
            /\ author'[q].at = "metadata" /\ author'[q].gate = "spec" => author'[q].hash <= n
    <3> TAKE q \in Process
    <3> HAVE q # p
    <3>1. author[q] \in Job /\ author[q].hash \in Nat
      BY <1>1 DEF DocumentsTyped, Job
    <3> QED BY <1>1, <1>2, <1>7, <1>9, <1>11, <3>1 DEF VersionsGrow, Undisturbed, Holding
  <2>2. json <= n
    BY <1>1, <1>2, <1>11 DEF VersionsGrow, Undisturbed
  <2> QED BY <1>1, <1>4, <1>5, <1>6, <1>7, <1>8, <2>1, <2>2 DEF VersionsGrow, Undisturbed
<1> QED BY <1>12, <1>13, <1>14, <1>15, <1>16, <1>17, <1>18 DEF DocumentsInv

LEMMA WriteSpecJsonStep ==
    ASSUME DocumentsInv, env' = env, env.part = "documents", NEW p \in Process, WriteSpecJson(p)
    PROVE  DocumentsInv'
<1> DEFINE a == author[p]
           j == [a EXCEPT !.at = "hash", !.gate = "spec"]
<1>1. /\ DocumentsTyped /\ LockHeld /\ Decided /\ IndexFollows
      /\ PlansApproved /\ SpecsApproved /\ VersionsGrow
  BY DEF DocumentsInv
<1>2. a \in Job /\ a.hash \in Nat /\ json \in Nat /\ Len(source) \in Nat
  BY <1>1 DEF DocumentsTyped, Job
<1>3. /\ a.at = "json" /\ lock = p /\ lock' = Nobody /\ json' = a.hash /\ author' = [author EXCEPT ![p] = j]
      /\ file' = file /\ meta' = meta /\ drafts' = drafts /\ source' = source /\ records' = records
      /\ index' = index /\ plan' = plan /\ planMeta' = planMeta /\ plans' = plans
  BY DEF WriteSpecJson, Release
<1>4. j \in Job /\ j.at = "hash" /\ j.gate = "spec"
  BY <1>2 DEF Job, Stage, Holding, Gate
<1> HIDE DEF j
<1>5. author' \in [Process -> Job] /\ author'[p] = j /\ \A q \in Process : q # p => author'[q] = author[q]
  BY <1>1, <1>3, <1>4, Moved
<1>6. \A q \in Process : q # p => author[q].at \notin Holding
  BY <1>1, <1>3 DEF LockHeld
<1>7. \A gate, hash : Approved(gate, hash)' <=> Approved(gate, hash)
  BY <1>3 DEF Approved
<1>8. DocumentsTyped'
  BY <1>1, <1>2, <1>3, <1>5 DEF DocumentsTyped
<1>9. LockHeld'
  BY <1>1, <1>3, <1>4, <1>5, <1>6 DEF LockHeld, Holding
<1>10. Decided'
  BY <1>1, <1>3, <1>4, <1>5 DEF Decided, ApprovedHash
<1>11. IndexFollows'
  BY <1>1, <1>3, <1>4, <1>5 DEF IndexFollows
<1>12. PlansApproved'
  BY <1>1, <1>3, <1>4, <1>5, <1>7 DEF PlansApproved
<1>13. SpecsApproved'
  BY <1>1, <1>3, <1>4, <1>5, <1>7 DEF SpecsApproved
<1>14. VersionsGrow'
  <2> SUFFICES ASSUME Undisturbed PROVE VersionsGrow'
    BY <1>3 DEF VersionsGrow, Undisturbed
  <2>1. a.hash = Len(source) /\ json <= Len(source)
    BY <1>1, <1>3 DEF VersionsGrow, Undisturbed
  <2>2. meta["spec"].hash \in Nat /\ plan.from \in Nat /\ \A q \in Process : author[q].hash \in Nat /\ author[q].from \in Nat
    BY <1>1 DEF DocumentsTyped, Job, Gate
  <2>3. meta["spec"].hash <= Len(source) /\ (plan.from <= json => plan.from <= Len(source))
    BY <1>1, <1>2, <2>1, <2>2 DEF VersionsGrow, Undisturbed
  <2>4. \A q \in Process : q # p =>
            /\ author[q].at = "requirements" => author[q].hash <= Len(source)
            /\ author[q].at \in {"store", "planMetadata"} => author[q].hash <= author[q].from /\ author[q].from <= Len(source)
    BY <1>1, <1>2, <2>1, <2>2 DEF VersionsGrow, Undisturbed
  <2> QED BY <1>1, <1>2, <1>3, <1>4, <1>5, <1>6, <2>1, <2>3, <2>4 DEF VersionsGrow, Undisturbed, Holding
<1> QED BY <1>8, <1>9, <1>10, <1>11, <1>12, <1>13, <1>14 DEF DocumentsInv

\* The decision is on disk before the metadata say so; both under the lock.
LEMMA WriteRecordStep ==
    ASSUME DocumentsInv, env' = env, env.part = "documents", NEW p \in Process,
           NEW g \in Gate, NEW verdict \in Verdict, WriteRecord(p, g, verdict)
    PROVE  DocumentsInv'
<1> DEFINE a == author[p]
           r == [gate |-> g, hash |-> file[g], verdict |-> verdict]
           n == Len(records) + 1
           j == [Idle EXCEPT !.at = "decided", !.gate = g, !.verdict = verdict, !.from = n]
<1>1. /\ DocumentsTyped /\ LockHeld /\ Decided /\ IndexFollows
      /\ PlansApproved /\ SpecsApproved /\ VersionsGrow
  BY DEF DocumentsInv
<1>2. /\ file \in [Gate -> Nat] /\ Len(records) \in Nat /\ records \in Seq([gate : Gate, hash : Nat, verdict : Verdict])
      /\ DOMAIN records = 1..Len(records)
  BY <1>1 DEF DocumentsTyped
<1>3. r \in [gate : Gate, hash : Nat, verdict : Verdict] /\ records' = Append(records, r)
  BY <1>2 DEF WriteRecord
<1>4. file[g] = meta[g].hash /\ MayBegin(p, "decide")
  BY DEF WriteRecord, HashAgrees
<1> HIDE DEF r
<1>5. /\ records' \in Seq([gate : Gate, hash : Nat, verdict : Verdict])
      /\ Len(records') = n /\ records'[n] = r /\ DOMAIN records' = DOMAIN records \cup {n}
      /\ \A i \in DOMAIN records : records'[i] = records[i]
      /\ \A gate, hash : Approved(gate, hash) => Approved(gate, hash)'
  BY <1>1, <1>3, RecordsStay
<1>6. /\ a.at = "idle" /\ lock = Nobody /\ lock' = p /\ author' = [author EXCEPT ![p] = j]
      /\ file' = file /\ meta' = meta /\ json' = json /\ drafts' = drafts /\ source' = source
      /\ index' = index /\ plan' = plan /\ planMeta' = planMeta /\ plans' = plans
  BY <1>5 DEF WriteRecord, Acquire, MayBegin
<1>7. /\ j \in Job /\ j.at = "decided" /\ j.gate = g /\ j.verdict = verdict /\ j.from = n
      /\ n \in DOMAIN records' /\ n \notin DOMAIN records
  <2>1. n \in Nat /\ n \notin DOMAIN records
    BY <1>2
  <2>2. Idle \in Job
    BY DEF Idle, Job, Stage, Holding, Gate, Verdict
  <2> HIDE DEF n
  <2>3. j \in Job
    BY <2>1, <2>2 DEF Job, Stage, Holding
  <2>4. j.at = "decided" /\ j.gate = g /\ j.verdict = verdict /\ j.from = n
    BY DEF Idle
  <2> QED BY <1>5, <2>1, <2>3, <2>4
<1> HIDE DEF j, n
<1>8. author' \in [Process -> Job] /\ author'[p] = j /\ \A q \in Process : q # p => author'[q] = author[q]
  BY <1>1, <1>6, <1>7, Moved
<1>9. \A q \in Process : author[q].at \notin Holding
  BY <1>1, <1>6, NobodyHolds
<1>10. DocumentsTyped'
  BY <1>1, <1>5, <1>6, <1>8 DEF DocumentsTyped
<1>11. LockHeld'
  BY <1>1, <1>6, <1>7, <1>8, <1>9 DEF LockHeld
<1>12. Decided'
  <2>1. r = [gate |-> g, hash |-> meta[g].hash, verdict |-> verdict]
    BY <1>4 DEF r
  <2>2. \A q \in Process : author'[q].at = "decided" => q = p
    BY <1>8, <1>9 DEF Holding
  <2>3. \A q \in Process : author'[q].at = "decided" =>
            /\ author'[q].from \in DOMAIN records'
            /\ records'[author'[q].from] =
                    [gate |-> author'[q].gate, hash |-> meta'[author'[q].gate].hash, verdict |-> author'[q].verdict]
    BY <1>5, <1>6, <1>7, <1>8, <2>1, <2>2
  <2>4. ApprovedHash' /\ \A gate \in Gate : meta'[gate].approvals \subseteq DOMAIN records'
    <3>1. \A gate \in Gate : meta[gate].approvals \subseteq DOMAIN records
      BY <1>1 DEF Decided
    <3>2. \A gate \in Gate : meta[gate].approvals \subseteq DOMAIN records'
      BY <1>5, <3>1
    <3>3. \A gate \in Gate, i \in DOMAIN records : i \in meta[gate].approvals => records'[i] = records[i]
      BY <1>5
    <3>4. ApprovedHash'
      BY <1>1, <1>6, <3>1, <3>3 DEF Decided, ApprovedHash
    <3> QED BY <1>6, <3>2, <3>4
  <2> QED BY <2>3, <2>4 DEF Decided
<1>13. IndexFollows'
  BY <1>1, <1>5, <1>6, <1>7, <1>8, <1>9 DEF IndexFollows, Holding
<1>14. PlansApproved'
  BY <1>1, <1>5, <1>6, <1>7, <1>8 DEF PlansApproved
<1>15. SpecsApproved'
  <2> SUFFICES ASSUME Orderly PROVE SpecsApproved'
    BY DEF SpecsApproved, Orderly
  <2>1. \A q \in Process : author[q].at = "idle"
    BY <1>4 DEF MayBegin, Orderly
  <2> QED BY <1>1, <1>5, <1>6, <1>7, <1>8, <2>1 DEF SpecsApproved, Orderly
<1>16. VersionsGrow'
  BY <1>1, <1>6, <1>7, <1>8 DEF VersionsGrow
<1> QED BY <1>10, <1>11, <1>12, <1>13, <1>14, <1>15, <1>16 DEF DocumentsInv

LEMMA UpdateMetadataStep ==
    ASSUME DocumentsInv, env' = env, env.part = "documents", NEW p \in Process, UpdateMetadata(p)
    PROVE  DocumentsInv'
<1> DEFINE a == author[p]
           j == [a EXCEPT !.at = "index"]
           m == [meta[a.gate] EXCEPT !.status = a.verdict, !.approvals = @ \cup {a.from}]
<1>1. /\ DocumentsTyped /\ LockHeld /\ Decided /\ IndexFollows
      /\ PlansApproved /\ SpecsApproved /\ VersionsGrow
  BY DEF DocumentsInv
<1>2. /\ a.at = "decided" /\ lock' = lock /\ author' = [author EXCEPT ![p] = j]
      /\ meta' = [meta EXCEPT ![a.gate].status = a.verdict, ![a.gate].approvals = @ \cup {a.from}]
      /\ file' = file /\ json' = json /\ drafts' = drafts /\ source' = source /\ records' = records
      /\ index' = index /\ plan' = plan /\ planMeta' = planMeta /\ plans' = plans
  BY DEF UpdateMetadata, Goes
<1>3. /\ a \in Job /\ a.gate \in Gate /\ a.from \in Nat /\ a.verdict \in Verdict
      /\ meta[a.gate] \in [status : Verdict \cup {"none", "pending", "torn"}, hash : Nat, approvals : SUBSET Nat, cited : Nat]
      /\ meta[a.gate].approvals \subseteq Nat
  BY <1>1 DEF DocumentsTyped, Job
<1>4. /\ a.from \in DOMAIN records
      /\ records[a.from] = [gate |-> a.gate, hash |-> meta[a.gate].hash, verdict |-> a.verdict]
      /\ lock = p
  BY <1>1, <1>2 DEF Decided, LockHeld, Holding
<1>5. j \in Job /\ j.at = "index" /\ j.gate = a.gate /\ j.from = a.from
  BY <1>3 DEF Job, Stage, Holding
<1> HIDE DEF j
<1>6. author' \in [Process -> Job] /\ author'[p] = j /\ \A q \in Process : q # p => author'[q] = author[q]
  BY <1>1, <1>2, <1>5, Moved
<1>7. /\ m \in [status : Verdict \cup {"none", "pending", "torn"}, hash : Nat, approvals : SUBSET Nat, cited : Nat]
      /\ m.status = a.verdict /\ m.hash = meta[a.gate].hash /\ m.approvals = meta[a.gate].approvals \cup {a.from}
  BY <1>3
<1>8. /\ meta' \in [Gate -> [status : Verdict \cup {"none", "pending", "torn"}, hash : Nat, approvals : SUBSET Nat, cited : Nat]]
      /\ meta'[a.gate] = m /\ \A g \in Gate : g # a.gate => meta'[g] = meta[g]
  <2>1. meta' = [meta EXCEPT ![a.gate] = m]
    BY <1>1, <1>2, <1>3 DEF DocumentsTyped
  <2> HIDE DEF m
  <2> QED BY <1>1, <1>3, <1>7, <2>1 DEF DocumentsTyped
<1> HIDE DEF m
<1>9. \A g \in Gate : meta'[g].hash = meta[g].hash
  BY <1>7, <1>8
<1>10. \A q \in Process : q # p => author[q].at \notin Holding
  BY <1>1, <1>4 DEF LockHeld
<1>11. \A gate, hash : Approved(gate, hash)' <=> Approved(gate, hash)
  BY <1>2 DEF Approved
<1>12. DocumentsTyped'
  BY <1>1, <1>2, <1>6, <1>8 DEF DocumentsTyped
<1>13. LockHeld'
  BY <1>1, <1>2, <1>4, <1>5, <1>6, <1>10 DEF LockHeld, Holding
<1>14. Decided'
  <2>1. \A q \in Process : author'[q].at # "decided"
    BY <1>5, <1>6, <1>10 DEF Holding
  <2>2. \A g \in Gate : meta'[g].approvals \subseteq DOMAIN records
    BY <1>1, <1>4, <1>7, <1>8 DEF Decided
  <2>3. ApprovedHash'
    <3> SUFFICES ASSUME NEW g \in Gate, meta'[g].status = "approved"
                 PROVE  \E i \in meta'[g].approvals : records[i] = [gate |-> g, hash |-> meta'[g].hash, verdict |-> "approved"]
      BY <1>2 DEF ApprovedHash
    <3>1. CASE g = a.gate
      BY <1>4, <1>7, <1>8, <3>1
    <3>2. CASE g # a.gate
      BY <1>1, <1>8, <3>2 DEF Decided, ApprovedHash
    <3> QED BY <3>1, <3>2
  <2> QED BY <1>2, <2>1, <2>2, <2>3 DEF Decided
<1>15. IndexFollows'
  <2>1. \A q \in Process : author'[q].at \in {"decided", "index"} <=> author[q].at \in {"decided", "index"}
    BY <1>2, <1>5, <1>6
  <2>2. \A q \in Process : author'[q].from = author[q].from
    BY <1>5, <1>6
  <2> QED BY <1>1, <1>2, <2>1, <2>2 DEF IndexFollows
<1>16. PlansApproved'
  BY <1>1, <1>2, <1>5, <1>6, <1>11 DEF PlansApproved
<1>17. SpecsApproved'
  <2> SUFFICES ASSUME Orderly PROVE SpecsApproved'
    BY <1>2 DEF SpecsApproved, Orderly
  <2>1. \A q \in Process : q # p => author'[q].at = "idle"
    BY <1>1, <1>2, <1>6 DEF SpecsApproved, Orderly
  <2>2. meta'["prd"].hash = file["prd"]
    <3>1. \A q \in Process : author[q].at \notin {"hash", "metadata"}
      BY <1>1, <1>2 DEF SpecsApproved, Orderly
    <3> QED BY <1>1, <1>9, <3>1 DEF SpecsApproved, Orderly, Gate
  <2> QED BY <1>1, <1>2, <1>5, <1>6, <1>11, <2>1, <2>2 DEF SpecsApproved, Orderly
<1>18. VersionsGrow'
  <2>1. meta'["spec"].hash = meta["spec"].hash
    BY <1>9 DEF Gate
  <2> QED BY <1>1, <1>2, <1>5, <1>6, <2>1 DEF VersionsGrow
<1> QED BY <1>12, <1>13, <1>14, <1>15, <1>16, <1>17, <1>18 DEF DocumentsInv

LEMMA UpdateIndexStep ==
    ASSUME DocumentsInv, env' = env, env.part = "documents", NEW p \in Process, UpdateIndex(p)
    PROVE  DocumentsInv'
<1> DEFINE a == author[p]
<1>1. /\ DocumentsTyped /\ LockHeld /\ Decided /\ IndexFollows
      /\ PlansApproved /\ SpecsApproved /\ VersionsGrow
  BY DEF DocumentsInv
<1>2. /\ a.at = "index" /\ lock = p /\ lock' = Nobody /\ author' = [author EXCEPT ![p] = Idle]
      /\ index' = Indexed(a.gate, a.from)
      /\ file' = file /\ meta' = meta /\ json' = json /\ drafts' = drafts /\ source' = source /\ records' = records
      /\ plan' = plan /\ planMeta' = planMeta /\ plans' = plans
  BY DEF UpdateIndex, Release, Ends
<1>3. Idle \in Job /\ Idle.at = "idle" /\ a \in Job /\ a.gate \in Gate /\ a.from \in Nat
  BY <1>1 DEF DocumentsTyped, Idle, Job, Stage, Holding, Gate, Verdict
<1>4. author' \in [Process -> Job] /\ author'[p] = Idle /\ \A q \in Process : q # p => author'[q] = author[q]
  BY <1>1, <1>2, <1>3, Moved
<1>5. \A q \in Process : q # p => author[q].at \notin Holding
  BY <1>1, <1>2 DEF LockHeld
<1>6. index' \in [state : {"none", "ok", "torn"}, ids : SUBSET Nat]
  <2>1. index \in [state : {"none", "ok", "torn"}, ids : SUBSET Nat] /\ index.ids \subseteq Nat
    BY <1>1 DEF DocumentsTyped
  <2>2. index.ids \cup {a.from} \subseteq Nat /\ {a.from} \subseteq Nat
    BY <1>3, <2>1
  <2>3. CASE index.state = "torn" /\ a.gate = "prd"
    BY <1>2, <2>1, <2>3 DEF Indexed
  <2>4. CASE index.state = "torn" /\ a.gate = "spec"
    BY <1>2, <2>2, <2>4 DEF Indexed
  <2>5. CASE index.state # "torn"
    BY <1>2, <2>2, <2>5 DEF Indexed
  <2> QED BY <1>3, <2>3, <2>4, <2>5 DEF Gate
<1>7. \A gate, hash : Approved(gate, hash)' <=> Approved(gate, hash)
  BY <1>2 DEF Approved
<1>8. DocumentsTyped'
  BY <1>1, <1>2, <1>4, <1>6 DEF DocumentsTyped
<1>9. LockHeld'
  BY <1>1, <1>2, <1>3, <1>4, <1>5 DEF LockHeld, Holding
<1>10. Decided'
  BY <1>1, <1>2, <1>3, <1>4 DEF Decided, ApprovedHash
<1>11. IndexFollows'
  <2> SUFFICES ASSUME "crash" \notin env.events PROVE IndexFollows'
    BY <1>2 DEF IndexFollows
  <2>1. index.state # "torn" /\ DOMAIN records = index.ids \cup {a.from}
    BY <1>1, <1>2 DEF IndexFollows
  <2>2. index' = [state |-> "ok", ids |-> index.ids \cup {a.from}]
    BY <1>2, <2>1 DEF Indexed
  <2>3. \A q \in Process : author'[q].at \notin {"decided", "index"}
    BY <1>3, <1>4, <1>5 DEF Holding
  <2> QED BY <1>2, <2>1, <2>2, <2>3 DEF IndexFollows
<1>12. PlansApproved'
  BY <1>1, <1>2, <1>3, <1>4, <1>7 DEF PlansApproved
<1>13. SpecsApproved'
  BY <1>1, <1>2, <1>3, <1>4, <1>7 DEF SpecsApproved
<1>14. VersionsGrow'
  BY <1>1, <1>2, <1>3, <1>4 DEF VersionsGrow
<1> QED BY <1>8, <1>9, <1>10, <1>11, <1>12, <1>13, <1>14 DEF DocumentsInv

\* A new plan.json differs from what plan_metadata.json states until that is written too.
LEMMA WritePlanStep ==
    ASSUME DocumentsInv, env' = env, env.part = "documents", NEW p \in Process, WritePlan(p)
    PROVE  DocumentsInv'
<1> DEFINE a == author[p]
           j == [a EXCEPT !.at = "planMetadata"]
<1>1. /\ DocumentsTyped /\ LockHeld /\ Decided /\ IndexFollows
      /\ PlansApproved /\ SpecsApproved /\ VersionsGrow
  BY DEF DocumentsInv
<1>2. /\ a.at = "store" /\ lock = Nobody /\ lock' = p /\ author' = [author EXCEPT ![p] = j]
      /\ plans' = plans + 1 /\ plan' = [state |-> "ok", checksum |-> plans + 1, from |-> a.from]
      /\ file' = file /\ meta' = meta /\ json' = json /\ drafts' = drafts /\ source' = source /\ records' = records
      /\ index' = index /\ planMeta' = planMeta
  BY DEF WritePlan, Goes, Acquire
<1>3. /\ j \in Job /\ j.at = "planMetadata" /\ j.hash = a.hash /\ j.from = a.from
      /\ a \in Job /\ a.hash \in Nat /\ a.from \in Nat /\ plans \in Nat /\ planMeta.checksum \in Nat
  BY <1>1 DEF DocumentsTyped, Job, Stage, Holding
<1> HIDE DEF j
<1>4. author' \in [Process -> Job] /\ author'[p] = j /\ \A q \in Process : q # p => author'[q] = author[q]
  BY <1>1, <1>2, <1>3, Moved
<1>5. \A q \in Process : author[q].at \notin Holding
  BY <1>1, <1>2, NobodyHolds
<1>6. /\ plan'.checksum = plans + 1 /\ plan'.from = a.from /\ plan'.state = "ok"
      /\ plan' \in [state : {"none", "ok", "torn"}, checksum : Nat, from : Nat]
  BY <1>2, <1>3
<1>7. \A gate, hash : Approved(gate, hash)' <=> Approved(gate, hash)
  BY <1>2 DEF Approved
<1>8. DocumentsTyped'
  BY <1>1, <1>2, <1>3, <1>4, <1>6 DEF DocumentsTyped
<1>9. LockHeld'
  BY <1>1, <1>2, <1>3, <1>4, <1>5 DEF LockHeld
<1>10. Decided'
  BY <1>1, <1>2, <1>3, <1>4 DEF Decided, ApprovedHash
<1>11. IndexFollows'
  BY <1>1, <1>2, <1>3, <1>4 DEF IndexFollows
<1>12. PlansApproved'
  BY <1>1, <1>2, <1>3, <1>4, <1>7 DEF PlansApproved
<1>13. SpecsApproved'
  BY <1>1, <1>2, <1>3, <1>4, <1>7 DEF SpecsApproved
<1>14. VersionsGrow'
  <2> SUFFICES ASSUME Undisturbed PROVE VersionsGrow'
    BY <1>2 DEF VersionsGrow, Undisturbed
  <2>1. planMeta.checksum <= plans /\ a.hash <= a.from /\ a.from <= json
    BY <1>1, <1>2 DEF VersionsGrow, Undisturbed
  <2>2. planMeta.checksum # plan'.checksum /\ planMeta.checksum <= plans' /\ plan'.checksum <= plans'
    BY <1>2, <1>3, <1>6, <2>1
  <2>3. \A q \in Process : q # p => author'[q].at # "planMetadata"
    BY <1>4, <1>5 DEF Holding
  <2> QED BY <1>1, <1>2, <1>3, <1>4, <1>6, <2>1, <2>2, <2>3 DEF VersionsGrow, Undisturbed
<1> QED BY <1>8, <1>9, <1>10, <1>11, <1>12, <1>13, <1>14 DEF DocumentsInv

LEMMA WritePlanMetadataStep ==
    ASSUME DocumentsInv, env' = env, env.part = "documents", NEW p \in Process, WritePlanMetadata(p)
    PROVE  DocumentsInv'
<1> DEFINE a == author[p]
<1>1. /\ DocumentsTyped /\ LockHeld /\ Decided /\ IndexFollows
      /\ PlansApproved /\ SpecsApproved /\ VersionsGrow
  BY DEF DocumentsInv
<1>2. /\ a.at = "planMetadata" /\ lock = p /\ lock' = Nobody /\ author' = [author EXCEPT ![p] = Idle]
      /\ planMeta' = [state |-> "ok", checksum |-> plans, spec |-> a.hash]
      /\ file' = file /\ meta' = meta /\ json' = json /\ drafts' = drafts /\ source' = source /\ records' = records
      /\ index' = index /\ plan' = plan /\ plans' = plans
  BY DEF WritePlanMetadata, Release, Ends
<1>3. Idle \in Job /\ Idle.at = "idle" /\ a \in Job /\ a.hash \in Nat /\ a.from \in Nat /\ plans \in Nat
  BY <1>1 DEF DocumentsTyped, Idle, Job, Stage, Holding, Gate, Verdict
<1>4. author' \in [Process -> Job] /\ author'[p] = Idle /\ \A q \in Process : q # p => author'[q] = author[q]
  BY <1>1, <1>2, <1>3, Moved
<1>5. \A q \in Process : q # p => author[q].at \notin Holding
  BY <1>1, <1>2 DEF LockHeld
<1>6. /\ planMeta'.checksum = plans /\ planMeta'.spec = a.hash
      /\ planMeta' \in [state : {"none", "ok", "torn"}, checksum : Nat, spec : Nat]
  BY <1>2, <1>3
<1>7. \A gate, hash : Approved(gate, hash)' <=> Approved(gate, hash)
  BY <1>2 DEF Approved
<1>8. DocumentsTyped'
  BY <1>1, <1>2, <1>4, <1>6 DEF DocumentsTyped
<1>9. LockHeld'
  BY <1>1, <1>2, <1>3, <1>4, <1>5 DEF LockHeld, Holding
<1>10. Decided'
  BY <1>1, <1>2, <1>3, <1>4 DEF Decided, ApprovedHash
<1>11. IndexFollows'
  BY <1>1, <1>2, <1>3, <1>4 DEF IndexFollows
<1>12. PlansApproved'
  BY <1>1, <1>2, <1>3, <1>4, <1>6, <1>7 DEF PlansApproved
<1>13. SpecsApproved'
  BY <1>1, <1>2, <1>3, <1>4, <1>7 DEF SpecsApproved
<1>14. VersionsGrow'
  <2> SUFFICES ASSUME Undisturbed PROVE VersionsGrow'
    BY <1>2 DEF VersionsGrow, Undisturbed
  <2>1. a.hash <= a.from /\ a.from <= json /\ plan.checksum = plans /\ plan.from = a.from
    BY <1>1, <1>2 DEF VersionsGrow, Undisturbed
  <2> QED BY <1>1, <1>2, <1>3, <1>4, <1>6, <2>1 DEF VersionsGrow, Undisturbed
<1> QED BY <1>8, <1>9, <1>10, <1>11, <1>12, <1>13, <1>14 DEF DocumentsInv

LEMMA EditStep ==
    ASSUME DocumentsInv, env' = env, env.part = "documents", NEW g \in Gate, Edit(g)
    PROVE  DocumentsInv'
<1>1. /\ DocumentsTyped /\ LockHeld /\ Decided /\ IndexFollows /\ PlansApproved
  BY DEF DocumentsInv
<1>2. /\ "edit" \in env.events /\ file[g] > 0 /\ lock' = lock /\ author' = author
      /\ meta' = meta /\ json' = json /\ records' = records
      /\ index' = index /\ plan' = plan /\ planMeta' = planMeta /\ plans' = plans
  BY DEF Edit
<1>3. /\ file \in [Gate -> Nat] /\ drafts \in Nat /\ source \in Seq([from : Nat, cited : Nat]) /\ Len(source) \in Nat
      /\ file["spec"] \in Nat /\ file["spec"] <= Len(source)
  BY <1>1 DEF DocumentsTyped, Gate
<1>4. /\ file' \in [Gate -> Nat] /\ drafts' \in Nat /\ source' \in Seq([from : Nat, cited : Nat])
      /\ file'["spec"] <= Len(source')
  <2>1. CASE g = "prd"
    BY <1>3, <2>1 DEF Edit, Gate
  <2>2. CASE g = "spec"
    <3>1. source[file["spec"]] \in [from : Nat, cited : Nat]
      <4>1. file["spec"] > 0
        BY <1>2, <2>2
      <4>2. file["spec"] \in 1..Len(source)
        BY <1>3, <4>1
      <4> QED BY <1>3, <4>2, ElementOfSeq
    <3>2. source' = Append(source, source[file["spec"]]) /\ file' = [file EXCEPT !["spec"] = Len(source')] /\ drafts' = drafts
      BY <2>2 DEF Edit
    <3>3. source' \in Seq([from : Nat, cited : Nat]) /\ Len(source') \in Nat
      BY <1>3, <3>1, <3>2
    <3> QED BY <1>3, <3>2, <3>3 DEF Gate
  <2> QED BY <2>1, <2>2 DEF Gate
<1>5. \A gate, hash : Approved(gate, hash)' <=> Approved(gate, hash)
  BY <1>2 DEF Approved
<1>6. DocumentsTyped'
  BY <1>1, <1>2, <1>4 DEF DocumentsTyped
<1>7. LockHeld'
  BY <1>1, <1>2 DEF LockHeld
<1>8. Decided'
  BY <1>1, <1>2 DEF Decided, ApprovedHash
<1>9. IndexFollows'
  BY <1>1, <1>2 DEF IndexFollows
<1>10. PlansApproved'
  BY <1>1, <1>2, <1>5 DEF PlansApproved
<1>11. SpecsApproved'
  BY <1>2 DEF SpecsApproved
<1>12. VersionsGrow'
  BY <1>2 DEF VersionsGrow
<1> QED BY <1>6, <1>7, <1>8, <1>9, <1>10, <1>11, <1>12 DEF DocumentsInv

\* A process that dies gives its job up, and at most the file it was writing is torn.
LEMMA CrashStep ==
    ASSUME DocumentsInv, env' = env, env.part = "documents", NEW p \in Process, CrashAuthor(p)
    PROVE  DocumentsInv'
<1> DEFINE a == author[p]
           Torn1 == [meta[a.gate] EXCEPT !.status = "torn"]
<1>1. DocumentsTyped /\ LockHeld /\ Decided /\ PlansApproved
  BY DEF DocumentsInv
<1>2. /\ "crash" \in env.events /\ author' = [author EXCEPT ![p] = Idle]
      /\ lock' = IF lock = p THEN Nobody ELSE lock
  BY DEF CrashAuthor, Die, Ends, Abandon
<1>3. Idle \in Job /\ Idle.at = "idle" /\ a \in Job /\ a.gate \in Gate
  BY <1>1 DEF DocumentsTyped, Idle, Job, Stage, Holding, Gate, Verdict
<1>4. author' \in [Process -> Job] /\ author'[p] = Idle /\ \A q \in Process : q # p => author'[q] = author[q]
  BY <1>1, <1>2, <1>3, Moved
<1>5. file' = file /\ drafts' = drafts /\ source' = source /\ records' = records /\ plans' = plans
  BY DEF CrashAuthor, documents
<1>6. /\ json' \in Nat
      /\ index' \in [state : {"none", "ok", "torn"}, ids : SUBSET Nat]
      /\ plan' \in [state : {"none", "ok", "torn"}, checksum : Nat, from : Nat]
      /\ planMeta' \in [state : {"none", "ok", "torn"}, checksum : Nat, spec : Nat] /\ planMeta'.spec = planMeta.spec
  <2>1. /\ json \in Nat
        /\ index \in [state : {"none", "ok", "torn"}, ids : SUBSET Nat]
        /\ plan \in [state : {"none", "ok", "torn"}, checksum : Nat, from : Nat]
        /\ planMeta \in [state : {"none", "ok", "torn"}, checksum : Nat, spec : Nat]
    BY <1>1 DEF DocumentsTyped
  <2>2. /\ json' \in {json, 0}
        /\ index' \in {index, [index EXCEPT !.state = "torn"]}
        /\ plan' \in {plan, [plan EXCEPT !.state = "torn"]}
        /\ planMeta' \in {planMeta, [planMeta EXCEPT !.state = "torn"]}
    BY DEF CrashAuthor, documents
  <2> QED BY <2>1, <2>2
<1>7. /\ meta' \in [Gate -> [status : Verdict \cup {"none", "pending", "torn"}, hash : Nat, approvals : SUBSET Nat, cited : Nat]]
      /\ \A g \in Gate : /\ meta'[g].hash = meta[g].hash /\ meta'[g].approvals = meta[g].approvals
                         /\ meta'[g].status = meta[g].status \/ meta'[g].status = "torn"
  <2>1. meta' = meta \/ meta' = [meta EXCEPT ![a.gate] = Torn1]
    <3>1. meta' = meta \/ meta' = [meta EXCEPT ![author[p].gate].status = "torn"]
      BY DEF CrashAuthor, documents
    <3>2. CASE meta' = [meta EXCEPT ![author[p].gate].status = "torn"]
      BY <3>2
    <3> QED BY <3>1, <3>2
  <2>2. /\ Torn1 \in [status : Verdict \cup {"none", "pending", "torn"}, hash : Nat, approvals : SUBSET Nat, cited : Nat]
        /\ Torn1.status = "torn" /\ Torn1.hash = meta[a.gate].hash /\ Torn1.approvals = meta[a.gate].approvals
    BY <1>1, <1>3 DEF DocumentsTyped
  <2> HIDE DEF Torn1
  <2>3. meta \in [Gate -> [status : Verdict \cup {"none", "pending", "torn"}, hash : Nat, approvals : SUBSET Nat, cited : Nat]]
    BY <1>1 DEF DocumentsTyped
  <2>4. CASE meta' = meta
    BY <2>3, <2>4
  <2>5. CASE meta' = [meta EXCEPT ![a.gate] = Torn1]
    <3>1. meta'[a.gate] = Torn1 /\ \A g \in Gate : g # a.gate => meta'[g] = meta[g]
      BY <1>3, <2>3, <2>5
    <3>2. meta' \in [Gate -> [status : Verdict \cup {"none", "pending", "torn"}, hash : Nat, approvals : SUBSET Nat, cited : Nat]]
      BY <1>3, <2>2, <2>3, <2>5
    <3> QED BY <2>2, <3>1, <3>2
  <2> QED BY <2>1, <2>4, <2>5
<1>8. \A gate, hash : Approved(gate, hash)' <=> Approved(gate, hash)
  BY <1>5 DEF Approved
<1>9. DocumentsTyped'
  BY <1>1, <1>4, <1>5, <1>6, <1>7 DEF DocumentsTyped
<1>10. LockHeld'
  BY <1>1, <1>2, <1>3, <1>4 DEF LockHeld, Holding
<1>11. Decided'
  <2>1. \A q \in Process : author'[q].at = "decided" => q # p /\ author'[q] = author[q] /\ author[q].gate \in Gate
    BY <1>1, <1>3, <1>4 DEF DocumentsTyped, Job
  <2>2. ApprovedHash'
    BY <1>1, <1>5, <1>7 DEF Decided, ApprovedHash
  <2> QED BY <1>1, <1>5, <1>7, <2>1, <2>2 DEF Decided
<1>12. IndexFollows'
  BY <1>2 DEF IndexFollows
<1>13. PlansApproved'
  BY <1>1, <1>3, <1>4, <1>6, <1>8 DEF PlansApproved
<1>14. SpecsApproved'
  BY <1>2 DEF SpecsApproved
<1>15. VersionsGrow'
  BY <1>2 DEF VersionsGrow
<1> QED BY <1>9, <1>10, <1>11, <1>12, <1>13, <1>14, <1>15 DEF DocumentsInv

LEMMA DocumentsStep == DocumentsInv /\ [Next]_vars => DocumentsInv'
<1> SUFFICES ASSUME DocumentsInv, [Next]_vars PROVE DocumentsInv'
  OBVIOUS
\* What the other parts do with the lock is nothing to the documents.
<1>1. ASSUME env' = env, UNCHANGED documentVars, env.part # "documents"
      PROVE  DocumentsInv'
  <2>1. /\ DocumentsTyped /\ LockHeld /\ Decided /\ IndexFollows
        /\ PlansApproved /\ SpecsApproved /\ VersionsGrow
    BY DEF DocumentsInv
  <2>2. /\ file' = file /\ meta' = meta /\ json' = json /\ drafts' = drafts /\ source' = source /\ records' = records
        /\ index' = index /\ plan' = plan /\ planMeta' = planMeta /\ plans' = plans /\ author' = author
    BY <1>1 DEF documentVars, documents
  <2>3. \A gate, hash : Approved(gate, hash)' <=> Approved(gate, hash)
    BY <2>2 DEF Approved
  <2>4. DocumentsTyped'
    BY <2>1, <2>2 DEF DocumentsTyped
  <2>5. LockHeld'
    BY <1>1, <2>1, <2>2 DEF LockHeld, Holding
  <2>6. Decided'
    BY <2>1, <2>2 DEF Decided, ApprovedHash
  <2>7. IndexFollows'
    BY <1>1, <2>1, <2>2 DEF IndexFollows
  <2>8. PlansApproved'
    BY <2>1, <2>2, <2>3 DEF PlansApproved
  <2>9. SpecsApproved'
    BY <1>1, <2>1, <2>2, <2>3 DEF SpecsApproved
  <2>10. VersionsGrow'
    BY <1>1, <2>1, <2>2 DEF VersionsGrow
  <2> QED BY <2>4, <2>5, <2>6, <2>7, <2>8, <2>9, <2>10 DEF DocumentsInv
<1>2. CASE UNCHANGED vars
  <2>1. /\ DocumentsTyped /\ LockHeld /\ Decided /\ IndexFollows
        /\ PlansApproved /\ SpecsApproved /\ VersionsGrow
    BY DEF DocumentsInv
  <2>2. /\ file' = file /\ meta' = meta /\ json' = json /\ drafts' = drafts /\ source' = source /\ records' = records
        /\ index' = index /\ plan' = plan /\ planMeta' = planMeta /\ plans' = plans /\ author' = author
        /\ env' = env /\ lock' = lock
    BY <1>2 DEF vars, documentVars, documents
  <2>3. \A gate, hash : Approved(gate, hash)' <=> Approved(gate, hash)
    BY <2>2 DEF Approved
  <2>4. DocumentsTyped' /\ LockHeld'
    BY <2>1, <2>2 DEF DocumentsTyped, LockHeld
  <2>5. Decided' /\ IndexFollows'
    BY <2>1, <2>2 DEF Decided, ApprovedHash, IndexFollows
  <2>6. PlansApproved'
    BY <2>1, <2>2, <2>3 DEF PlansApproved
  <2>7. SpecsApproved'
    BY <2>1, <2>2, <2>3 DEF SpecsApproved
  <2>8. VersionsGrow'
    BY <2>1, <2>2 DEF VersionsGrow
  <2> QED BY <2>4, <2>5, <2>6, <2>7, <2>8 DEF DocumentsInv
<1>3. ASSUME Next PROVE env' = env
  BY <1>3 DEF Next
<1>4. CASE Next /\ env.part = "documents" /\ DocumentsNext
  <2>1. env' = env /\ env.part = "documents"
    BY <1>3, <1>4
  <2>2. ASSUME NEW p \in Process, Author(p) PROVE DocumentsInv'
    <3>1. CASE \/ BeginDraft(p) \/ HashDocument(p) \/ BeginCompose(p) \/ LoadPrd(p) \/ ReadPrd(p)
               \/ \E force \in BOOLEAN : BeginPlan(p, force)
               \/ LoadSpec(p) \/ ReadRequirements(p) \/ BeginTrace(p) \/ TraceSpec(p) \/ Links(p) \/ WriteTrace(p)
      BY <2>1, <3>1, ReadingSteps
    <3>2. CASE WritePrd(p) \/ WriteMetadata(p) \/ WriteSpec(p) \/ WriteSpecJson(p)
      BY <2>1, <3>2, WritePrdStep, WriteMetadataStep, WriteSpecStep, WriteSpecJsonStep
    <3>3. CASE \E g \in Gate, v \in Verdict : WriteRecord(p, g, v)
      BY <2>1, <3>3, WriteRecordStep
    <3>4. CASE UpdateMetadata(p) \/ UpdateIndex(p) \/ WritePlan(p) \/ WritePlanMetadata(p) \/ CrashAuthor(p)
      BY <2>1, <3>4, UpdateMetadataStep, UpdateIndexStep, WritePlanStep, WritePlanMetadataStep, CrashStep
    <3> QED BY <2>2, <3>1, <3>2, <3>3, <3>4 DEF Author
  <2> QED BY <1>4, <2>1, <2>2, EditStep DEF DocumentsNext
<1>5. CASE Next /\ ~(env.part = "documents" /\ DocumentsNext)
  <2>1. env.part # "documents" /\ UNCHANGED documentVars
    BY <1>5 DEF Next
  <2> QED BY <1>1, <1>3, <1>5, <2>1
<1> QED BY <1>2, <1>4, <1>5

LEMMA ApprovalsFollow == DocumentsInv => ApprovalsAgree
<1> SUFFICES ASSUME DocumentsInv PROVE ApprovalsAgree
  OBVIOUS
<1>1. ApprovedHash
  BY DEF DocumentsInv, Decided
<1>2. IndexComplete
  <2> SUFFICES ASSUME Quiet, "crash" \notin env.events PROVE index.ids = DOMAIN records
    BY DEF IndexComplete
  <2>1. \A p \in Process : author[p].at \notin {"decided", "index"}
    BY DEF Quiet
  <2> QED BY <2>1 DEF DocumentsInv, IndexFollows
<1> QED BY <1>1, <1>2 DEF ApprovalsAgree

LEMMA PlansFollow == DocumentsInv => PlanFollows
<1> SUFFICES ASSUME DocumentsInv PROVE PlanFollows
  OBVIOUS
<1>1. PlanOfApproved
  BY DEF DocumentsInv, PlansApproved, PlanOfApproved
<1>2. SpecOfApproved
  BY DEF DocumentsInv, SpecsApproved, SpecOfApproved
<1>3. NoChangeMeansCurrent
  <2> SUFFICES ASSUME Quiet, file["spec"] = meta["spec"].hash, ~HasChanges, env.events \cap {"crash", "edit"} = {}
               PROVE  plan.from = meta["spec"].hash /\ json = meta["spec"].hash
    BY DEF NoChangeMeansCurrent
  <2>1. /\ planMeta.state = "ok" /\ plan.state = "ok" /\ planMeta.checksum = plan.checksum
        /\ planMeta.spec = meta["spec"].hash
    BY DEF HasChanges
  <2>2. /\ file["spec"] = Len(source) /\ json = Len(source) /\ planMeta.spec <= plan.from /\ plan.from <= json
    BY <2>1 DEF DocumentsInv, VersionsGrow, Quiet
  <2>3. plan.from \in Nat /\ Len(source) \in Nat
    BY DEF DocumentsInv, DocumentsTyped
  <2> QED BY <2>1, <2>2, <2>3
<1> QED BY <1>1, <1>2, <1>3 DEF PlanFollows, ChainOfApproval

(***************************************************************************)
(* A document is said to be approved only if an approval on disk is for    *)
(* the hash its metadata states, and approvals.json misses no decision     *)
(* unless a process died: however many processes draft, compose, decide    *)
(* and plan beside one another, edit the files and die.                    *)
(* (recordPRDApproval, recordSpecApproval)                                 *)
(***************************************************************************)
THEOREM ApprovalsTrue == Spec => []ApprovalsAgree
<1>1. Spec => []DocumentsInv
  BY DocumentsStart, DocumentsStep, PTL DEF Spec
<1> QED BY <1>1, ApprovalsFollow, PTL

(***************************************************************************)
(* A plan is made of a specification that was approved; while commands     *)
(* follow one another, every specification is made of an approved PRD; and *)
(* a diff that reports no change, against the metadata of the              *)
(* specification on disk, tells that the plan was made of it.              *)
(* (generateExecutionPlan, composeSpecification, comparePlanDiff)          *)
(***************************************************************************)
THEOREM PlansTrue == Spec => []PlanFollows
<1>1. Spec => []DocumentsInv
  BY DocumentsStart, DocumentsStep, PTL DEF Spec
<1> QED BY <1>1, PlansFollow, PTL
-----------------------------------------------------------------------------
(* Context.tla *)

Summarizing == {"file", "chunk", "call", "persist"}
WorkStage == Summarizing \cup {"idle", "hash", "collect", "store", "hashes"}
Versions == [File -> Content]
Item == [file : File, force : BOOLEAN, keep : BOOLEAN]
ChunkSummary == [file : File, index : Nat, of : Content, limit : Nat]
WorkerRecord ==
    [at : WorkStage, first : Versions, files : Versions, todo : Seq(Item), limit : Nat, content : Content,
     index : Nat, summaries : SUBSET ChunkSummary]

ContextTyped ==
    /\ env \in Environment
    /\ disk \in Versions
    /\ summary \in [state : {"none", "ok", "torn"}, files : Versions, summaries : SUBSET ChunkSummary]
    /\ hashes \in [state : {"none", "ok", "torn"}, files : Versions]
    /\ cache \subseteq [file : File, hash : Content, index : Nat, of : Content, limit : Nat]
    /\ worker \in [Process -> WorkerRecord]

HashesLocked ==
    /\ \A p \in Process : worker[p].at = "hashes" => lock = p
    /\ env.part # "context" => \A p \in Process : worker[p].at = "idle"

\* The repository changes only while nobody is at work.
Still == "anytime" \notin env.events
Unfailing == Still /\ "failure" \notin env.events /\ \A m, n \in env.limits : m = n

Of(files, summaries) == \A s \in summaries : s.of = files[s.file] /\ s.limit \in env.limits
AllChunks(f, n, summaries) == \A i \in 1..ChunkCount(f, n) : \E s \in summaries : s.file = f /\ s.index = i

CacheTrue == Still => \A e \in cache : e.limit \in env.limits /\ (e.of # TornEntry => e.of = e.hash)

DocumentTrue ==
    /\ Still => Of(summary.files, summary.summaries)
    /\ Unfailing /\ summary.summaries # {} =>
            \A f \in File, n \in env.limits : summary.files[f] > 0 => AllChunks(f, n, summary.summaries)

\* What a worker has read is what is there, of what it summarised and has not on its list nothing is missing.
WorkerTrue(w) ==
    /\ w.at \in Summarizing =>
            w.limit \in env.limits /\ \A k \in DOMAIN w.todo : w.files[w.todo[k].file] > 0
    /\ w.at \in {"chunk", "call"} => w.todo # <<>> /\ w.index >= 1
    /\ w.at = "persist" => w.todo = <<>>
    /\ Still =>
            /\ w.at \in {"collect", "store", "hashes"} => w.first = disk
            /\ w.at \in {"store"} \cup Summarizing => \A f \in File : w.files[f] \in {0, disk[f]}
            /\ w.at = "hashes" => \A f \in File : summary.files[f] \in {0, disk[f]}
            /\ w.at \in {"chunk", "call"} => w.content = disk[w.todo[1].file]
            /\ w.at \in Summarizing => Of(w.files, w.summaries)
    /\ Unfailing /\ w.at \in Summarizing =>
            /\ \A f \in File : w.files[f] > 0 =>
                    \/ \E k \in DOMAIN w.todo : w.todo[k].file = f /\ w.todo[k].keep
                    \/ AllChunks(f, w.limit, w.summaries)
            /\ w.at \in {"chunk", "call"} /\ w.todo[1].keep =>
                    \A i \in 1..(w.index - 1) : \E s \in w.summaries : s.file = w.todo[1].file /\ s.index = i

\* Between summary.json and file_hashes.json somebody has the lock.
Between == \E q \in Process : worker[q].at = "hashes"
Matching(files) == \A f \in File : files[f] \in {0, hashes.files[f]}
HashesFollow ==
    env.events \cap {"crash", "anytime"} = {} /\ ~Between =>
        /\ Matching(summary.files)
        /\ \A p \in Process : worker[p].at \in Summarizing => Matching(worker[p].files)

ContextInv ==
    /\ ContextTyped /\ HashesLocked /\ CacheTrue /\ DocumentTrue
    /\ \A p \in Process : WorkerTrue(worker[p])
    /\ HashesFollow

-----------------------------------------------------------------------------
LEMMA ContextSettings ==
    /\ MaxContent \in Nat /\ 0 \in Content /\ 1 \in Content
    /\ \A e \in Environment :
        /\ IsFiniteSet(DOMAIN e.chunks) /\ \A f \in DOMAIN e.chunks : e.chunks[f] \in Nat
        /\ e.limits \subseteq Nat /\ \A n \in e.limits : n > 0
BY ContextAssumption DEF Content

LEMMA Ordered ==
    ASSUME NEW S, IsFiniteSet(S), NEW order \in Orders(S)
    PROVE  /\ order \in Seq(S) /\ DOMAIN order = 1..Len(order)
           /\ \A x \in S : \E i \in DOMAIN order : order[i] = x
<1>1. Cardinality(S) \in Nat
  BY FS_CardinalityType
<1> QED BY <1>1 DEF Orders

LEMMA ContextStart == Init => ContextInv
<1> SUFFICES ASSUME Init PROVE ContextInv
  OBVIOUS
<1>1. /\ env \in Environment
      /\ disk \in Versions
      /\ Absent \in Versions /\ \A f \in File : Absent[f] = 0
  BY ContextSettings DEF Init, ContextInit, Versions, Absent
<1>2. summary = NoSummary /\ hashes = [state |-> "none", files |-> Absent] /\ cache = {}
      /\ worker = [p \in Process |-> Standing]
  BY DEF Init, ContextInit
<1>3. Standing \in WorkerRecord /\ Standing.at = "idle"
  BY <1>1, ContextSettings DEF Standing, WorkerRecord, WorkStage, Summarizing
<1>4. ContextTyped
  <2>1. summary \in [state : {"none", "ok", "torn"}, files : Versions, summaries : SUBSET ChunkSummary]
    BY <1>1, <1>2 DEF NoSummary
  <2>2. hashes \in [state : {"none", "ok", "torn"}, files : Versions]
    BY <1>1, <1>2
  <2>3. worker \in [Process -> WorkerRecord]
    BY <1>2, <1>3
  <2> QED BY <1>1, <1>2, <2>1, <2>2, <2>3 DEF ContextTyped
<1>5. \A p \in Process : worker[p].at = "idle"
  BY <1>2, <1>3
<1>6. HashesLocked /\ CacheTrue
  BY <1>2, <1>5 DEF HashesLocked, CacheTrue
<1>7. DocumentTrue
  BY <1>2 DEF DocumentTrue, NoSummary, Of
<1>8. \A p \in Process : WorkerTrue(worker[p])
  BY <1>5 DEF WorkerTrue, Summarizing
<1>9. HashesFollow
  BY <1>1, <1>2, <1>5 DEF HashesFollow, Matching, NoSummary, Summarizing
<1> QED BY <1>4, <1>6, <1>7, <1>8, <1>9 DEF ContextInv

-----------------------------------------------------------------------------
\* The types of a worker, and how one of them goes on.
LEMMA WorkerTypes ==
    ASSUME ContextTyped, NEW p \in Process
    PROVE  LET w == worker[p]
           IN  /\ w \in WorkerRecord
               /\ w.at \in WorkStage /\ w.first \in Versions /\ w.files \in Versions /\ w.todo \in Seq(Item)
               /\ w.limit \in Nat /\ w.content \in Content /\ w.index \in Nat /\ w.summaries \in SUBSET ChunkSummary
BY DEF ContextTyped, WorkerRecord

LEMMA WorkerMoves ==
    ASSUME ContextInv, NEW p \in Process, NEW w \in WorkerRecord, worker' = [worker EXCEPT ![p] = w],
           UNCHANGED <<disk, summary, hashes, env, lock>>, worker[p].at # "hashes", w.at # "hashes",
           env.part = "context", WorkerTrue(w),
           cache' \subseteq [file : File, hash : Content, index : Nat, of : Content, limit : Nat], CacheTrue',
           w.at \in Summarizing => (worker[p].at \in Summarizing /\ w.files = worker[p].files) \/ w.files = summary.files
    PROVE  ContextInv'
<1>1. \A q \in Process : worker'[q] = IF q = p THEN w ELSE worker[q]
  BY DEF ContextInv, ContextTyped
<1>2. ContextTyped'
  BY DEF ContextInv, ContextTyped, Versions, File, Content, ChunkSummary, WorkerRecord, Item
<1>3. HashesLocked'
  BY <1>1 DEF ContextInv, HashesLocked
<1>4. DocumentTrue'
  BY DEF ContextInv, DocumentTrue, Still, Unfailing, Of, AllChunks, ChunkCount, File
<1>5. \A q \in Process : WorkerTrue(worker'[q])
  BY <1>1 DEF ContextInv
<1>6. \A q \in Process : WorkerTrue(worker[q])'
  BY <1>5 DEF WorkerTrue, Still, Unfailing, Of, AllChunks, ChunkCount, File
<1>7. HashesFollow'
  <2>1. Between' <=> Between
    BY <1>1 DEF Between
  <2>2. \A files : Matching(files)' <=> Matching(files)
    BY DEF Matching, File
  <2> QED BY <1>1, <2>1, <2>2 DEF ContextInv, HashesFollow, Matching, File
<1> QED BY <1>2, <1>3, <1>4, <1>6, <1>7 DEF ContextInv

-----------------------------------------------------------------------------
(* The aggregation. *)

LEMMA BeginAggregationStep ==
    ASSUME ContextInv, env.part = "context", UNCHANGED env, NEW p \in Process, BeginAggregation(p)
    PROVE  ContextInv'
<1> DEFINE w == [worker[p] EXCEPT !.at = "hash"]
<1>1. worker[p] \in WorkerRecord /\ worker[p].at = "idle"
  BY WorkerTypes DEF ContextInv, BeginAggregation, MayWork
<1>2. w \in WorkerRecord /\ w.at = "hash"
  BY <1>1 DEF WorkerRecord, WorkStage
<1>3. worker' = [worker EXCEPT ![p] = w]
  BY DEF BeginAggregation, ContextInv, ContextTyped
<1>4. WorkerTrue(w)
  BY <1>2 DEF WorkerTrue, Summarizing
<1> HIDE DEF w
<1> QED BY <1>1, <1>2, <1>3, <1>4, WorkerMoves DEF BeginAggregation, Summarizing, ContextInv, ContextTyped, CacheTrue, Still

LEMMA HashFilesStep ==
    ASSUME ContextInv, env.part = "context", UNCHANGED env, NEW p \in Process, HashFiles(p)
    PROVE  ContextInv'
<1> DEFINE w == [worker[p] EXCEPT !.at = "collect", !.first = disk]
<1>1. worker[p] \in WorkerRecord /\ worker[p].at = "hash" /\ disk \in Versions
  BY WorkerTypes DEF ContextInv, HashFiles, ContextTyped
<1>2. w \in WorkerRecord /\ w.at = "collect" /\ w.first = disk
  BY <1>1 DEF WorkerRecord, WorkStage
<1>3. worker' = [worker EXCEPT ![p] = w]
  BY DEF HashFiles, ContextInv, ContextTyped
<1>4. WorkerTrue(w)
  BY <1>2 DEF WorkerTrue, Summarizing
<1> HIDE DEF w
<1> QED BY <1>1, <1>2, <1>3, <1>4, WorkerMoves DEF HashFiles, Summarizing, ContextInv, ContextTyped, CacheTrue, Still

LEMMA CollectMetadataStep ==
    ASSUME ContextInv, env.part = "context", UNCHANGED env, NEW p \in Process, CollectMetadata(p)
    PROVE  ContextInv'
<1>1. PICK S : worker' = [worker EXCEPT ![p].at = "store", ![p].files = [f \in File |-> IF f \in S THEN disk[f] ELSE 0]]
  BY DEF CollectMetadata
<1> DEFINE files == [f \in File |-> IF f \in S THEN disk[f] ELSE 0]
           w == [worker[p] EXCEPT !.at = "store", !.files = files]
<1>2. worker[p] \in WorkerRecord /\ worker[p].at = "collect" /\ disk \in Versions
  BY WorkerTypes DEF ContextInv, CollectMetadata, ContextTyped
<1>3. files \in Versions /\ \A f \in File : files[f] \in {0, disk[f]}
  BY <1>2, ContextSettings DEF Versions
<1>4. w \in WorkerRecord /\ w.at = "store" /\ w.first = worker[p].first /\ w.files = files
  BY <1>2, <1>3 DEF WorkerRecord, WorkStage
<1>5. worker' = [worker EXCEPT ![p] = w]
  BY <1>1 DEF ContextInv, ContextTyped
<1>6. WorkerTrue(w)
  <2>1. WorkerTrue(worker[p])
    BY DEF ContextInv
  <2> HIDE DEF w, files
  <2> QED BY <1>2, <1>3, <1>4, <2>1 DEF WorkerTrue, Summarizing
<1>7. UNCHANGED <<disk, summary, hashes, cache, lock>>
  BY DEF CollectMetadata
<1> HIDE DEF w
<1> QED BY <1>2, <1>4, <1>5, <1>6, <1>7, WorkerMoves DEF Summarizing, ContextInv, ContextTyped, CacheTrue, Still

LEMMA WriteContextStep ==
    ASSUME ContextInv, env.part = "context", UNCHANGED env, NEW p \in Process, WriteContext(p)
    PROVE  ContextInv'
<1> PICK w : w = [worker[p] EXCEPT !.at = "hashes"]
  OBVIOUS
<1>1. /\ worker[p] \in WorkerRecord /\ worker[p].at = "store" /\ WorkerTrue(worker[p])
      /\ lock = Nobody /\ lock' = p /\ UNCHANGED <<disk, hashes, cache>>
      /\ summary' = [state |-> "ok", files |-> worker[p].files, summaries |-> {}]
  BY WorkerTypes DEF ContextInv, WriteContext, Acquire
<1>2. w \in WorkerRecord /\ w.at = "hashes" /\ w.first = worker[p].first /\ w.files = worker[p].files
  BY <1>1 DEF WorkerRecord, WorkStage
<1>3. worker' = [worker EXCEPT ![p] = w]
  BY DEF WriteContext, ContextInv, ContextTyped
<1>4. \A q \in Process : worker'[q] = IF q = p THEN w ELSE worker[q]
  BY <1>3 DEF ContextInv, ContextTyped
<1>5. \A q \in Process : worker[q].at # "hashes"
  BY <1>1, DirectoryAssumption DEF ContextInv, HashesLocked
<1>6. ContextTyped'
  <2>1. summary' \in [state : {"none", "ok", "torn"}, files : Versions, summaries : SUBSET ChunkSummary]
    BY <1>1 DEF WorkerRecord
  <2>2. worker' \in [Process -> WorkerRecord]
    BY <1>2, <1>3 DEF ContextInv, ContextTyped
  <2> QED BY <1>1, <2>1, <2>2 DEF ContextInv, ContextTyped, Versions, File, Content, ChunkSummary, WorkerRecord, Item
<1>7. HashesLocked'
  BY <1>1, <1>4, <1>5 DEF HashesLocked
<1>8. CacheTrue' /\ DocumentTrue'
  BY <1>1 DEF ContextInv, CacheTrue, DocumentTrue, Still, Of
<1>9. \A q \in Process : WorkerTrue(worker[q])'
  <2> SUFFICES ASSUME NEW q \in Process PROVE WorkerTrue(worker[q])'
    OBVIOUS
  <2>1. CASE q = p
    BY <1>1, <1>2, <1>4, <2>1 DEF WorkerTrue, Summarizing, Still, File
  <2>2. CASE q # p
    <3>1. WorkerTrue(worker[q]) /\ worker[q].at # "hashes"
      BY <1>5 DEF ContextInv
    <3> QED BY <1>1, <3>1, <1>4, <2>2 DEF WorkerTrue, Still, Unfailing, Of, AllChunks, ChunkCount, File
  <2> QED BY <2>1, <2>2
<1>10. HashesFollow'
  BY <1>2, <1>4 DEF HashesFollow, Between
<1> QED BY <1>6, <1>7, <1>8, <1>9, <1>10 DEF ContextInv

LEMMA WriteHashesStep ==
    ASSUME ContextInv, env.part = "context", UNCHANGED env, NEW p \in Process, WriteHashes(p)
    PROVE  ContextInv'
<1>1. /\ worker[p] \in WorkerRecord /\ worker[p].at = "hashes" /\ WorkerTrue(worker[p])
      /\ lock = p /\ lock' = Nobody /\ UNCHANGED <<disk, summary, cache>>
      /\ hashes' = [state |-> "ok", files |-> worker[p].first]
  BY WorkerTypes DEF ContextInv, WriteHashes, Release
<1>2. worker' = [worker EXCEPT ![p] = Standing]
  BY DEF WriteHashes, Stands
<1>3. \A q \in Process : worker'[q] = IF q = p THEN Standing ELSE worker[q]
  BY <1>2 DEF ContextInv, ContextTyped
<1>4. Standing \in WorkerRecord /\ Standing.at = "idle"
  BY ContextSettings DEF Standing, WorkerRecord, WorkStage, Summarizing, Versions, Absent
<1>5. \A q \in Process : worker'[q].at # "hashes"
  BY <1>1, <1>3, <1>4 DEF ContextInv, HashesLocked
<1>6. ContextTyped'
  <2>1. hashes' \in [state : {"none", "ok", "torn"}, files : Versions]
    BY <1>1 DEF WorkerRecord
  <2>2. worker' \in [Process -> WorkerRecord]
    BY <1>2, <1>4 DEF ContextInv, ContextTyped
  <2> QED BY <1>1, <2>1, <2>2 DEF ContextInv, ContextTyped, Versions, File, Content, ChunkSummary, WorkerRecord, Item
<1>7. HashesLocked'
  BY <1>5 DEF HashesLocked
<1>8. CacheTrue' /\ DocumentTrue'
  BY <1>1 DEF ContextInv, CacheTrue, DocumentTrue, Still, Unfailing, Of, AllChunks, ChunkCount, File
<1>9. \A q \in Process : WorkerTrue(worker[q])'
  <2> SUFFICES ASSUME NEW q \in Process PROVE WorkerTrue(worker[q])'
    OBVIOUS
  <2>1. CASE q = p
    BY <1>3, <1>4, <2>1 DEF WorkerTrue, Summarizing
  <2>2. CASE q # p
    <3>1. WorkerTrue(worker[q])
      BY DEF ContextInv
    <3> QED BY <1>1, <3>1, <1>3, <2>2 DEF WorkerTrue, Still, Unfailing, Of, AllChunks, ChunkCount, File
  <2> QED BY <2>1, <2>2
<1>10. HashesFollow'
  <2> SUFFICES ASSUME env.events \cap {"crash", "anytime"} = {}
               PROVE  /\ Matching(summary.files)'
                      /\ \A q \in Process : worker'[q].at \in Summarizing => Matching(worker[q].files)'
    BY DEF HashesFollow
  <2>1. Still
    BY DEF Still
  <2>2. hashes'.files = disk /\ \A f \in File : summary.files[f] \in {0, disk[f]}
    BY <1>1, <2>1 DEF WorkerTrue
  <2>3. Matching(summary.files)'
    BY <1>1, <2>2 DEF Matching, File
  <2>4. ASSUME NEW q \in Process, worker'[q].at \in Summarizing PROVE Matching(worker[q].files)'
    <3>1. worker'[q] = worker[q]
      BY <1>3, <1>4, <2>4 DEF Summarizing
    <3>2. \A f \in File : worker[q].files[f] \in {0, disk[f]}
      BY <2>1, <2>4, <3>1 DEF ContextInv, WorkerTrue
    <3> QED BY <2>2, <3>1, <3>2 DEF Matching, File
  <2> QED BY <2>3, <2>4
<1> QED BY <1>6, <1>7, <1>8, <1>9, <1>10 DEF ContextInv

-----------------------------------------------------------------------------
(* The summaries. *)

LEMMA PassTypes ==
    ASSUME ContextTyped, NEW S, S \subseteq File, NEW order \in Orders(S), NEW force \in BOOLEAN, NEW keep \in BOOLEAN
    PROVE  /\ Pass(order, force, keep) \in Seq(Item)
           /\ \A k \in DOMAIN Pass(order, force, keep) :
                Pass(order, force, keep)[k].file \in S /\ Pass(order, force, keep)[k].keep = keep
           /\ \A f \in S : \E k \in DOMAIN Pass(order, force, keep) : Pass(order, force, keep)[k].file = f
<1>1. IsFiniteSet(S)
  BY ContextSettings, FS_Subset DEF ContextTyped, File
<1>2. order \in Seq(S) /\ DOMAIN order = 1..Len(order) /\ \A x \in S : \E i \in DOMAIN order : order[i] = x
  BY <1>1, Ordered
<1>3. DOMAIN Pass(order, force, keep) = DOMAIN order
  BY DEF Pass
<1>4. \A k \in DOMAIN order : Pass(order, force, keep)[k] = [file |-> order[k], force |-> force, keep |-> keep]
  BY DEF Pass
<1>5. \A k \in DOMAIN order : order[k] \in S
  BY <1>2
<1>6. Pass(order, force, keep) \in [1..Len(order) -> Item]
  BY <1>2, <1>5 DEF Pass, Item
<1>7. Len(order) \in Nat
  BY <1>2
<1>8. Pass(order, force, keep) \in Seq(Item)
  BY <1>6, <1>7
<1> QED BY <1>2, <1>3, <1>4, <1>5, <1>8

LEMMA BothPasses ==
    ASSUME ContextTyped, NEW S, S \subseteq File, NEW order \in Orders(S)
    PROVE  \A force, keep \in BOOLEAN :
            /\ Pass(order, force, keep) \in Seq(Item)
            /\ \A k \in DOMAIN Pass(order, force, keep) :
                Pass(order, force, keep)[k].file \in S /\ Pass(order, force, keep)[k].keep = keep
            /\ \A f \in S : \E k \in DOMAIN Pass(order, force, keep) : Pass(order, force, keep)[k].file = f
BY PassTypes

LEMMA BeginSummarizeStep ==
    ASSUME ContextInv, env.part = "context", UNCHANGED env, NEW p \in Process, NEW limit \in env.limits,
           NEW force \in BOOLEAN, NEW patterns, BeginSummarize(p, limit, force, patterns)
    PROVE  ContextInv'
<1> DEFINE documented == {f \in File : summary.files[f] > 0}
<1>1. PICK chosen \in Orders(documented \cap patterns), all \in Orders(documented) :
        worker' = [worker EXCEPT ![p] =
            [Standing EXCEPT !.at = "file", !.files = summary.files, !.limit = limit,
                !.todo = IF patterns # {} /\ ~force THEN Pass(chosen, TRUE, FALSE) \o Pass(all, FALSE, TRUE)
                         ELSE Pass(all, force, TRUE)]]
  BY DEF BeginSummarize
<1>2. /\ worker[p].at = "idle" /\ UNCHANGED <<disk, summary, hashes, cache, lock>>
      /\ Still => \A f \in File : summary.files[f] \in {0, disk[f]}
  BY DEF BeginSummarize, MayWork, Still
<1>3. PICK todo : todo = IF patterns # {} /\ ~force THEN Pass(chosen, TRUE, FALSE) \o Pass(all, FALSE, TRUE)
                         ELSE Pass(all, force, TRUE)
  OBVIOUS
<1> DEFINE few == Pass(chosen, TRUE, FALSE)
           every == Pass(all, FALSE, TRUE)
           once == Pass(all, force, TRUE)
<1>4. /\ few \in Seq(Item) /\ every \in Seq(Item) /\ once \in Seq(Item)
      /\ \A k \in DOMAIN few : few[k].file \in documented
      /\ \A k \in DOMAIN every : every[k].file \in documented /\ every[k].keep
      /\ \A k \in DOMAIN once : once[k].file \in documented /\ once[k].keep
      /\ \A f \in documented : \E k \in DOMAIN every : every[k].file = f
      /\ \A f \in documented : \E k \in DOMAIN once : once[k].file = f
  <2>1. ContextTyped /\ documented \subseteq File /\ documented \cap patterns \subseteq File
    BY DEF ContextInv
  <2> HIDE DEF documented, few, every, once
  <2>2. /\ Pass(all, FALSE, TRUE) \in Seq(Item)
        /\ \A k \in DOMAIN Pass(all, FALSE, TRUE) :
                Pass(all, FALSE, TRUE)[k].file \in documented /\ Pass(all, FALSE, TRUE)[k].keep = TRUE
        /\ \A f \in documented : \E k \in DOMAIN Pass(all, FALSE, TRUE) : Pass(all, FALSE, TRUE)[k].file = f
    <3>1. \A anew, keep \in BOOLEAN :
            /\ Pass(all, anew, keep) \in Seq(Item)
            /\ \A k \in DOMAIN Pass(all, anew, keep) :
                Pass(all, anew, keep)[k].file \in documented /\ Pass(all, anew, keep)[k].keep = keep
            /\ \A f \in documented : \E k \in DOMAIN Pass(all, anew, keep) : Pass(all, anew, keep)[k].file = f
      BY <2>1, BothPasses
    <3> QED BY <3>1
  <2>3. /\ Pass(all, force, TRUE) \in Seq(Item)
        /\ \A k \in DOMAIN Pass(all, force, TRUE) :
                Pass(all, force, TRUE)[k].file \in documented /\ Pass(all, force, TRUE)[k].keep = TRUE
        /\ \A f \in documented : \E k \in DOMAIN Pass(all, force, TRUE) : Pass(all, force, TRUE)[k].file = f
    <3>1. \A keep \in BOOLEAN :
            /\ Pass(all, force, keep) \in Seq(Item)
            /\ \A k \in DOMAIN Pass(all, force, keep) :
                Pass(all, force, keep)[k].file \in documented /\ Pass(all, force, keep)[k].keep = keep
            /\ \A f \in documented : \E k \in DOMAIN Pass(all, force, keep) : Pass(all, force, keep)[k].file = f
      BY <2>1, BothPasses
    <3> QED BY <3>1
  <2>4. /\ Pass(chosen, TRUE, FALSE) \in Seq(Item)
        /\ \A k \in DOMAIN Pass(chosen, TRUE, FALSE) :
                Pass(chosen, TRUE, FALSE)[k].file \in documented \cap patterns
    BY <2>1, BothPasses
  <2>5. few = Pass(chosen, TRUE, FALSE) /\ every = Pass(all, FALSE, TRUE) /\ once = Pass(all, force, TRUE)
    BY DEF few, every, once
  <2> QED BY <2>2, <2>3, <2>4, <2>5
<1>5. /\ todo \in Seq(Item)
      /\ \A k \in DOMAIN todo : todo[k].file \in documented
      /\ \A f \in documented : \E k \in DOMAIN todo : todo[k].file = f /\ todo[k].keep
  <2> HIDE DEF few, every, once, documented
  <2>1. CASE todo = once
    BY <1>4, <2>1
  <2>2. CASE todo = few \o every
    <3>1. todo \in Seq(Item) /\ Len(todo) = Len(few) + Len(every)
      BY <1>4, <2>2
    <3>2. /\ \A k \in 1..Len(few) : todo[k] = few[k]
          /\ \A k \in 1..Len(every) : todo[Len(few) + k] = every[k]
      BY <1>4, <2>2
    <3>3. DOMAIN todo = 1..Len(todo) /\ DOMAIN few = 1..Len(few) /\ DOMAIN every = 1..Len(every)
          /\ Len(few) \in Nat /\ Len(every) \in Nat
      BY <1>4, <3>1
    <3>4. ASSUME NEW k \in DOMAIN todo PROVE todo[k].file \in documented
      <4>1. CASE k <= Len(few)
        BY <1>4, <3>2, <3>3, <4>1
      <4>2. CASE k > Len(few)
        <5>1. k - Len(few) \in 1..Len(every) /\ Len(few) + (k - Len(few)) = k
          BY <3>1, <3>3, <4>2
        <5>2. todo[k] = every[k - Len(few)]
          BY <5>1, <3>2
        <5> QED BY <5>1, <5>2, <1>4, <3>3
      <4> QED BY <4>1, <4>2, <3>3
    <3>5. ASSUME NEW f \in documented PROVE \E k \in DOMAIN todo : todo[k].file = f /\ todo[k].keep
      <4>1. PICK k \in DOMAIN every : every[k].file = f /\ every[k].keep
        BY <1>4
      <4>2. Len(few) + k \in DOMAIN todo /\ todo[Len(few) + k] = every[k]
        BY <3>1, <3>2, <3>3
      <4> QED BY <4>1, <4>2
    <3> QED BY <3>1, <3>4, <3>5
  <2> QED BY <1>3, <2>1, <2>2 DEF few, every, once
<1> HIDE DEF few, every, once
<1>6. PICK w : w = [Standing EXCEPT !.at = "file", !.files = summary.files, !.limit = limit, !.todo = todo]
  OBVIOUS
<1>7. /\ w \in WorkerRecord /\ w.at = "file" /\ w.files = summary.files /\ w.limit = limit /\ w.todo = todo
      /\ w.summaries = {}
  <2>1. summary.files \in Versions /\ limit \in Nat
    BY ContextSettings DEF ContextInv, ContextTyped
  <2> QED BY <1>5, <1>6, <2>1, ContextSettings DEF Standing, WorkerRecord, WorkStage, Summarizing, Versions, Absent
<1>8. worker' = [worker EXCEPT ![p] = w]
  BY <1>1, <1>3, <1>6
<1>9. WorkerTrue(w)
  <2>1. \A k \in DOMAIN w.todo : w.files[w.todo[k].file] > 0
    BY <1>5, <1>7
  <2>2. \A f \in File : w.files[f] > 0 => \E k \in DOMAIN w.todo : w.todo[k].file = f /\ w.todo[k].keep
    BY <1>5, <1>7
  <2> QED BY <1>2, <1>7, <2>1, <2>2 DEF WorkerTrue, Summarizing, Of
<1> QED BY <1>2, <1>7, <1>8, <1>9, WorkerMoves DEF Summarizing, ContextInv, ContextTyped, CacheTrue, Still

\* The list of a worker is never empty while it is at a chunk.
LEMMA AtChunk ==
    ASSUME ContextInv, NEW p \in Process, worker[p].at \in {"chunk", "call"}
    PROVE  LET w == worker[p]
           IN  /\ w.todo \in Seq(Item) /\ w.todo # <<>> /\ Head(w.todo) = w.todo[1] /\ 1 \in DOMAIN w.todo
               /\ w.todo[1] \in Item /\ w.todo[1].file \in File /\ w.todo[1].keep \in BOOLEAN
               /\ w.index \in Nat /\ w.index >= 1 /\ w.limit \in env.limits
               /\ w.files[w.todo[1].file] > 0
               /\ Still => w.content = w.files[w.todo[1].file]
<1>1. worker[p].todo \in Seq(Item) /\ WorkerTrue(worker[p]) /\ worker[p].index \in Nat
  BY WorkerTypes DEF ContextInv
<1>2. worker[p].todo # <<>> /\ worker[p].index >= 1 /\ worker[p].limit \in env.limits
  BY <1>1 DEF WorkerTrue, Summarizing
<1>3. 1 \in DOMAIN worker[p].todo /\ Head(worker[p].todo) = worker[p].todo[1] /\ worker[p].todo[1] \in Item
  BY <1>1, <1>2
<1>4. worker[p].todo[1].file \in File /\ worker[p].todo[1].keep \in BOOLEAN
  BY <1>3 DEF Item
<1>5. worker[p].files[worker[p].todo[1].file] > 0
  BY <1>1, <1>3 DEF WorkerTrue, Summarizing
<1>6. Still => worker[p].content = worker[p].files[worker[p].todo[1].file]
  <2> SUFFICES ASSUME Still PROVE worker[p].content = worker[p].files[worker[p].todo[1].file]
    OBVIOUS
  <2>1. worker[p].files[worker[p].todo[1].file] \in {0, disk[worker[p].todo[1].file]}
        /\ worker[p].content = disk[worker[p].todo[1].file]
    BY <1>1, <1>4 DEF WorkerTrue, Summarizing
  <2> QED BY <1>5, <2>1
<1> QED BY <1>1, <1>2, <1>3, <1>4, <1>5, <1>6

\* A worker goes on to the next chunk with the summaries it has got.
LEMMA NextChunk ==
    ASSUME ContextInv, NEW p \in Process, worker[p].at \in {"chunk", "call"},
           NEW summaries \in SUBSET ChunkSummary, worker[p].summaries \subseteq summaries,
           Still => Of(worker[p].files, summaries),
           Unfailing /\ worker[p].todo[1].keep =>
                \E s \in summaries : s.file = worker[p].todo[1].file /\ s.index = worker[p].index,
           NEW v, v = [Next1(worker[p]) EXCEPT !.summaries = summaries]
    PROVE  v \in WorkerRecord /\ v.at \in {"chunk", "file"} /\ v.files = worker[p].files /\ WorkerTrue(v)
<1>1. PICK w : w = worker[p]
  OBVIOUS
<1>2. /\ w \in WorkerRecord /\ w.at \in {"chunk", "call"} /\ WorkerTrue(w)
      /\ w.todo \in Seq(Item) /\ w.index \in Nat /\ w.files \in Versions /\ w.summaries \subseteq summaries
  BY <1>1, WorkerTypes DEF ContextInv
<1>3. PICK first : first = w.todo[1]
  OBVIOUS
<1>4. /\ w.todo # <<>> /\ Head(w.todo) = first /\ first.file \in File /\ first.keep \in BOOLEAN
      /\ w.index >= 1 /\ w.limit \in env.limits /\ w.files[first.file] > 0
      /\ Still => w.content = disk[first.file] /\ \A f \in File : w.files[f] \in {0, disk[f]}
  BY <1>1, <1>2, <1>3, AtChunk DEF WorkerTrue, Summarizing
<1>5. ChunkCount(first.file, w.limit) \in Int
  BY <1>4, ContextSettings DEF ChunkCount, ContextInv, ContextTyped, File
<1>6. Still => Of(w.files, summaries)
  BY <1>1
<1>7. Unfailing /\ first.keep => \A i \in 1..w.index : \E s \in summaries : s.file = first.file /\ s.index = i
  <2> SUFFICES ASSUME Unfailing, first.keep, NEW i \in 1..w.index
               PROVE  \E s \in summaries : s.file = first.file /\ s.index = i
    OBVIOUS
  <2>1. CASE i = w.index
    BY <1>1, <1>3, <2>1
  <2>2. CASE i # w.index
    <3>1. i \in 1..(w.index - 1)
      BY <1>2, <2>2
    <3>2. \A j \in 1..(w.index - 1) : \E s \in w.summaries : s.file = first.file /\ s.index = j
      BY <1>2, <1>3 DEF WorkerTrue, Summarizing
    <3>3. PICK s \in w.summaries : s.file = first.file /\ s.index = i
      BY <3>1, <3>2
    <3> QED BY <3>3, <1>2
  <2> QED BY <2>1, <2>2
<1>8. \A f \in File : AllChunks(f, w.limit, w.summaries) => AllChunks(f, w.limit, summaries)
  BY <1>2 DEF AllChunks
<1>9. CASE w.index < ChunkCount(first.file, w.limit)
  <2>1. v = [w EXCEPT !.at = "chunk", !.index = @ + 1, !.summaries = summaries]
    BY <1>1, <1>2, <1>4, <1>9 DEF Next1, WorkerRecord
  <2>2. /\ v \in WorkerRecord /\ v.at = "chunk" /\ v.files = w.files /\ v.limit = w.limit /\ v.todo = w.todo
        /\ v.index = w.index + 1 /\ v.summaries = summaries /\ v.content = w.content
    <3>1. PICK next : next = w.index + 1 /\ next \in Nat
      BY <1>2
    <3>2. v = [w EXCEPT !.at = "chunk", !.index = next, !.summaries = summaries]
      BY <2>1, <3>1
    <3>3. v \in WorkerRecord
      BY <1>2, <3>1, <3>2 DEF WorkerRecord, WorkStage, Summarizing
    <3>4. /\ v.at = "chunk" /\ v.files = w.files /\ v.limit = w.limit /\ v.todo = w.todo
          /\ v.index = next /\ v.summaries = summaries /\ v.content = w.content
      BY <1>2, <3>2 DEF WorkerRecord
    <3> QED BY <3>1, <3>3, <3>4
  <2>3. Unfailing => \A f \in File : w.files[f] > 0 =>
            (\E k \in DOMAIN w.todo : w.todo[k].file = f /\ w.todo[k].keep) \/ AllChunks(f, w.limit, summaries)
    BY <1>2, <1>8 DEF WorkerTrue, Summarizing
  <2>4. Unfailing /\ first.keep => \A i \in 1..(v.index - 1) : \E s \in summaries : s.file = first.file /\ s.index = i
    BY <1>2, <1>7, <2>2
  <2>5. \A k \in DOMAIN w.todo : w.files[w.todo[k].file] > 0
    BY <1>2 DEF WorkerTrue, Summarizing
  <2>6. WorkerTrue(v)
    BY <1>2, <1>3, <1>4, <1>6, <2>2, <2>3, <2>4, <2>5 DEF WorkerTrue, Summarizing
  <2> QED BY <1>1, <2>2, <2>6
<1>10. CASE ~(w.index < ChunkCount(first.file, w.limit))
  <2>1. v = [w EXCEPT !.at = "file", !.todo = Tail(@), !.content = 0, !.index = 0, !.summaries = summaries]
    BY <1>1, <1>2, <1>4, <1>10 DEF Next1, WorkerRecord
  <2>2. Tail(w.todo) \in Seq(Item) /\ \A k \in DOMAIN Tail(w.todo) : Tail(w.todo)[k] = w.todo[k + 1] /\ k + 1 \in DOMAIN w.todo
    BY <1>2, <1>4
  <2>3. /\ v \in WorkerRecord /\ v.at = "file" /\ v.files = w.files /\ v.limit = w.limit /\ v.todo = Tail(w.todo)
        /\ v.summaries = summaries
    <3>1. PICK rest : rest = Tail(w.todo) /\ rest \in Seq(Item)
      BY <2>2
    <3>2. v = [w EXCEPT !.at = "file", !.todo = rest, !.content = 0, !.index = 0, !.summaries = summaries]
      BY <2>1, <3>1
    <3>3. v \in WorkerRecord
      <4>1. 0 \in Content
        BY ContextSettings
      <4>2. v = [at |-> "file", first |-> w.first, files |-> w.files, todo |-> rest, limit |-> w.limit, content |-> 0,
                 index |-> 0, summaries |-> summaries]
        BY <1>2, <3>2 DEF WorkerRecord
      <4>3. w.first \in Versions /\ w.files \in Versions /\ w.limit \in Nat
        BY <1>2 DEF WorkerRecord
      <4> QED BY <3>1, <4>1, <4>2, <4>3 DEF WorkerRecord, WorkStage, Summarizing
    <3>4. /\ v.at = "file" /\ v.files = w.files /\ v.limit = w.limit /\ v.todo = rest
          /\ v.summaries = summaries
      BY <1>2, <3>2 DEF WorkerRecord
    <3> QED BY <3>1, <3>3, <3>4
  <2>4. Unfailing => \A f \in File : w.files[f] > 0 =>
            (\E k \in DOMAIN v.todo : v.todo[k].file = f /\ v.todo[k].keep) \/ AllChunks(f, w.limit, summaries)
    <3> SUFFICES ASSUME Unfailing, NEW f \in File, w.files[f] > 0, ~AllChunks(f, w.limit, summaries)
                 PROVE  \E k \in DOMAIN v.todo : v.todo[k].file = f /\ v.todo[k].keep
      OBVIOUS
    <3>1. PICK k \in DOMAIN w.todo : w.todo[k].file = f /\ w.todo[k].keep
      BY <1>2, <1>8 DEF WorkerTrue, Summarizing
    <3>2. k # 1
      <4> SUFFICES ASSUME k = 1 PROVE FALSE
        OBVIOUS
      <4>1. first.file = f /\ first.keep
        BY <1>3, <3>1
      <4>2. \A i \in 1..ChunkCount(f, w.limit) : i \in 1..w.index
        BY <1>2, <1>5, <1>10, <4>1
      <4> QED BY <1>7, <4>1, <4>2 DEF AllChunks
    <3>3. k - 1 \in DOMAIN v.todo /\ v.todo[k - 1] = w.todo[k]
      <4>1. k \in 2..Len(w.todo)
        BY <1>2, <3>1, <3>2
      <4>2. Len(Tail(w.todo)) = Len(w.todo) - 1 /\ k - 1 \in 1..(Len(w.todo) - 1) /\ DOMAIN Tail(w.todo) = 1..(Len(w.todo) - 1)
        BY <1>2, <1>4, <4>1
      <4>3. Tail(w.todo)[k - 1] = w.todo[k]
        BY <1>2, <1>4, <4>1, <4>2
      <4> QED BY <2>3, <4>2, <4>3
    <3> QED BY <3>1, <3>3
  <2>5. \A k \in DOMAIN v.todo : v.files[v.todo[k].file] > 0
    <3>1. \A k \in DOMAIN w.todo : w.files[w.todo[k].file] > 0
      BY <1>2 DEF WorkerTrue, Summarizing
    <3> SUFFICES ASSUME NEW k \in DOMAIN v.todo PROVE v.files[v.todo[k].file] > 0
      OBVIOUS
    <3>2. k \in DOMAIN Tail(w.todo) /\ v.todo[k] = Tail(w.todo)[k] /\ v.files = w.files
      BY <2>3
    <3>3. v.todo[k] = w.todo[k + 1] /\ k + 1 \in DOMAIN w.todo
      BY <2>2, <3>2
    <3> QED BY <3>1, <3>2, <3>3
  <2>6. WorkerTrue(v)
    BY <1>4, <1>6, <2>3, <2>4, <2>5 DEF WorkerTrue, Summarizing
  <2> QED BY <1>1, <2>3, <2>6
<1> QED BY <1>1, <1>2, <1>5, <1>9, <1>10

LEMMA ReadFileStep ==
    ASSUME ContextInv, env.part = "context", UNCHANGED env, NEW p \in Process, ReadFile(p)
    PROVE  ContextInv'
<1>1. PICK w : w = worker[p]
  OBVIOUS
<1>2. /\ w \in WorkerRecord /\ w.at = "file" /\ WorkerTrue(w) /\ w.todo \in Seq(Item)
      /\ UNCHANGED <<disk, summary, hashes, cache, lock>>
  BY <1>1, WorkerTypes DEF ContextInv, ReadFile
<1>3. PICK v : v = CASE w.todo = <<>> -> [w EXCEPT !.at = "persist"]
                     [] w.todo # <<>> /\ disk[Head(w.todo).file] = 0 -> [w EXCEPT !.todo = Tail(@)]
                     [] OTHER -> [w EXCEPT !.at = "chunk", !.content = disk[Head(w.todo).file], !.index = 1]
  OBVIOUS
<1>4. worker' = [worker EXCEPT ![p] = v]
  BY <1>1, <1>3 DEF ReadFile
<1>5. /\ w.limit \in env.limits /\ \A k \in DOMAIN w.todo : w.files[w.todo[k].file] > 0
      /\ Still => (\A f \in File : w.files[f] \in {0, disk[f]}) /\ Of(w.files, w.summaries)
      /\ Unfailing => \A f \in File : w.files[f] > 0 =>
            (\E k \in DOMAIN w.todo : w.todo[k].file = f /\ w.todo[k].keep) \/ AllChunks(f, w.limit, w.summaries)
  BY <1>2 DEF WorkerTrue, Summarizing
<1>6. v \in WorkerRecord /\ v.at \in Summarizing /\ v.files = w.files /\ WorkerTrue(v)
  <2>1. CASE w.todo = <<>>
    <3>1. v = [w EXCEPT !.at = "persist"]
      BY <1>3, <2>1
    <3>2. /\ v \in WorkerRecord /\ v.at = "persist" /\ v.files = w.files /\ v.limit = w.limit /\ v.todo = w.todo
          /\ v.summaries = w.summaries
      BY <1>2, <3>1 DEF WorkerRecord, WorkStage, Summarizing
    <3> QED BY <1>5, <2>1, <3>2 DEF WorkerTrue, Summarizing
  <2>2. CASE w.todo # <<>> /\ disk[Head(w.todo).file] = 0
    <3>1. v = [w EXCEPT !.todo = Tail(@)]
      BY <1>3, <2>2
    <3>2. Tail(w.todo) \in Seq(Item) /\ \A k \in DOMAIN Tail(w.todo) : Tail(w.todo)[k] = w.todo[k + 1] /\ k + 1 \in DOMAIN w.todo
      BY <1>2, <2>2
    <3>3. PICK rest : rest = Tail(w.todo) /\ rest \in Seq(Item)
      BY <3>2
    <3>4. /\ v \in WorkerRecord /\ v.at = "file" /\ v.files = w.files /\ v.limit = w.limit /\ v.todo = rest
          /\ v.summaries = w.summaries
      BY <1>2, <3>1, <3>3 DEF WorkerRecord, WorkStage, Summarizing
    <3>5. ~Still
      <4>1. 1 \in DOMAIN w.todo /\ Head(w.todo) = w.todo[1] /\ w.todo[1] \in Item
        BY <1>2, <2>2
      <4>2. w.todo[1].file \in File /\ w.files[w.todo[1].file] > 0 /\ disk[w.todo[1].file] = 0
        BY <1>5, <2>2, <4>1 DEF Item
      <4> QED BY <1>5, <4>2
    <3>6. ASSUME NEW k \in DOMAIN v.todo PROVE v.files[v.todo[k].file] > 0
      <4>1. k \in DOMAIN Tail(w.todo) /\ v.todo[k] = Tail(w.todo)[k] /\ v.files = w.files
        BY <3>3, <3>4
      <4>2. v.todo[k] = w.todo[k + 1] /\ k + 1 \in DOMAIN w.todo
        BY <3>2, <4>1
      <4> QED BY <1>5, <4>1, <4>2
    <3> QED BY <1>5, <3>4, <3>5, <3>6 DEF WorkerTrue, Summarizing, Unfailing
  <2>3. CASE w.todo # <<>> /\ disk[Head(w.todo).file] # 0
    <3>1. 1 \in DOMAIN w.todo /\ Head(w.todo) = w.todo[1] /\ w.todo[1] \in Item
      BY <1>2, <2>3
    <3>2. PICK read : read = disk[w.todo[1].file] /\ read \in Content
      BY <3>1 DEF Item, ContextInv, ContextTyped, Versions
    <3>3. v = [w EXCEPT !.at = "chunk", !.content = read, !.index = 1]
      BY <1>3, <2>3, <3>1, <3>2
    <3>4. /\ v \in WorkerRecord /\ v.at = "chunk" /\ v.files = w.files /\ v.limit = w.limit /\ v.todo = w.todo
          /\ v.summaries = w.summaries /\ v.content = read /\ v.index = 1
      BY <1>2, <3>2, <3>3 DEF WorkerRecord, WorkStage, Summarizing
    <3>5. 1..(v.index - 1) = {}
      BY <3>4
    <3> QED BY <1>5, <2>3, <3>2, <3>4, <3>5 DEF WorkerTrue, Summarizing
  <2> QED BY <2>1, <2>2, <2>3
<1> QED BY <1>1, <1>2, <1>4, <1>6, WorkerMoves DEF Summarizing, ContextInv, ContextTyped, CacheTrue, Still

LEMMA FailStep ==
    ASSUME ContextInv, env.part = "context", UNCHANGED env, NEW p \in Process, Fail(p)
    PROVE  ContextInv'
<1>1. PICK w : w = worker[p]
  OBVIOUS
<1>2. /\ w \in WorkerRecord /\ w.at = "call" /\ WorkerTrue(w) /\ "failure" \in env.events
      /\ UNCHANGED <<disk, summary, hashes, cache, lock>>
      /\ worker' = [worker EXCEPT ![p] = Next1(worker[p])]
  BY <1>1, WorkerTypes DEF ContextInv, Fail
<1>3. PICK v : v = Next1(worker[p])
  OBVIOUS
<1>4. v = [Next1(worker[p]) EXCEPT !.summaries = worker[p].summaries]
  BY <1>1, <1>2, <1>3 DEF Next1, WorkerRecord
<1>5. /\ worker[p].summaries \in SUBSET ChunkSummary
      /\ Still => Of(worker[p].files, worker[p].summaries)
  BY <1>1, <1>2 DEF WorkerTrue, Summarizing, WorkerRecord
<1>6. v \in WorkerRecord /\ v.at \in {"chunk", "file"} /\ v.files = worker[p].files /\ WorkerTrue(v)
  BY <1>1, <1>2, <1>4, <1>5, NextChunk DEF Unfailing
<1> QED BY <1>1, <1>2, <1>3, <1>6, WorkerMoves DEF Summarizing, ContextInv, ContextTyped, CacheTrue, Still

\* The summaries of a worker with one more, kept if its pass is one that keeps them.
LEMMA KeepsChunk ==
    ASSUME ContextInv, NEW p \in Process, worker[p].at \in {"chunk", "call"}, NEW s \in ChunkSummary,
           s.file = worker[p].todo[1].file, s.index = worker[p].index,
           Still => s.of = worker[p].files[s.file] /\ s.limit \in env.limits,
           NEW v, v = [Next1(worker[p]) EXCEPT !.summaries = Kept(worker[p], worker[p].summaries, s)]
    PROVE  v \in WorkerRecord /\ v.at \in {"chunk", "file"} /\ v.files = worker[p].files /\ WorkerTrue(v)
<1>1. PICK summaries : summaries = Kept(worker[p], worker[p].summaries, s)
  OBVIOUS
<1>2. Head(worker[p].todo) = worker[p].todo[1] /\ worker[p].todo[1].keep \in BOOLEAN
  BY AtChunk
<1>3. worker[p].summaries \in SUBSET ChunkSummary /\ WorkerTrue(worker[p])
  BY WorkerTypes DEF ContextInv
<1>4. summaries = IF worker[p].todo[1].keep THEN worker[p].summaries \cup {s} ELSE worker[p].summaries
  BY <1>1, <1>2 DEF Kept
<1>5. summaries \in SUBSET ChunkSummary /\ worker[p].summaries \subseteq summaries
  BY <1>3, <1>4
<1>6. Still => Of(worker[p].files, summaries)
  BY <1>3, <1>4 DEF WorkerTrue, Summarizing, Of
<1>7. worker[p].todo[1].keep => s \in summaries
  BY <1>4
<1>8. v = [Next1(worker[p]) EXCEPT !.summaries = summaries]
  BY <1>1
<1>9. Unfailing /\ worker[p].todo[1].keep =>
            \E t \in summaries : t.file = worker[p].todo[1].file /\ t.index = worker[p].index
  BY <1>7
<1> QED BY <1>5, <1>6, <1>8, <1>9, NextChunk

LEMMA LookUpStep ==
    ASSUME ContextInv, env.part = "context", UNCHANGED env, NEW p \in Process, LookUp(p)
    PROVE  ContextInv'
<1>1. PICK w : w = worker[p]
  OBVIOUS
<1>2. /\ w \in WorkerRecord /\ w.at = "chunk" /\ WorkerTrue(w) /\ Head(w.todo) = w.todo[1] /\ w.todo[1].file \in File
      /\ UNCHANGED <<disk, summary, hashes, cache, lock>> /\ w.index \in Nat
  BY <1>1, WorkerTypes, AtChunk DEF ContextInv, LookUp
<1> DEFINE hits == {e \in CachedAt(w) : e.of # TornEntry}
<1>3. CASE ~Head(w.todo).force /\ hits # {}
  <2>1. PICK e : e = CHOOSE x \in hits : TRUE
    OBVIOUS
  <2>2. e \in cache /\ e.file = w.todo[1].file /\ e.index = w.index /\ e.hash = w.files[e.file] /\ e.of # TornEntry
    BY <1>2, <1>3, <2>1 DEF CachedAt
  <2>3. PICK s : s = [Summary(w, e.of) EXCEPT !.limit = e.limit]
    OBVIOUS
  <2>4. s = [file |-> w.todo[1].file, index |-> w.index, of |-> e.of, limit |-> e.limit]
    BY <1>2, <2>3 DEF Summary
  <2>5. e.of \in Content /\ e.limit \in Nat /\ (Still => e.limit \in env.limits /\ e.of = e.hash)
    BY <2>2 DEF ContextInv, ContextTyped, CacheTrue
  <2>6. s \in ChunkSummary /\ s.file = w.todo[1].file /\ s.index = w.index /\ s.of = e.of /\ s.limit = e.limit
    BY <1>2, <2>4, <2>5 DEF ChunkSummary
  <2>7. PICK v : v = [Next1(w) EXCEPT !.summaries = Kept(w, w.summaries, s)]
    OBVIOUS
  <2>8. v \in WorkerRecord /\ v.at \in {"chunk", "file"} /\ v.files = w.files /\ WorkerTrue(v)
    <3>1. Still => s.of = w.files[s.file] /\ s.limit \in env.limits
      BY <2>2, <2>5, <2>6
    <3>2. s.file = worker[p].todo[1].file /\ s.index = worker[p].index /\ worker[p].at = "chunk"
      BY <1>1, <1>2, <2>6
    <3>3. v = [Next1(worker[p]) EXCEPT !.summaries = Kept(worker[p], worker[p].summaries, s)]
      BY <1>1, <2>7
    <3>4. Still => s.of = worker[p].files[s.file] /\ s.limit \in env.limits
      BY <1>1, <3>1
    <3> HIDE DEF hits
    <3> QED BY <1>1, <2>6, <3>2, <3>3, <3>4, KeepsChunk
  <2>9. worker' = [worker EXCEPT ![p] = v]
    <3>1. worker' = [worker EXCEPT ![p] = [Next1(w) EXCEPT !.summaries = Kept(w, @, s)]]
      BY <1>1, <1>3, <2>1, <2>3 DEF LookUp
    <3>2. Next1(w).summaries = w.summaries
      BY <1>2 DEF Next1, WorkerRecord
    <3> QED BY <2>7, <3>1, <3>2
  <2> QED BY <1>1, <1>2, <2>8, <2>9, WorkerMoves DEF Summarizing, ContextInv, ContextTyped, CacheTrue, Still
<1>4. CASE ~(~Head(w.todo).force /\ hits # {})
  <2>1. PICK v : v = [w EXCEPT !.at = "call"]
    OBVIOUS
  <2>2. worker' = [worker EXCEPT ![p] = v]
    <3>1. worker' = [worker EXCEPT ![p].at = "call"]
      BY <1>1, <1>4 DEF LookUp
    <3> QED BY <1>1, <2>1, <3>1 DEF ContextInv, ContextTyped
  <2>3. /\ v \in WorkerRecord /\ v.at = "call" /\ v.files = w.files /\ v.limit = w.limit /\ v.todo = w.todo
        /\ v.summaries = w.summaries /\ v.content = w.content /\ v.index = w.index
    BY <1>2, <2>1 DEF WorkerRecord, WorkStage, Summarizing
  <2>4. WorkerTrue(v)
    BY <1>2, <2>3 DEF WorkerTrue, Summarizing
  <2> QED BY <1>1, <1>2, <2>2, <2>3, <2>4, WorkerMoves DEF Summarizing, ContextInv, ContextTyped, CacheTrue, Still
<1> QED BY <1>3, <1>4

LEMMA WrittenTypes ==
    ASSUME ContextInv, NEW p \in Process, worker[p].at = "call", NEW of \in Content,
           Still => of \in {TornEntry, worker[p].files[worker[p].todo[1].file]},
           cache' = (cache \ CachedAt(worker[p])) \cup {Written(worker[p], of)}, UNCHANGED env
    PROVE  cache' \subseteq [file : File, hash : Content, index : Nat, of : Content, limit : Nat] /\ CacheTrue'
<1>1. PICK e : e = Written(worker[p], of)
  OBVIOUS
<1>2. /\ Head(worker[p].todo) = worker[p].todo[1] /\ worker[p].todo[1].file \in File /\ worker[p].index \in Nat
      /\ worker[p].limit \in env.limits /\ worker[p].files \in Versions /\ worker[p].limit \in Nat
  BY AtChunk, WorkerTypes DEF ContextInv
<1>3. e = [file |-> worker[p].todo[1].file, hash |-> worker[p].files[worker[p].todo[1].file], index |-> worker[p].index,
           of |-> of, limit |-> worker[p].limit]
  BY <1>1, <1>2 DEF Written
<1>4. worker[p].files[worker[p].todo[1].file] \in Content
  BY <1>2 DEF Versions
<1>5. e \in [file : File, hash : Content, index : Nat, of : Content, limit : Nat]
  BY <1>2, <1>3, <1>4
<1>6. e.limit \in env.limits /\ (Still /\ e.of # TornEntry => e.of = e.hash)
  BY <1>2, <1>3
<1>7. \A x \in cache' : x \in cache \/ x = e
  BY <1>1
<1> QED BY <1>5, <1>6, <1>7 DEF ContextInv, ContextTyped, CacheTrue, Still

LEMMA AnswerStep ==
    ASSUME ContextInv, env.part = "context", UNCHANGED env, NEW p \in Process, Answer(p)
    PROVE  ContextInv'
<1>1. PICK w : w = worker[p]
  OBVIOUS
<1>2. /\ w \in WorkerRecord /\ w.at = "call" /\ WorkerTrue(w) /\ Head(w.todo) = w.todo[1] /\ w.todo[1].file \in File
      /\ UNCHANGED <<disk, summary, hashes, lock>> /\ w.index \in Nat /\ w.limit \in Nat /\ w.content \in Content
      /\ w.limit \in env.limits
      /\ Still => w.content = w.files[w.todo[1].file]
  BY <1>1, WorkerTypes, AtChunk DEF ContextInv, Answer
<1>3. cache' = (cache \ CachedAt(w)) \cup {Written(w, w.content)}
  BY <1>1 DEF Answer
<1>4. cache' \subseteq [file : File, hash : Content, index : Nat, of : Content, limit : Nat] /\ CacheTrue'
  <2>1. Still => w.content \in {TornEntry, worker[p].files[worker[p].todo[1].file]}
    BY <1>1, <1>2
  <2>2. cache' = (cache \ CachedAt(worker[p])) \cup {Written(worker[p], w.content)}
    BY <1>1, <1>3
  <2>3. worker[p].at = "call"
    BY <1>1, <1>2
  <2> QED BY <1>2, <2>1, <2>2, <2>3, WrittenTypes
<1>5. PICK s : s = Summary(w, w.content)
  OBVIOUS
<1>6. s = [file |-> w.todo[1].file, index |-> w.index, of |-> w.content, limit |-> w.limit]
  BY <1>2, <1>5 DEF Summary
<1>7. s \in ChunkSummary /\ s.file = w.todo[1].file /\ s.index = w.index /\ s.of = w.content /\ s.limit = w.limit
  BY <1>2, <1>6 DEF ChunkSummary
<1>8. PICK v : v = [Next1(w) EXCEPT !.summaries = Kept(w, w.summaries, s)]
  OBVIOUS
<1>9. v \in WorkerRecord /\ v.at \in {"chunk", "file"} /\ v.files = w.files /\ WorkerTrue(v)
  <2>1. Still => s.of = w.files[s.file] /\ s.limit \in env.limits
    BY <1>2, <1>7
  <2>2. s.file = worker[p].todo[1].file /\ s.index = worker[p].index /\ worker[p].at = "call"
    BY <1>1, <1>2, <1>7
  <2>3. v = [Next1(worker[p]) EXCEPT !.summaries = Kept(worker[p], worker[p].summaries, s)]
    BY <1>1, <1>8
  <2>4. Still => s.of = worker[p].files[s.file] /\ s.limit \in env.limits
    BY <1>1, <2>1
  <2> QED BY <1>1, <1>7, <2>2, <2>3, <2>4, KeepsChunk
<1>10. worker' = [worker EXCEPT ![p] = v]
  <2>1. worker' = [worker EXCEPT ![p] = [Next1(w) EXCEPT !.summaries = Kept(w, @, s)]]
    BY <1>1, <1>5 DEF Answer
  <2>2. Next1(w).summaries = w.summaries
    BY <1>2 DEF Next1, WorkerRecord
  <2> QED BY <1>8, <2>1, <2>2
<1> QED BY <1>1, <1>2, <1>4, <1>9, <1>10, WorkerMoves DEF Summarizing

LEMMA PersistSummariesStep ==
    ASSUME ContextInv, env.part = "context", UNCHANGED env, NEW p \in Process, PersistSummaries(p)
    PROVE  ContextInv'
<1>1. PICK w : w = worker[p]
  OBVIOUS
<1>2. /\ w \in WorkerRecord /\ w.at = "persist" /\ WorkerTrue(w)
      /\ lock = Nobody /\ UNCHANGED <<disk, hashes, cache, lock>>
      /\ summary' = [state |-> "ok", files |-> w.files, summaries |-> w.summaries]
      /\ worker' = [worker EXCEPT ![p] = Standing]
  BY <1>1, WorkerTypes DEF ContextInv, PersistSummaries, Free, Stands
<1>3. \A q \in Process : worker'[q] = IF q = p THEN Standing ELSE worker[q]
  BY <1>2 DEF ContextInv, ContextTyped
<1>4. Standing \in WorkerRecord /\ Standing.at = "idle"
  BY ContextSettings DEF Standing, WorkerRecord, WorkStage, Summarizing, Versions, Absent
<1>5. \A q \in Process : worker[q].at # "hashes" /\ worker'[q].at # "hashes"
  BY <1>2, <1>3, <1>4, DirectoryAssumption DEF ContextInv, HashesLocked
<1>6. ContextTyped'
  <2>1. summary' \in [state : {"none", "ok", "torn"}, files : Versions, summaries : SUBSET ChunkSummary]
    BY <1>2 DEF WorkerRecord
  <2>2. worker' \in [Process -> WorkerRecord]
    BY <1>2, <1>4 DEF ContextInv, ContextTyped
  <2> QED BY <1>2, <2>1, <2>2 DEF ContextInv, ContextTyped, Versions, File, Content, ChunkSummary, WorkerRecord, Item
<1>7. HashesLocked'
  BY <1>5 DEF HashesLocked
<1>8. CacheTrue'
  BY <1>2 DEF ContextInv, CacheTrue, Still
<1>9. DocumentTrue'
  <2>1. Still => Of(w.files, w.summaries)
    BY <1>2 DEF WorkerTrue, Summarizing
  <2>2. Unfailing => \A f \in File : w.files[f] > 0 => AllChunks(f, w.limit, w.summaries)
    <3>1. w.todo = <<>>
      BY <1>2 DEF WorkerTrue
    <3>2. DOMAIN w.todo = {}
      BY <3>1
    <3> QED BY <1>2, <3>2 DEF WorkerTrue, Summarizing
  <2>3. Unfailing => \A n \in env.limits : n = w.limit
    BY <1>2 DEF Unfailing, WorkerTrue, Summarizing
  <2>4. Unfailing => \A f \in File, n \in env.limits : w.files[f] > 0 => AllChunks(f, n, w.summaries)
    BY <2>2, <2>3
  <2> QED BY <1>2, <2>1, <2>4 DEF DocumentTrue, Still, Unfailing, Of, AllChunks, ChunkCount, File
<1>10. \A q \in Process : WorkerTrue(worker[q])'
  <2> SUFFICES ASSUME NEW q \in Process PROVE WorkerTrue(worker[q])'
    OBVIOUS
  <2>1. CASE q = p
    BY <1>3, <1>4, <2>1 DEF WorkerTrue, Summarizing
  <2>2. CASE q # p
    <3>1. WorkerTrue(worker[q]) /\ worker[q].at # "hashes"
      BY <1>5 DEF ContextInv
    <3> QED BY <1>2, <3>1, <1>3, <2>2 DEF WorkerTrue, Still, Unfailing, Of, AllChunks, ChunkCount, File
  <2> QED BY <2>1, <2>2
<1>11. HashesFollow'
  <2> SUFFICES ASSUME env.events \cap {"crash", "anytime"} = {}
               PROVE  /\ Matching(summary.files)'
                      /\ \A q \in Process : worker'[q].at \in Summarizing => Matching(worker[q].files)'
    BY DEF HashesFollow
  <2>1. \A q \in Process : worker[q].at \in Summarizing => Matching(worker[q].files)
    BY <1>5 DEF ContextInv, HashesFollow, Between
  <2>2. Matching(w.files)
    BY <1>1, <1>2, <2>1 DEF Summarizing
  <2>3. Matching(summary.files)'
    BY <1>2, <2>2 DEF Matching, File
  <2>4. ASSUME NEW q \in Process, worker'[q].at \in Summarizing PROVE Matching(worker[q].files)'
    <3>1. worker'[q] = worker[q]
      BY <1>3, <1>4, <2>4 DEF Summarizing
    <3> QED BY <1>2, <2>1, <2>4, <3>1 DEF Matching, File
  <2> QED BY <2>3, <2>4
<1> QED BY <1>6, <1>7, <1>8, <1>9, <1>10, <1>11 DEF ContextInv

LEMMA ChangeStep ==
    ASSUME ContextInv, env.part = "context", UNCHANGED env, NEW f \in File, Change(f)
    PROVE  ContextInv'
<1>1. /\ UNCHANGED <<summary, hashes, cache, worker, lock>>
      /\ Still => \A p \in Process : worker[p].at = "idle"
      /\ disk[f] > 0
      /\ (disk[f] < MaxContent /\ disk' = [disk EXCEPT ![f] = @ + 1]) \/ disk' = [disk EXCEPT ![f] = 0]
  BY DEF Change, Still
<1>2. disk' \in Versions
  <2>1. disk[f] \in 0..MaxContent /\ disk \in Versions
    BY DEF ContextInv, ContextTyped, Versions, Content
  <2>2. CASE disk[f] < MaxContent /\ disk' = [disk EXCEPT ![f] = @ + 1]
    <3>1. PICK c : c = disk[f] + 1 /\ c \in Content
      BY <2>1, <2>2, ContextSettings DEF Content
    <3>2. disk' = [disk EXCEPT ![f] = c]
      BY <2>2, <3>1
    <3> QED BY <2>1, <3>1, <3>2 DEF Versions
  <2>3. CASE disk' = [disk EXCEPT ![f] = 0]
    BY <2>1, <2>3, ContextSettings DEF Versions
  <2> QED BY <1>1, <2>2, <2>3
<1>3. ContextTyped' /\ HashesLocked' /\ CacheTrue' /\ DocumentTrue'
  <2>1. ContextTyped'
    BY <1>1, <1>2 DEF ContextInv, ContextTyped, Versions, File, Content, ChunkSummary, WorkerRecord, Item
  <2>2. HashesLocked' /\ CacheTrue'
    BY <1>1 DEF ContextInv, HashesLocked, CacheTrue, Still
  <2>3. DocumentTrue'
    BY <1>1 DEF ContextInv, DocumentTrue, Still, Unfailing, Of, AllChunks, ChunkCount, File
  <2> QED BY <2>1, <2>2, <2>3
<1>4. \A p \in Process : WorkerTrue(worker[p])'
  <2> SUFFICES ASSUME NEW p \in Process PROVE WorkerTrue(worker[p])'
    OBVIOUS
  <2>1. CASE Still
    <3>1. worker'[p].at = "idle"
      BY <1>1, <2>1
    <3> QED BY <3>1 DEF WorkerTrue, Summarizing
  <2>2. CASE ~Still
    <3>1. ~Still' /\ ~Unfailing'
      BY <2>2 DEF Still, Unfailing
    <3>2. WorkerTrue(worker[p])
      BY DEF ContextInv
    <3> QED BY <1>1, <3>1, <3>2 DEF WorkerTrue, Summarizing
  <2> QED BY <2>1, <2>2
<1>5. HashesFollow'
  BY <1>1 DEF ContextInv, HashesFollow, Between, Matching, File
<1> QED BY <1>3, <1>4, <1>5 DEF ContextInv

LEMMA CrashWorkerStep ==
    ASSUME ContextInv, env.part = "context", UNCHANGED env, NEW p \in Process, CrashWorker(p)
    PROVE  ContextInv'
<1>1. /\ "crash" \in env.events /\ UNCHANGED disk
      /\ worker' = [worker EXCEPT ![p] = Standing]
      /\ lock' = IF lock = p THEN Nobody ELSE lock
  BY DEF CrashWorker, Stands, Abandon
<1>2. \A q \in Process : worker'[q] = IF q = p THEN Standing ELSE worker[q]
  BY <1>1 DEF ContextInv, ContextTyped
<1>3. Standing \in WorkerRecord /\ Standing.at = "idle"
  BY ContextSettings DEF Standing, WorkerRecord, WorkStage, Summarizing, Versions, Absent
<1>4. /\ summary' = summary \/ summary' = [NoSummary EXCEPT !.state = "torn"]
      /\ hashes' = hashes \/ hashes' = [hashes EXCEPT !.state = "torn"]
      /\ cache' = cache \/ (worker[p].at = "call" /\ cache' = (cache \ CachedAt(worker[p])) \cup {Written(worker[p], TornEntry)})
  BY DEF CrashWorker
<1>5. Absent \in Versions /\ (\A f \in File : Absent[f] = 0) /\ TornEntry \in Content
  BY ContextSettings DEF Versions, Absent, TornEntry
<1>6. cache' \subseteq [file : File, hash : Content, index : Nat, of : Content, limit : Nat] /\ CacheTrue'
  <2>1. CASE cache' = cache
    BY <2>1 DEF ContextInv, ContextTyped, CacheTrue, Still
  <2>2. CASE worker[p].at = "call" /\ cache' = (cache \ CachedAt(worker[p])) \cup {Written(worker[p], TornEntry)}
    BY <1>5, <2>2, WrittenTypes
  <2> QED BY <1>4, <2>1, <2>2
<1>7. summary' \in [state : {"none", "ok", "torn"}, files : Versions, summaries : SUBSET ChunkSummary] /\ DocumentTrue'
  <2>1. CASE summary' = summary
    BY <2>1 DEF ContextInv, ContextTyped, DocumentTrue, Still, Unfailing, Of, AllChunks, ChunkCount, File
  <2>2. CASE summary' = [NoSummary EXCEPT !.state = "torn"]
    <3>1. summary' = [state |-> "torn", files |-> Absent, summaries |-> {}]
      BY <2>2 DEF NoSummary
    <3> QED BY <1>5, <3>1 DEF DocumentTrue, Of
  <2> QED BY <1>4, <2>1, <2>2
<1>8. ContextTyped'
  <2>1. worker' \in [Process -> WorkerRecord]
    BY <1>1, <1>3 DEF ContextInv, ContextTyped
  <2>2. hashes' \in [state : {"none", "ok", "torn"}, files : Versions]
    BY <1>4 DEF ContextInv, ContextTyped
  <2> QED BY <1>1, <1>6, <1>7, <2>1, <2>2 DEF ContextInv, ContextTyped, Versions, File, Content, ChunkSummary, WorkerRecord, Item
<1>9. HashesLocked'
  <2>1. \A q \in Process : worker'[q].at = "hashes" => q # p /\ lock = q
    BY <1>2, <1>3 DEF ContextInv, HashesLocked
  <2> QED BY <1>1, <2>1 DEF HashesLocked
<1>10. \A q \in Process : WorkerTrue(worker[q])'
  <2> SUFFICES ASSUME NEW q \in Process PROVE WorkerTrue(worker[q])'
    OBVIOUS
  <2>1. CASE q = p
    BY <1>2, <1>3, <2>1 DEF WorkerTrue, Summarizing
  <2>2. CASE q # p
    <3>1. WorkerTrue(worker[q]) /\ worker'[q] = worker[q]
      BY <1>2, <2>2 DEF ContextInv
    <3>2. Still /\ worker[q].at = "hashes" => \A f \in File : summary'.files[f] \in {0, disk[f]}
      <4>1. CASE summary' = summary
        BY <3>1, <4>1 DEF WorkerTrue
      <4>2. CASE summary' = [NoSummary EXCEPT !.state = "torn"]
        BY <1>5, <4>2 DEF NoSummary
      <4> QED BY <1>4, <4>1, <4>2
    <3> QED BY <1>1, <3>1, <3>2 DEF WorkerTrue, Still, Unfailing, Of, AllChunks, ChunkCount, File
  <2> QED BY <2>1, <2>2
<1>11. HashesFollow'
  BY <1>1 DEF HashesFollow
<1> QED BY <1>6, <1>7, <1>8, <1>9, <1>10, <1>11 DEF ContextInv

-----------------------------------------------------------------------------
LEMMA ContextStep == ContextInv /\ [Next]_vars => ContextInv'
<1> SUFFICES ASSUME ContextInv, [Next]_vars PROVE ContextInv'
  OBVIOUS
<1>1. CASE Next /\ env.part = "context" /\ ContextNext
  <2>1. env.part = "context" /\ UNCHANGED env
    BY <1>1 DEF Next
  <2>2. ASSUME NEW p \in Process,
               \/ BeginAggregation(p) \/ HashFiles(p) \/ CollectMetadata(p) \/ WriteContext(p) \/ WriteHashes(p)
        PROVE  ContextInv'
    BY <2>1, <2>2, BeginAggregationStep, HashFilesStep, CollectMetadataStep, WriteContextStep, WriteHashesStep
  <2>3. ASSUME NEW p \in Process, NEW limit \in env.limits, NEW force \in BOOLEAN, NEW patterns \in env.patterns,
               BeginSummarize(p, limit, force, patterns)
        PROVE  ContextInv'
    BY <2>1, <2>3, BeginSummarizeStep
  <2>4. ASSUME NEW p \in Process,
               ReadFile(p) \/ LookUp(p) \/ Answer(p) \/ Fail(p) \/ PersistSummaries(p) \/ CrashWorker(p)
        PROVE  ContextInv'
    BY <2>1, <2>4, ReadFileStep, LookUpStep, AnswerStep, FailStep, PersistSummariesStep, CrashWorkerStep
  <2>5. ASSUME NEW f \in File, Change(f) PROVE ContextInv'
    BY <2>1, <2>5, ChangeStep
  <2> QED BY <1>1, <2>2, <2>3, <2>4, <2>5 DEF ContextNext
<1>2. CASE ~(Next /\ env.part = "context" /\ ContextNext)
  <2>1. /\ disk' = disk /\ summary' = summary /\ hashes' = hashes /\ cache' = cache /\ worker' = worker /\ env' = env
        /\ env.part # "context" \/ lock' = lock
    BY <1>2 DEF Next, vars, contextVars
  <2>2. ContextTyped'
    BY <2>1 DEF ContextInv, ContextTyped, Versions, File, Content, ChunkSummary, WorkerRecord, Item
  <2>3. HashesLocked'
    BY <2>1 DEF ContextInv, HashesLocked
  <2>4. CacheTrue' /\ DocumentTrue'
    BY <2>1 DEF ContextInv, CacheTrue, DocumentTrue, Still, Unfailing, Of, AllChunks, ChunkCount, File
  <2>5. \A p \in Process : WorkerTrue(worker[p])'
    <3> SUFFICES ASSUME NEW p \in Process PROVE WorkerTrue(worker[p])'
      OBVIOUS
    <3>1. WorkerTrue(worker[p])
      BY DEF ContextInv
    <3> QED BY <2>1, <3>1 DEF WorkerTrue, Still, Unfailing, Of, AllChunks, ChunkCount, File
  <2>6. HashesFollow'
    BY <2>1 DEF ContextInv, HashesFollow, Between, Matching, File
  <2> QED BY <2>2, <2>3, <2>4, <2>5, <2>6 DEF ContextInv
<1> QED BY <1>1, <1>2

LEMMA ContextFollows == ContextInv => ContextAgrees
<1> SUFFICES ASSUME ContextInv PROVE ContextAgrees
  OBVIOUS
<1>1. SummariesTrue
  BY DEF ContextInv, DocumentTrue, Still, Unfailing, Of, AllChunks, SummariesTrue
<1>2. HashesAgree
  <2> SUFFICES ASSUME env.events \cap {"crash", "anytime"} = {}, \A p \in Process : worker[p].at = "idle"
               PROVE  \A f \in File : summary.files[f] \in {0, hashes.files[f]}
    BY DEF HashesAgree
  <2>1. ~Between
    BY DEF Between
  <2> QED BY <2>1 DEF ContextInv, HashesFollow, Matching
<1> QED BY <1>1, <1>2 DEF ContextAgrees

(***************************************************************************)
(* While the context is aggregated anew after every change and one size of *)
(* chunks is used, summary.json holds summaries of the very content whose  *)
(* hash it states, and, with a client that answers, of every chunk of      *)
(* every file or of none; and file_hashes.json states the same hashes      *)
(* whenever nobody is at work: however many processes aggregate and        *)
(* summarise beside one another, and die.                                  *)
(* (summarizeDocument, persistSummaries, persistContextArtifacts)          *)
(***************************************************************************)
THEOREM ContextTrue == Spec => []ContextAgrees
<1>1. Spec => []ContextInv
  BY ContextStart, ContextStep, PTL DEF Spec
<1> QED BY <1>1, ContextFollows, PTL
-----------------------------------------------------------------------------
(* Research.tla *)

Lists == INSTANCE FoldLemmas WITH Op <- \o

\* The numbers of a finite set stand in their order, each once.
LEMMA InTheirOrder ==
    ASSUME NEW n \in Nat, NEW S, S \subseteq 0..n
    PROVE  /\ Cardinality(S) \in Nat
           /\ Ascending(S) \in [1..Cardinality(S) -> S]
           /\ \A j, k \in 1..Cardinality(S) : j # k => Ascending(S)[j] # Ascending(S)[k]
<1> DEFINE upTo(i) == {j \in S : j <= i}
           rank(i) == Cardinality(upTo(i))
<1>0. \A j \in S : j \in Nat /\ j <= n
  OBVIOUS
<1>1. IsFiniteSet(S) /\ Cardinality(S) \in Nat
  <2>1. IsFiniteSet(0..n)
    BY FS_Interval
  <2> QED BY <2>1, FS_Subset, FS_CardinalityType
<1>2. ASSUME NEW i \in Nat
      PROVE  IsFiniteSet(upTo(i)) /\ rank(i) \in Nat
  BY <1>1, FS_Subset, FS_CardinalityType
<1>3. ASSUME NEW k \in 1..Cardinality(S)
      PROVE  \E i \in S : rank(i) = k
  <2> DEFINE T == {i \in Nat : rank(i) >= k}
  <2>1. n \in T
    <3>1. upTo(n) = S
      BY <1>0
    <3> QED BY <1>1, <3>1
  <2>2. PICK i \in T : \A m \in T : i <= m
    <3>1. T \subseteq Nat /\ T # {}
      BY <2>1
    <3> HIDE DEF T
    <3> QED BY <3>1, Lists!Least
  <2>3. i \in Nat /\ rank(i) \in Nat /\ rank(i) >= k
    BY <1>2, <2>2
  <2> DEFINE less == upTo(i) \ {i}
  <2>4. IsFiniteSet(less) /\ Cardinality(less) \in Nat /\ Cardinality(less) < k
    <3>1. CASE i = 0
      <4>1. \A j \in S : j <= i => j = i
        BY <1>0, <3>1
      <4>2. less = {}
        BY <4>1
      <4> QED BY <4>2, FS_EmptySet
    <3>2. CASE i # 0
      <4>0. i - 1 \in Nat /\ ~(i <= i - 1)
        BY <2>3, <3>2
      <4>1. i - 1 \in Nat /\ i - 1 \notin T
        <5> HIDE DEF T
        <5> QED BY <2>2, <4>0
      <4>2. less = upTo(i - 1)
        <5>1. \A j \in S : j <= i /\ j # i <=> j <= i - 1
          BY <1>0, <2>3
        <5> QED BY <5>1
      <4>3. rank(i - 1) \in Nat /\ ~(rank(i - 1) >= k) /\ IsFiniteSet(upTo(i - 1))
        BY <1>2, <4>1
      <4> HIDE DEF less, upTo
      <4> QED BY <4>2, <4>3
    <3> QED BY <3>1, <3>2
  <2>5. i \in S
    <3>1. i \notin S => less = upTo(i)
      OBVIOUS
    <3> HIDE DEF less, upTo
    <3> QED BY <2>3, <2>4, <3>1
  <2>6. upTo(i) = less \cup {i} /\ i \notin less
    BY <2>5, <2>3
  <2>7. Cardinality(upTo(i)) = Cardinality(less) + 1
    <3> HIDE DEF less, upTo
    <3> QED BY <2>4, <2>6, FS_AddElement
  <2>8. rank(i) = k
    <3> HIDE DEF less, upTo
    <3> QED BY <2>3, <2>4, <2>7
  <2> QED BY <2>5, <2>8
<1> DEFINE s == Ascending(S)
<1>4. s = [k \in 1..Cardinality(S) |-> CHOOSE i \in S : rank(i) = k]
  BY DEF Ascending
<1>5. ASSUME NEW k \in 1..Cardinality(S)
      PROVE  s[k] \in S /\ rank(s[k]) = k
  <2>1. s[k] = CHOOSE i \in S : rank(i) = k
    BY <1>4
  <2>2. \E i \in S : rank(i) = k
    BY <1>3
  <2> HIDE DEF rank, s
  <2> QED BY <2>1, <2>2
<1>6. s \in [1..Cardinality(S) -> S]
  <2> HIDE DEF rank
  <2> QED BY <1>4, <1>5
<1> HIDE DEF rank, s
<1>7. \A j, k \in 1..Cardinality(S) : j # k => s[j] # s[k]
  BY <1>5
<1> QED BY <1>1, <1>6, <1>7 DEF s

LEMMA ListIs ==
    ASSUME NEW s, NEW n \in Nat, DOMAIN s = 1..n, s = [k \in 1..n |-> s[k]]
    PROVE  IsList(s) /\ Len(s) = n
<1> DEFINE X == {s[i] : i \in DOMAIN s}
<1>1. \A k \in 1..n : s[k] \in X
  OBVIOUS
<1>2. s \in [1..n -> X]
  <2> HIDE DEF X
  <2> QED BY <1>1
<1>3. s \in Seq(X) /\ Len(s) = n
  <2> HIDE DEF X
  <2> QED BY <1>2
<1> QED BY <1>3 DEF IsList

LEMMA ListLength ==
    ASSUME NEW s, IsList(s)
    PROVE  /\ Len(s) \in Nat /\ DOMAIN s = 1..Len(s) /\ s = [k \in 1..Len(s) |-> s[k]]
<1> DEFINE X == {s[i] : i \in DOMAIN s}
<1>1. s \in Seq(X)
  BY DEF IsList
<1> HIDE DEF X
<1> QED BY <1>1

LEMMA ListsJoined ==
    ASSUME NEW s, NEW t, IsList(s), IsList(t)
    PROVE  IsList(s \o t)
<1> DEFINE X == {s[i] : i \in DOMAIN s} \cup {t[i] : i \in DOMAIN t}
<1>1. Len(s) \in Nat /\ DOMAIN s = 1..Len(s) /\ s = [k \in 1..Len(s) |-> s[k]]
  BY ListLength
<1>2. Len(t) \in Nat /\ DOMAIN t = 1..Len(t) /\ t = [k \in 1..Len(t) |-> t[k]]
  BY ListLength
<1>3. (\A i \in 1..Len(s) : s[i] \in X) /\ (\A i \in 1..Len(t) : t[i] \in X)
  BY <1>1, <1>2
<1> HIDE DEF X
<1>4. s \in Seq(X) /\ t \in Seq(X)
  BY <1>1, <1>2, <1>3
<1>5. s \o t \in Seq(X)
  BY <1>4
<1> DEFINE r == s \o t
<1>6. r \in Seq(X)
  BY <1>5
<1>7. Len(r) \in Nat /\ DOMAIN r = 1..Len(r) /\ r = [k \in 1..Len(r) |-> r[k]]
  <2> HIDE DEF r
  <2> QED BY <1>6
<1> HIDE DEF r
<1>8. IsList(r)
  BY <1>7, ListIs
<1> QED BY <1>8 DEF r

\* What is left out of a list leaves a list.
LEMMA SomeOfList ==
    ASSUME NEW s, IsList(s), NEW S, S \subseteq DOMAIN s
    PROVE  /\ Cardinality(S) \in Nat /\ DOMAIN Ascending(S) = 1..Cardinality(S)
           /\ \A k \in 1..Cardinality(S) : Ascending(S)[k] \in S
           /\ \A j, k \in 1..Cardinality(S) : j # k => Ascending(S)[j] # Ascending(S)[k]
<1>1. Len(s) \in Nat /\ DOMAIN s = 1..Len(s)
  BY ListLength
<1>2. S \subseteq 0..Len(s)
  BY <1>1
<1>3. /\ Cardinality(S) \in Nat /\ Ascending(S) \in [1..Cardinality(S) -> S]
      /\ \A j, k \in 1..Cardinality(S) : j # k => Ascending(S)[j] # Ascending(S)[k]
  BY <1>1, <1>2, InTheirOrder
<1> QED BY <1>3

LEMMA EntriesListed ==
    ASSUME NEW entries, NEW kind, NEW origin, IsList(entries)
    PROVE  IsList(EntryHints(entries, kind, origin))
<1> DEFINE S == {i \in DOMAIN entries : entries[i].objective # Plain}
           h == EntryHints(entries, kind, origin)
<1>1. S \subseteq DOMAIN entries
  OBVIOUS
<1>2. Cardinality(S) \in Nat /\ DOMAIN Ascending(S) = 1..Cardinality(S)
  <2> HIDE DEF S
  <2> QED BY <1>1, SomeOfList
<1>3. DOMAIN h = 1..Cardinality(S) /\ h = [k \in 1..Cardinality(S) |-> h[k]]
  BY <1>2 DEF EntryHints
<1> HIDE DEF S, h
<1>4. IsList(h)
  BY <1>2, <1>3, ListIs
<1> QED BY <1>4 DEF h

LEMMA TextsListed ==
    ASSUME NEW lines, NEW kind, NEW origin, NEW limit, IsList(lines)
    PROVE  IsList(TextHints(lines, kind, origin, limit))
<1> DEFINE S == First(limit, {i \in DOMAIN lines : lines[i] # Plain /\ \A j \in 1..(i - 1) : Lower(lines[j]) # Lower(lines[i])})
           h == TextHints(lines, kind, origin, limit)
<1>1. S \subseteq DOMAIN lines
  BY DEF First
<1>2. Cardinality(S) \in Nat /\ DOMAIN Ascending(S) = 1..Cardinality(S)
  <2> HIDE DEF S
  <2> QED BY <1>1, SomeOfList
<1>3. DOMAIN h = 1..Cardinality(S) /\ h = [k \in 1..Cardinality(S) |-> h[k]]
  BY <1>2 DEF TextHints
<1> HIDE DEF S, h
<1>4. IsList(h)
  BY <1>2, <1>3, ListIs
<1> QED BY <1>4 DEF h

LEMMA JoinIsFold ==
    ASSUME NEW base, NEW seq
    PROVE  Seqs!FoldLeft(\o, base, seq) = Lists!Fold(base, seq)
BY DEF Lists!Fold, Lists!FoldLeft, Lists!MapThenFoldSet, Lists!Max, Seqs!FoldLeft, Seqs!MapThenFoldSet, Seqs!Max

LEMMA FilesListed ==
    ASSUME NEW files, NEW maxFiles, NEW limit, IsList(files), \A i \in DOMAIN files : IsList(files[i].lines)
    PROVE  IsList(FileHints(files, maxFiles, limit))
<1> DEFINE texts == {i \in DOMAIN files : files[i].text}
           before(i) == {j \in texts : files[j].weight > files[i].weight \/ (files[j].weight = files[i].weight /\ j < i)}
           scanned == {i \in texts : Cardinality(before(i)) < Seqs!Max({1, maxFiles}) /\ files[i].readable}
           S == {Cardinality(before(i)) : i \in scanned}
           places == Ascending(S)
           at(k) == files[CHOOSE i \in scanned : Cardinality(before(i)) = places[k]]
           hints(k) == TextHints(at(k).lines, "file", at(k).path, limit)
           lists == [k \in DOMAIN places |-> hints(k)]
<1>1. Len(files) \in Nat /\ DOMAIN files = 1..Len(files)
  BY ListLength
<1>2. ASSUME NEW i PROVE Cardinality(before(i)) \in 0..Len(files)
  <2>1. before(i) \subseteq 1..Len(files)
    BY <1>1
  <2>2. IsFiniteSet(1..Len(files)) /\ Cardinality(1..Len(files)) = Len(files)
    BY <1>1, FS_Interval
  <2> HIDE DEF before
  <2> QED BY <1>1, <2>1, <2>2, FS_Subset, FS_CardinalityType
<1>3. S \subseteq 0..Len(files)
  <2> HIDE DEF before, scanned
  <2> QED BY <1>2
<1>4. /\ Cardinality(S) \in Nat /\ places \in [1..Cardinality(S) -> S]
  <2> HIDE DEF S
  <2> QED BY <1>1, <1>3, InTheirOrder
<1>5. ASSUME NEW k \in 1..Cardinality(S) PROVE IsList(hints(k))
  <2>1. places[k] \in S
    <3> HIDE DEF S, places
    <3> QED BY <1>4
  <2>2. \E i \in scanned : Cardinality(before(i)) = places[k]
    <3> HIDE DEF before, scanned, places
    <3> QED BY <2>1
  <2> DEFINE i == CHOOSE i \in scanned : Cardinality(before(i)) = places[k]
  <2>3. i \in scanned
    <3> HIDE DEF before, scanned, places
    <3> QED BY <2>2
  <2>4. i \in DOMAIN files
    <3> HIDE DEF i, before
    <3> QED BY <2>3
  <2>5. IsList(files[i].lines)
    <3> HIDE DEF i
    <3> QED BY <2>4
  <2> HIDE DEF i
  <2>6. IsList(TextHints(files[i].lines, "file", files[i].path, limit))
    BY <2>5, TextsListed
  <2> QED BY <2>6 DEF i
<1> HIDE DEF S, places, hints
<1> DEFINE n == Cardinality(S)
           X == UNION {{hints(k)[i] : i \in DOMAIN hints(k)} : k \in 1..n}
<1>6. ASSUME NEW k \in 1..n PROVE hints(k) \in Seq(X)
  <2> DEFINE h == hints(k)
             Y == {h[i] : i \in DOMAIN h}
  <2>1. h \in Seq(Y)
    BY <1>5 DEF IsList
  <2>2. Y \subseteq X
    OBVIOUS
  <2> HIDE DEF h, Y, X
  <2>3. h \in Seq(X)
    BY <2>1, <2>2
  <2> QED BY <2>3 DEF h
<1> HIDE DEF X
<1>7. lists \in Seq(Seq(X))
  <2>1. DOMAIN places = 1..n /\ n \in Nat
    BY <1>4
  <2>2. lists \in [1..n -> Seq(X)]
    BY <1>6, <2>1
  <2> HIDE DEF lists, n
  <2> QED BY <2>1, <2>2
<1> HIDE DEF lists
<1> DEFINE P == Int \X Seq(X)
<1>8. <<Len(lists), Lists!Fold(<<>>, lists)>> \in P
  <2> DEFINE S2 == Seq(X)
  <2>1. <<0, <<>>>> \in P
    <3>1. <<>> \in Seq(X) /\ 0 \in Int
      OBVIOUS
    <3> QED BY <3>1
  <2>2. \A i \in 1..Len(lists) : \A v : <<i - 1, v>> \in P => <<i, v \o lists[i]>> \in P
    <3> TAKE i \in 1..Len(lists)
    <3> TAKE v
    <3>1. lists[i] \in Seq(X) /\ i \in Int
      BY <1>7
    <3>2. ASSUME v \in Seq(X) PROVE v \o lists[i] \in Seq(X)
      <4> PICK l : l = lists[i]
        OBVIOUS
      <4>1. l \in Seq(X)
        BY <3>1
      <4> QED BY <3>2, <4>1
    <3> QED BY <3>1, <3>2
  <2>3. lists \in Seq(S2)
    BY <1>7
  <2> HIDE DEF P, S2
  <2> QED BY <2>1, <2>2, <2>3, Lists!FoldInduct
<1>9. Lists!Fold(<<>>, lists) = FileHints(files, maxFiles, limit)
  <2>1. FileHints(files, maxFiles, limit) = Seqs!FoldLeft(\o, <<>>, lists)
    BY DEF FileHints, lists, hints, places, S
  <2> QED BY <2>1, JoinIsFold
<1> DEFINE r == FileHints(files, maxFiles, limit)
<1>10. r \in Seq(X)
  BY <1>8, <1>9
<1> HIDE DEF r
<1>11. Len(r) \in Nat /\ DOMAIN r = 1..Len(r) /\ r = [k \in 1..Len(r) |-> r[k]]
  BY <1>10
<1>12. IsList(r)
  BY <1>11, ListIs
<1> QED BY <1>12 DEF r

LEMMA UniqueHints ==
    ASSUME NEW hints, IsList(hints)
    PROVE  /\ IsList(Unique(hints))
           /\ \A j, k \in DOMAIN Unique(hints) : j # k => Folded(Unique(hints)[j]) # Folded(Unique(hints)[k])
<1> DEFINE first(i) == \A j \in 1..(i - 1) : Folded(hints[j]) # Folded(hints[i])
           S == {i \in DOMAIN hints : first(i)}
           picked == Ascending(S)
           u == Unique(hints)
<1>1. Len(hints) \in Nat /\ DOMAIN hints = 1..Len(hints)
  BY ListLength
<1>2. S \subseteq DOMAIN hints
  OBVIOUS
<1>3. /\ Cardinality(S) \in Nat /\ DOMAIN picked = 1..Cardinality(S)
      /\ \A k \in 1..Cardinality(S) : picked[k] \in S
      /\ \A j, k \in 1..Cardinality(S) : j # k => picked[j] # picked[k]
  <2> HIDE DEF S
  <2> QED BY <1>2, SomeOfList
<1>4. u = [k \in 1..Cardinality(S) |-> hints[picked[k]]]
  <2>1. u = [k \in DOMAIN picked |-> hints[picked[k]]]
    BY DEF Unique
  <2> HIDE DEF u, picked, S
  <2> QED BY <1>3, <2>1
<1>5. ASSUME NEW i \in S, NEW j \in S, i # j PROVE Folded(hints[i]) # Folded(hints[j])
  <2>1. i \in Nat /\ j \in Nat /\ i > 0 /\ j > 0 /\ first(i) /\ first(j)
    BY <1>1
  <2>2. CASE i < j
    <3>1. i \in 1..(j - 1)
      BY <2>1, <2>2
    <3> QED BY <2>1, <3>1
  <2>3. CASE j < i
    <3>1. j \in 1..(i - 1)
      BY <2>1, <2>3
    <3> QED BY <2>1, <3>1
  <2> QED BY <1>5, <2>1, <2>2, <2>3
<1>6. DOMAIN u = 1..Cardinality(S) /\ \A k \in 1..Cardinality(S) : u[k] = hints[picked[k]]
  <2> HIDE DEF u, picked, S
  <2> QED BY <1>4
<1>7. ASSUME NEW j \in DOMAIN u, NEW k \in DOMAIN u, j # k PROVE Folded(u[j]) # Folded(u[k])
  <2> HIDE DEF u, picked, S
  <2>1. picked[j] \in S /\ picked[k] \in S /\ picked[j] # picked[k] /\ u[j] = hints[picked[j]] /\ u[k] = hints[picked[k]]
    BY <1>3, <1>6, <1>7
  <2> QED BY <1>5, <2>1
<1>8. IsList(u)
  <2> HIDE DEF u, S, picked
  <2>1. u = [k \in 1..Cardinality(S) |-> u[k]]
    BY <1>4
  <2> QED BY <1>3, <1>6, <2>1, ListIs
<1> HIDE DEF S, picked
<1> QED BY <1>7, <1>8

\* No two hints of a detection have the same title and ask for the same.
LEMMA DetectedHints ==
    ASSUME NEW e \in Environment, NEW d, d = Detected(e.unknowns)
    PROVE  /\ IsList(d)
           /\ \A j, k \in DOMAIN d : j # k => ~(Key(d[j]) = Key(d[k]) /\ d[j].title = d[k].title)
<1> PICK u : u = e.unknowns
  OBVIOUS
<1>1. /\ IsList(u.metadata) /\ IsList(u.manual) /\ IsList(u.prompt) /\ IsList(u.spec)
      /\ IsList(u.files) /\ \A i \in DOMAIN u.files : IsList(u.files[i].lines)
  BY ResearchAssumption
<1> PICK a : a = EntryHints(u.metadata, "metadata", "context-metadata")
  OBVIOUS
<1> PICK b : b = EntryHints(u.manual, "manual", "manual-input")
  OBVIOUS
<1> PICK c : c = TextHints(u.prompt, "prompt", "prompt", u.limit)
  OBVIOUS
<1> PICK s : s = TextHints(u.spec, "spec", "spec", u.limit)
  OBVIOUS
<1> PICK f : f = FileHints(u.files, u.maxFiles, u.limit)
  OBVIOUS
<1>2. IsList(a) /\ IsList(b)
  BY <1>1, EntriesListed
<1>3. IsList(c) /\ IsList(s)
  BY <1>1, TextsListed
<1>4. IsList(f)
  BY <1>1, FilesListed
<1>5. IsList(a \o b)
  BY <1>2, ListsJoined
<1>6. IsList(a \o b \o c)
  BY <1>3, <1>5, ListsJoined
<1>7. IsList(a \o b \o c \o s)
  BY <1>3, <1>6, ListsJoined
<1>8. IsList(a \o b \o c \o s \o f)
  BY <1>4, <1>7, ListsJoined
<1>9. d = Unique(a \o b \o c \o s \o f)
  BY DEF Detected
<1>10. IsList(d) /\ \A j, k \in DOMAIN d : j # k => Folded(d[j]) # Folded(d[k])
  BY <1>8, <1>9, UniqueHints
<1>11. ASSUME NEW g, NEW h, Key(g) = Key(h), g.title = h.title PROVE Folded(g) = Folded(h)
  <2>1. g.objective = h.objective /\ g.origin = h.origin
    BY <1>11 DEF Key
  <2> QED BY <1>11, <2>1 DEF Folded, Lower
<1> QED BY <1>10, <1>11

-----------------------------------------------------------------------------
Hints ==
    LET d == Detected(env.unknowns)
    IN  {d[i] : i \in DOMAIN d} \cup {env.asked[i] : i \in DOMAIN env.asked}
Event == {"none", "created", "started", "completed", "failed"}
ResearchTask ==
    [key : {Key(h) : h \in Hints}, title : {h.title : h \in Hints}, status : Status, found : Nat, force : BOOLEAN, created : Nat]
Searcher ==
    [at : {"idle", "queue", "log"}, todo : Seq(Hints), force : BOOLEAN, task : Nat, event : Event, lastCreated : Nat,
     made : SUBSET Nat]

ResearchTyped ==
    /\ env \in Environment
    /\ tasks \in Seq(ResearchTask) /\ log \in Seq(Event) /\ Len(log) = Len(tasks)
    /\ now \in Nat \ {0}
    /\ researcher \in [Process -> Searcher]

\* Whoever saved a task and did not log it yet holds the lock, and the task is as the event says.
Logging ==
    /\ \A p \in Process :
        LET r == researcher[p]
        IN  /\ r.at = "idle" => r.made = {}
            /\ r.at = "queue" \/ (r.at = "log" /\ r.event = "created") => r.todo # <<>>
            /\ r.at = "log" /\ r.event # "created" => r.todo = <<>> /\ r.made = {}
            /\ r.at = "log" => lock = p /\ r.task \in DOMAIN tasks /\ tasks[r.task].status = StatusOf(r.event)
    /\ env.part # "research" => tasks = <<>> /\ researcher = [p \in Process |-> Resting]

\* Unless a process died, what is not being logged is logged.
Told ==
    "crash" \notin env.events =>
        \A t \in DOMAIN tasks :
            (\A p \in Process : researcher[p].at = "log" => researcher[p].task # t) => StatusOf(log[t]) = tasks[t].status

\* What a coordinator created, it created at times that follow one another.
TimesGrow ==
    \A p \in Process : \A t \in researcher[p].made :
        /\ t \in DOMAIN tasks /\ tasks[t].created <= researcher[p].lastCreated
        /\ \A u \in researcher[p].made : t < u => tasks[t].created < tasks[u].created

SameHint(x, y) == x.key = y.key /\ x.title = y.title
AskFor(h) == [key |-> Key(h), title |-> h.title]

\* One search after the other: the tasks that a search finds have fresh results, and it creates none that it will ask for.
OneByOne ==
    env.events = {"time"} /\ env.orderly /\ env.maxTime <= MaxAge + 1 =>
        /\ now <= MaxAge + 1
        /\ \A p, q \in Process : researcher[p].at # "idle" /\ researcher[q].at # "idle" => p = q
        /\ \A t \in DOMAIN tasks :
            /\ tasks[t].status # "torn" /\ ~tasks[t].force
            /\ tasks[t].status = "completed" => tasks[t].found # 0 /\ tasks[t].found <= now
            /\ tasks[t].status # "completed" => tasks[t].found = 0
            /\ \A u \in DOMAIN tasks : SameHint(tasks[t], tasks[u]) => t = u
        /\ \A p \in Process :
            LET r == researcher[p]
            IN  r.at = "queue" \/ (r.at = "log" /\ r.event = "created") =>
                    /\ ~r.force
                    /\ \A t \in DOMAIN tasks : tasks[t].status = IF t \in r.made THEN "pending" ELSE "completed"
                    /\ \A t \in r.made, u \in DOMAIN tasks \ r.made : tasks[t].key # tasks[u].key
                    /\ \A t \in r.made, i \in DOMAIN r.todo :
                            r.at = "queue" \/ i > 1 => ~SameHint(tasks[t], AskFor(r.todo[i]))
                    /\ \A i, j \in DOMAIN r.todo : SameHint(AskFor(r.todo[i]), AskFor(r.todo[j])) => i = j

ResearchInv == ResearchTyped /\ Logging /\ Told /\ TimesGrow /\ OneByOne

-----------------------------------------------------------------------------
LEMMA RestingIs ==
    /\ Resting \in Searcher /\ Resting.at = "idle" /\ Resting.todo = <<>> /\ Resting.made = {} /\ Resting.lastCreated = 0
    /\ Resting.force = FALSE
<1>1. <<>> \in Seq(Hints)
  OBVIOUS
<1> QED BY <1>1 DEF Resting, Searcher, Event

LEMMA ResearchStart == Init => ResearchInv
<1> SUFFICES ASSUME Init PROVE ResearchInv
  OBVIOUS
<1>1. /\ env \in Environment /\ tasks = <<>> /\ log = <<>> /\ now = 1 /\ researcher = [p \in Process |-> Resting]
  BY DEF Init, ResearchInit
<1>2. \A p \in Process : researcher[p] = Resting
  BY <1>1
<1>3. ResearchTyped
  <2>1. tasks \in Seq(ResearchTask) /\ log \in Seq(Event) /\ Len(tasks) = 0 /\ Len(log) = 0
    BY <1>1
  <2> QED BY <1>1, <2>1, RestingIs DEF ResearchTyped
<1>4. Logging
  BY <1>1, <1>2, RestingIs DEF Logging
<1>5. DOMAIN tasks = {}
  BY <1>1
<1>6. Told /\ TimesGrow
  BY <1>2, <1>5, RestingIs DEF Told, TimesGrow
<1>7. OneByOne
  <2>1. env.maxTime <= MaxAge + 1 => now <= MaxAge + 1
    BY <1>1, ResearchAssumption
  <2> QED BY <1>2, <1>5, <2>1, RestingIs DEF OneByOne
<1> QED BY <1>3, <1>4, <1>6, <1>7 DEF ResearchInv

LEMMA HintsStay ==
    ASSUME env' = env
    PROVE  Hints' = Hints /\ ResearchTask' = ResearchTask /\ Searcher' = Searcher
<1>1. Hints' = Hints
  BY DEF Hints
<1> QED BY <1>1 DEF ResearchTask, Searcher, Event, Status

\* What a step of a coordinator leaves typed.
LEMMA SearcherMoves ==
    ASSUME ResearchTyped, env' = env, NEW p \in Process, NEW j \in Searcher, researcher' = [researcher EXCEPT ![p] = j],
           tasks' \in Seq(ResearchTask), log' \in Seq(Event), Len(log') = Len(tasks'), now' \in Nat \ {0}
    PROVE  /\ ResearchTyped' /\ researcher'[p] = j
           /\ \A q \in Process : q # p => researcher'[q] = researcher[q]
<1>1. Hints' = Hints /\ ResearchTask' = ResearchTask /\ Searcher' = Searcher
  BY HintsStay
<1>2. researcher' \in [Process -> Searcher] /\ researcher'[p] = j /\ \A q \in Process : q # p => researcher'[q] = researcher[q]
  BY DEF ResearchTyped
<1>3. Event' = Event
  BY DEF Event
<1> QED BY <1>1, <1>2, <1>3 DEF ResearchTyped

DistinctHints(hints) == \A i, k \in DOMAIN hints : SameHint(AskFor(hints[i]), AskFor(hints[k])) => i = k

LEMMA HintsQueued ==
    ASSUME ResearchInv, env' = env, env.part = "research", NEW p \in Process, NEW force \in BOOLEAN,
           NEW hints \in Seq(Hints), DistinctHints(hints), Queues(p, hints, force)
    PROVE  ResearchInv'
<1>1. ResearchTyped /\ Logging /\ Told /\ TimesGrow /\ OneByOne
  BY DEF ResearchInv
<1> PICK j : j = [Resting EXCEPT !.at = "queue", !.todo = hints, !.force = force]
  OBVIOUS
<1>2. /\ j \in Searcher /\ j.at = "queue" /\ j.todo = hints /\ j.force = force /\ j.made = {} /\ j.lastCreated = 0
  BY RestingIs DEF Searcher
<1>3. /\ researcher[p].at = "idle" /\ hints # <<>> /\ UNCHANGED <<tasks, log, now, lock>>
      /\ researcher' = [researcher EXCEPT ![p] = j]
      /\ "overlap" \in env.events \/ \A q \in Process : researcher[q].at = "idle"
      /\ env.orderly => ~force /\ \A t \in DOMAIN tasks : tasks[t].status = "completed"
  BY DEF Queues, MayResearch
<1>4. /\ ResearchTyped' /\ researcher'[p] = j /\ \A q \in Process : q # p => researcher'[q] = researcher[q]
  <2>1. tasks' \in Seq(ResearchTask) /\ log' \in Seq(Event) /\ Len(log') = Len(tasks') /\ now' \in Nat \ {0}
    BY <1>1, <1>3 DEF ResearchTyped
  <2> QED BY <1>1, <1>2, <1>3, <2>1, SearcherMoves
<1>5. Logging'
  BY <1>1, <1>2, <1>3, <1>4 DEF Logging
<1>6. Told'
  BY <1>1, <1>2, <1>3, <1>4 DEF Told
<1>7. TimesGrow'
  BY <1>1, <1>2, <1>3, <1>4 DEF TimesGrow
<1>8. OneByOne'
  <2> SUFFICES ASSUME env.events = {"time"}, env.orderly, env.maxTime <= MaxAge + 1
               PROVE  OneByOne'
    BY DEF OneByOne
  <2>1. \A q \in Process : researcher[q].at = "idle"
    BY <1>3
  <2>2. ~force /\ \A t \in DOMAIN tasks : tasks[t].status = "completed"
    BY <1>3
  <2>3. \A q \in Process : q # p => researcher'[q].at = "idle"
    BY <1>4, <2>1
  <2>4. \A i, k \in DOMAIN j.todo : SameHint(AskFor(j.todo[i]), AskFor(j.todo[k])) => i = k
    BY <1>2 DEF DistinctHints
  <2> QED BY <1>1, <1>2, <1>3, <1>4, <2>2, <2>3, <2>4 DEF OneByOne
<1> QED BY <1>4, <1>5, <1>6, <1>7, <1>8 DEF ResearchInv

LEMMA ListOfHints ==
    ASSUME NEW d, IsList(d), NEW S, \A i \in DOMAIN d : d[i] \in S
    PROVE  d \in Seq(S)
<1>1. Len(d) \in Nat /\ DOMAIN d = 1..Len(d) /\ d = [k \in 1..Len(d) |-> d[k]]
  BY ListLength
<1> QED BY <1>1

LEMMA SearchBegins ==
    ASSUME ResearchInv, env' = env, env.part = "research", NEW p \in Process,
           BeginDetection(p) \/ \E force \in BOOLEAN : BeginCreate(p, force)
    PROVE  ResearchInv'
<1>1. env \in Environment
  BY DEF ResearchInv, ResearchTyped
<1>2. CASE BeginDetection(p)
  <2> PICK d : d = Detected(env.unknowns)
    OBVIOUS
  <2>1. /\ IsList(d) /\ \A j, k \in DOMAIN d : j # k => ~(Key(d[j]) = Key(d[k]) /\ d[j].title = d[k].title)
    BY <1>1, DetectedHints
  <2>2. \A i \in DOMAIN d : d[i] \in Hints
    BY DEF Hints
  <2>3. d \in Seq(Hints)
    BY <2>1, <2>2, ListOfHints
  <2>4. DistinctHints(d)
    BY <2>1 DEF DistinctHints, SameHint, AskFor
  <2>5. Queues(p, d, FALSE)
    BY <1>2 DEF BeginDetection
  <2> QED BY <2>3, <2>4, <2>5, HintsQueued
<1>3. ASSUME NEW force \in BOOLEAN, BeginCreate(p, force) PROVE ResearchInv'
  <2> PICK d : d = env.asked
    OBVIOUS
  <2>1. IsList(d) /\ Len(d) = 1
    BY <1>1, ResearchAssumption
  <2>2. \A i \in DOMAIN d : d[i] \in Hints
    BY DEF Hints
  <2>3. d \in Seq(Hints)
    BY <2>1, <2>2, ListOfHints
  <2>4. \A i \in DOMAIN d : i = 1
    BY <2>1, ListLength
  <2>5. DistinctHints(d)
    BY <2>4 DEF DistinctHints
  <2>6. Queues(p, d, force)
    BY <1>3 DEF BeginCreate
  <2> QED BY <2>3, <2>5, <2>6, HintsQueued
<1> QED BY <1>2, <1>3

\* A coordinator goes on to its next hint, if there is one.
LEMMA NextHint ==
    ASSUME ResearchTyped, NEW p \in Process, Continue(p)
    PROVE  \E j \in Searcher :
            /\ researcher' = [researcher EXCEPT ![p] = j]
            /\ \/ j = Resting
               \/ /\ j.at = "queue" /\ j.made = researcher[p].made /\ j.force = researcher[p].force
                  /\ j.lastCreated = researcher[p].lastCreated
                  /\ Len(researcher[p].todo) > 1 /\ j.todo = Tail(researcher[p].todo)
<1> PICK r \in Searcher : r = researcher[p]
  BY DEF ResearchTyped
<1>1. CASE Len(r.todo) <= 1
  <2>1. researcher' = [researcher EXCEPT ![p] = Resting]
    BY <1>1 DEF Continue, Rests
  <2> QED BY <2>1, RestingIs
<1>2. CASE ~(Len(r.todo) <= 1)
  <2> PICK todo \in Seq(Hints) : todo = r.todo
    BY DEF Searcher
  <2>1. Len(todo) > 1
    BY <1>2
  <2>2. Tail(todo) \in Seq(Hints)
    BY <2>1
  <2> PICK j : j = [r EXCEPT !.at = "queue", !.todo = Tail(todo)]
    OBVIOUS
  <2>3. /\ j \in Searcher /\ j.at = "queue" /\ j.todo = Tail(todo) /\ j.made = r.made /\ j.force = r.force
        /\ j.lastCreated = r.lastCreated
    BY <2>2 DEF Searcher
  <2>4. researcher' = [researcher EXCEPT ![p].at = "queue", ![p].todo = Tail(@)]
    BY <1>2 DEF Continue
  <2>5. researcher' = [researcher EXCEPT ![p] = j]
    BY <2>4 DEF ResearchTyped
  <2> QED BY <2>1, <2>3, <2>5
<1> QED BY <1>1, <1>2

\* Whether a hint was reused or its task was created: what remains to be done is what it was.
LEMMA GoesOn ==
    ASSUME ResearchInv, env' = env, env.part = "research", NEW p \in Process, Continue(p), researcher[p].at \in {"queue", "log"},
           UNCHANGED <<tasks, now>>, log' \in Seq(Event), Len(log') = Len(log), lock' = Nobody
    PROVE  /\ ResearchTyped' /\ TimesGrow' /\ OneByOne'
           /\ \A q \in Process : q # p => researcher'[q] = researcher[q]
           /\ researcher'[p].at # "log" /\ (researcher'[p].at = "idle" => researcher'[p].made = {})
           /\ researcher'[p].at = "queue" => researcher'[p].todo # <<>>
<1>1. ResearchTyped /\ Logging /\ Told /\ TimesGrow /\ OneByOne
  BY DEF ResearchInv
<1> PICK r \in Searcher : r = researcher[p]
  BY <1>1 DEF ResearchTyped
<1> PICK todo \in Seq(Hints) : todo = r.todo
  BY DEF Searcher
<1>2. PICK j \in Searcher :
            /\ researcher' = [researcher EXCEPT ![p] = j]
            /\ \/ j = Resting
               \/ /\ j.at = "queue" /\ j.made = r.made /\ j.force = r.force /\ j.lastCreated = r.lastCreated
                  /\ Len(todo) > 1 /\ j.todo = Tail(todo)
  BY <1>1, NextHint
<1>3. ResearchTyped' /\ researcher'[p] = j /\ \A q \in Process : q # p => researcher'[q] = researcher[q]
  <2>1. tasks' \in Seq(ResearchTask) /\ Len(log') = Len(tasks') /\ now' \in Nat \ {0}
    BY <1>1 DEF ResearchTyped
  <2> QED BY <1>1, <1>2, <2>1, SearcherMoves
<1>4. j.at # "log" /\ (j.at = "idle" => j.made = {}) /\ (j.at = "queue" => j.todo # <<>>)
  <2>1. ASSUME Len(todo) > 1 PROVE Tail(todo) # <<>>
    <3> PICK s : s = Tail(todo)
      OBVIOUS
    <3>1. Len(s) = Len(todo) - 1
      BY <2>1
    <3>2. Len(s) # 0 /\ Len(<<>>) = 0
      BY <2>1, <3>1
    <3>3. s # <<>>
      BY <3>2
    <3> QED BY <3>3
  <2> QED BY <1>2, <2>1, RestingIs
<1>5. TimesGrow'
  <2>1. j.made = {} \/ (j.made = r.made /\ j.lastCreated = r.lastCreated)
    BY <1>2, RestingIs
  <2> QED BY <1>1, <1>3, <2>1 DEF TimesGrow
<1>6. OneByOne'
  <2> SUFFICES ASSUME env.events = {"time"}, env.orderly, env.maxTime <= MaxAge + 1
               PROVE  OneByOne'
    BY DEF OneByOne
  <2>1. /\ now' <= MaxAge + 1
        /\ \A t \in DOMAIN tasks' :
            /\ tasks'[t].status # "torn" /\ ~tasks'[t].force
            /\ tasks'[t].status = "completed" => tasks'[t].found # 0 /\ tasks'[t].found <= now'
            /\ tasks'[t].status # "completed" => tasks'[t].found = 0
            /\ \A u \in DOMAIN tasks' : SameHint(tasks'[t], tasks'[u]) => t = u
    BY <1>1 DEF OneByOne
  <2>2. \A q \in Process : researcher[q].at # "idle" => q = p
    BY <1>1 DEF OneByOne
  <2>3. \A q \in Process : researcher'[q].at # "idle" => q = p
    BY <1>3, <2>2
  <2>4. ASSUME j # Resting
        PROVE  /\ ~j.force
               /\ \A t \in DOMAIN tasks : tasks[t].status = IF t \in j.made THEN "pending" ELSE "completed"
               /\ \A t \in j.made, u \in DOMAIN tasks \ j.made : tasks[t].key # tasks[u].key
               /\ \A t \in j.made, i \in DOMAIN j.todo : ~SameHint(tasks[t], AskFor(j.todo[i]))
               /\ \A i, k \in DOMAIN j.todo : SameHint(AskFor(j.todo[i]), AskFor(j.todo[k])) => i = k
    <3>1. /\ Len(todo) > 1 /\ j.todo = Tail(todo) /\ j.at = "queue" /\ j.made = r.made /\ j.force = r.force
      BY <1>2, <2>4
    <3>2. r.at = "queue" \/ (r.at = "log" /\ r.event = "created")
      <4>1. todo # <<>>
        BY <3>1
      <4> QED BY <1>1, <4>1 DEF Logging
    <3>3. /\ ~r.force
          /\ \A t \in DOMAIN tasks : tasks[t].status = IF t \in r.made THEN "pending" ELSE "completed"
          /\ \A t \in r.made, u \in DOMAIN tasks \ r.made : tasks[t].key # tasks[u].key
          /\ \A t \in r.made, i \in DOMAIN todo : r.at = "queue" \/ i > 1 => ~SameHint(tasks[t], AskFor(todo[i]))
          /\ \A i, k \in DOMAIN todo : SameHint(AskFor(todo[i]), AskFor(todo[k])) => i = k
      BY <1>1, <3>2 DEF OneByOne
    <3>4. \A i \in DOMAIN j.todo : i + 1 \in DOMAIN todo /\ i + 1 > 1 /\ j.todo[i] = todo[i + 1] /\ i \in Nat
      BY <3>1
    <3>5. \A t \in j.made, i \in DOMAIN j.todo : ~SameHint(tasks[t], AskFor(j.todo[i]))
      BY <3>1, <3>3, <3>4
    <3>6. \A i, k \in DOMAIN j.todo : SameHint(AskFor(j.todo[i]), AskFor(j.todo[k])) => i = k
      <4> SUFFICES ASSUME NEW i \in DOMAIN j.todo, NEW k \in DOMAIN j.todo, SameHint(AskFor(j.todo[i]), AskFor(j.todo[k]))
                   PROVE  i = k
        OBVIOUS
      <4>1. SameHint(AskFor(todo[i + 1]), AskFor(todo[k + 1]))
        BY <3>4
      <4>2. i + 1 = k + 1
        BY <3>3, <3>4, <4>1
      <4> QED BY <3>4, <4>2
    <3> QED BY <3>1, <3>3, <3>5, <3>6
  <2>5. j.at = "queue" \/ (j.at = "log" /\ j.event = "created") => j # Resting
    BY RestingIs, <1>4
  <2> QED BY <1>3, <2>1, <2>3, <2>4, <2>5 DEF OneByOne
<1> QED BY <1>3, <1>4, <1>5, <1>6

LEMMA HintReused ==
    ASSUME ResearchInv, env' = env, env.part = "research", NEW p \in Process, Reuse(p)
    PROVE  ResearchInv'
<1>1. ResearchTyped /\ Logging /\ Told
  BY DEF ResearchInv
<1>2. researcher[p].at = "queue" /\ lock = Nobody /\ lock' = Nobody /\ Continue(p) /\ UNCHANGED <<tasks, log, now>>
  BY DEF Reuse, Free
<1>3. /\ ResearchTyped' /\ TimesGrow' /\ OneByOne'
      /\ \A q \in Process : q # p => researcher'[q] = researcher[q]
      /\ researcher'[p].at # "log" /\ (researcher'[p].at = "idle" => researcher'[p].made = {})
      /\ researcher'[p].at = "queue" => researcher'[p].todo # <<>>
  <2>1. log' \in Seq(Event) /\ Len(log') = Len(log)
    BY <1>1, <1>2 DEF ResearchTyped
  <2> QED BY <1>2, <2>1, GoesOn
<1>4. Logging'
  BY <1>1, <1>2, <1>3 DEF Logging
<1>5. Told'
  BY <1>1, <1>2, <1>3 DEF Told
<1> QED BY <1>3, <1>4, <1>5 DEF ResearchInv

LEMMA EventLogged ==
    ASSUME ResearchInv, env' = env, env.part = "research", NEW p \in Process, LogEvent(p)
    PROVE  ResearchInv'
<1>1. ResearchTyped /\ Logging /\ Told
  BY DEF ResearchInv
<1>2. /\ researcher[p].at = "log" /\ lock = p /\ lock' = Nobody /\ Continue(p) /\ UNCHANGED <<tasks, now>>
      /\ log' = [log EXCEPT ![researcher[p].task] = researcher[p].event]
  BY DEF LogEvent, Release
<1> PICK t \in DOMAIN tasks : t = researcher[p].task
  BY <1>1, <1>2 DEF Logging
<1> PICK event \in Event : event = researcher[p].event
  BY <1>1 DEF ResearchTyped, Searcher
<1>3. t \in DOMAIN log /\ DOMAIN log = DOMAIN tasks
  BY <1>1 DEF ResearchTyped
<1>4. log' \in Seq(Event) /\ Len(log') = Len(log) /\ log'[t] = event /\ \A u \in DOMAIN log : u # t => log'[u] = log[u]
  BY <1>1, <1>2, <1>3 DEF ResearchTyped
<1>5. /\ ResearchTyped' /\ TimesGrow' /\ OneByOne'
      /\ \A q \in Process : q # p => researcher'[q] = researcher[q]
      /\ researcher'[p].at # "log" /\ (researcher'[p].at = "idle" => researcher'[p].made = {})
      /\ researcher'[p].at = "queue" => researcher'[p].todo # <<>>
  BY <1>2, <1>4, GoesOn
<1>6. \A q \in Process : q # p => researcher[q].at # "log"
  BY <1>1, <1>2 DEF Logging
<1>7. Logging'
  BY <1>1, <1>2, <1>5, <1>6 DEF Logging
<1>8. Told'
  <2> SUFFICES ASSUME "crash" \notin env.events, NEW u \in DOMAIN tasks
               PROVE  StatusOf(log'[u]) = tasks[u].status
    BY <1>2 DEF Told
  <2>1. CASE u = t
    BY <1>1, <1>2, <1>4, <2>1 DEF Logging
  <2>2. CASE u # t
    <3>1. StatusOf(log[u]) = tasks[u].status
      BY <1>1, <1>6, <2>2 DEF Told
    <3> QED BY <1>3, <1>4, <2>2, <3>1
  <2> QED BY <2>1, <2>2
<1> QED BY <1>5, <1>7, <1>8 DEF ResearchInv

\* No task has the hint that is about to be created, and none that an earlier search left has its key.
LEMMA HintIsNew ==
    ASSUME ResearchInv, NEW p \in Process, researcher[p].at = "queue",
           env.events = {"time"}, env.orderly, env.maxTime <= MaxAge + 1,
           NEW h, h = Head(researcher[p].todo),
           Candidates(Key(h)) = {} \/ \E t \in Candidates(Key(h)) : ~Fresh(t, researcher[p].force)
    PROVE  /\ \A u \in DOMAIN tasks : u \notin researcher[p].made => tasks[u].key # Key(h)
           /\ \A u \in DOMAIN tasks : ~SameHint(tasks[u], AskFor(h))
           /\ \A i \in DOMAIN researcher[p].todo : i > 1 => ~SameHint(AskFor(h), AskFor(researcher[p].todo[i]))
<1>1. ResearchTyped /\ Logging /\ TimesGrow /\ OneByOne
  BY DEF ResearchInv
<1> PICK r \in Searcher : r = researcher[p]
  BY <1>1 DEF ResearchTyped
<1> PICK todo \in Seq(Hints) : todo = r.todo
  BY DEF Searcher
<1>2. todo # <<>> /\ h = todo[1] /\ 1 \in DOMAIN todo
  BY <1>1 DEF Logging
<1>3. /\ now <= MaxAge + 1 /\ ~r.force
      /\ \A t \in DOMAIN tasks :
            /\ tasks[t].status # "torn"
            /\ tasks[t].status = "completed" => tasks[t].found # 0 /\ tasks[t].found <= now
      /\ \A t \in DOMAIN tasks : tasks[t].status = IF t \in r.made THEN "pending" ELSE "completed"
      /\ \A t \in r.made, u \in DOMAIN tasks \ r.made : tasks[t].key # tasks[u].key
      /\ \A t \in r.made, i \in DOMAIN todo : ~SameHint(tasks[t], AskFor(todo[i]))
      /\ \A i, k \in DOMAIN todo : SameHint(AskFor(todo[i]), AskFor(todo[k])) => i = k
  BY <1>1 DEF OneByOne
<1>4. ASSUME NEW u \in DOMAIN tasks, u \notin r.made PROVE Fresh(u, r.force)
  <2>0. tasks[u] \in ResearchTask
    BY <1>1 DEF ResearchTyped
  <2>1. tasks[u].found \in Nat /\ now \in Nat /\ MaxAge \in Nat
    BY <1>1, <2>0, ResearchAssumption DEF ResearchTyped, ResearchTask
  <2>2. tasks[u].found # 0 /\ tasks[u].found <= now
    BY <1>3, <1>4
  <2>3. now - tasks[u].found <= MaxAge
    BY <1>3, <2>1, <2>2
  <2> QED BY <1>3, <2>2, <2>3 DEF Fresh
<1>5. ASSUME NEW u \in DOMAIN tasks, u \notin r.made PROVE tasks[u].key # Key(h)
  <2> SUFFICES ASSUME tasks[u].key = Key(h) PROVE FALSE
    OBVIOUS
  <2>1. u \in Candidates(Key(h))
    BY <1>3 DEF Candidates
  <2>2. PICK t \in Candidates(Key(h)) : ~Fresh(t, r.force)
    BY <2>1
  <2>3. t \in DOMAIN tasks /\ tasks[t].key = Key(h)
    BY DEF Candidates
  <2>4. t \in r.made
    BY <1>4, <2>2, <2>3
  <2> QED BY <1>3, <1>5, <2>3, <2>4
<1>6. ASSUME NEW u \in DOMAIN tasks PROVE ~SameHint(tasks[u], AskFor(h))
  <2>1. CASE u \in r.made
    BY <1>2, <1>3, <2>1
  <2>2. CASE u \notin r.made
    BY <1>5, <2>2 DEF SameHint, AskFor
  <2> QED BY <2>1, <2>2
<1>7. ASSUME NEW i \in DOMAIN todo, i > 1 PROVE ~SameHint(AskFor(h), AskFor(todo[i]))
  <2>1. ~(1 > 1) /\ i # 1
    BY <1>7
  <2> QED BY <1>2, <1>3, <2>1
<1> QED BY <1>5, <1>6, <1>7

LEMMA TaskSaved ==
    ASSUME ResearchInv, env' = env, env.part = "research", NEW p \in Process, SaveNew(p)
    PROVE  ResearchInv'
<1>1. ResearchTyped /\ Logging /\ Told /\ TimesGrow /\ OneByOne
  BY DEF ResearchInv
<1> PICK r \in Searcher : r = researcher[p]
  BY <1>1 DEF ResearchTyped
<1> PICK todo \in Seq(Hints) : todo = r.todo
  BY DEF Searcher
<1> PICK h : h = Head(todo)
  OBVIOUS
<1> PICK created : created = IF now > r.lastCreated THEN now ELSE r.lastCreated + 1
  OBVIOUS
<1> PICK n : n = Len(tasks) + 1
  OBVIOUS
<1> PICK new : new = [key |-> Key(h), title |-> h.title, status |-> "pending", found |-> 0, force |-> r.force,
                      created |-> created]
  OBVIOUS
<1>2. /\ r.at = "queue" /\ lock = Nobody /\ lock' = p /\ now' = now
      /\ Candidates(Key(h)) = {} \/ \E t \in Candidates(Key(h)) : ~Fresh(t, r.force)
      /\ tasks' = Append(tasks, new) /\ log' = Append(log, "none")
  BY DEF SaveNew, Acquire
<1>3. todo # <<>> /\ h \in Hints /\ 1 \in DOMAIN todo
  BY <1>1, <1>2 DEF Logging
<1>4. created \in Nat /\ created > r.lastCreated
  BY <1>1 DEF ResearchTyped, Searcher
<1>5. new \in ResearchTask
  BY <1>3, <1>4 DEF ResearchTask, Status, Searcher
<1>6. /\ new.key = Key(h) /\ new.title = h.title /\ new.status = "pending" /\ new.found = 0 /\ new.force = r.force
      /\ new.created = created
  OBVIOUS
<1>7. /\ tasks' \in Seq(ResearchTask) /\ log' \in Seq(Event) /\ Len(log') = Len(tasks') /\ Len(tasks') = n
      /\ n \in Nat /\ DOMAIN tasks' = DOMAIN tasks \cup {n} /\ n \notin DOMAIN tasks /\ tasks'[n] = new
      /\ \A t \in DOMAIN tasks : tasks'[t] = tasks[t] /\ log'[t] = log[t] /\ t \in Nat /\ t < n
  <2>1. "none" \in Event /\ Len(tasks) \in Nat
    BY <1>1 DEF Event, ResearchTyped
  <2> QED BY <1>1, <1>2, <1>5, <2>1 DEF ResearchTyped
<1> PICK a : a = [r EXCEPT !.at = "log", !.task = n]
  OBVIOUS
<1> PICK j : j = [a EXCEPT !.event = "created", !.lastCreated = created, !.made = r.made \cup {n}]
  OBVIOUS
<1>8. /\ a \in Searcher /\ a.at = "log" /\ a.task = n /\ a.todo = todo /\ a.force = r.force /\ a.made = r.made
  BY <1>7 DEF Searcher
<1>9. /\ j \in Searcher /\ j.at = "log" /\ j.task = n /\ j.todo = todo /\ j.force = r.force /\ j.made = r.made \cup {n}
      /\ j.event = "created" /\ j.lastCreated = created
  <2>1. r.made \cup {n} \in SUBSET Nat
    BY <1>7 DEF Searcher
  <2> QED BY <1>4, <1>8, <2>1 DEF Searcher, Event
<1>10. researcher' = [researcher EXCEPT ![p] = j]
  <2>1. researcher' = [researcher EXCEPT ![p].at = "log", ![p].task = Len(tasks'), ![p].event = "created",
                                         ![p].lastCreated = created, ![p].made = @ \cup {Len(tasks')}]
    BY DEF SaveNew
  <2>2. j = [r EXCEPT !.at = "log", !.task = n, !.event = "created", !.lastCreated = created, !.made = r.made \cup {n}]
    BY DEF Searcher
  <2> QED BY <1>1, <1>7, <2>1, <2>2 DEF ResearchTyped
<1>11. ResearchTyped' /\ researcher'[p] = j /\ \A q \in Process : q # p => researcher'[q] = researcher[q]
  <2>1. now' \in Nat \ {0}
    BY <1>1, <1>2 DEF ResearchTyped
  <2> QED BY <1>1, <1>7, <1>9, <1>10, <2>1, SearcherMoves
<1>12. \A q \in Process : researcher[q].at # "log"
  BY <1>1, <1>2, DirectoryAssumption DEF Logging
<1>13. Logging'
  <2>1. tasks'[n].status = StatusOf("created")
    BY <1>6, <1>7 DEF StatusOf
  <2>2. \A q \in Process : q # p => researcher'[q] = researcher[q] /\ researcher[q].at # "log"
    BY <1>11, <1>12
  <2>3. n \in DOMAIN tasks' /\ lock' = p
    BY <1>2, <1>7
  <2>4. ASSUME NEW q \in Process, q # p, NEW s, s = researcher[q]
        PROVE  /\ s.at # "log" /\ (s.at = "idle" => s.made = {}) /\ (s.at = "queue" => s.todo # <<>>)
               /\ researcher'[q] = s
    BY <1>1, <2>2, <2>4 DEF Logging
  <2>5. \A q \in Process : q # p => researcher'[q].at # "log"
    BY <2>4
  <2>6. \A q \in Process : q # p => (researcher'[q].at = "idle" => researcher'[q].made = {})
    BY <2>4
  <2>7. \A q \in Process : q # p => (researcher'[q].at = "queue" => researcher'[q].todo # <<>>)
    BY <2>4
  <2>8. env'.part = "research"
    OBVIOUS
  <2>9. ASSUME NEW q \in Process, NEW s, s = researcher'[q]
        PROVE  /\ s.at = "idle" => s.made = {}
               /\ s.at = "queue" \/ (s.at = "log" /\ s.event = "created") => s.todo # <<>>
               /\ s.at = "log" /\ s.event # "created" => s.todo = <<>> /\ s.made = {}
               /\ s.at = "log" => lock' = q /\ s.task \in DOMAIN tasks' /\ tasks'[s.task].status = StatusOf(s.event)
    <3>1. CASE q = p
      <4>1. s = j
        BY <1>11, <2>9, <3>1
      <4> QED BY <1>3, <1>9, <2>1, <2>3, <3>1, <4>1
    <3>2. CASE q # p
      BY <2>5, <2>6, <2>7, <2>9, <3>2
    <3> QED BY <3>1, <3>2
  <2> QED BY <2>8, <2>9 DEF Logging
<1>14. Told'
  <2> SUFFICES ASSUME "crash" \notin env.events, NEW t \in DOMAIN tasks', t # n
               PROVE  StatusOf(log'[t]) = tasks'[t].status
    BY <1>9, <1>11 DEF Told
  <2>1. t \in DOMAIN tasks
    BY <1>7
  <2> QED BY <1>1, <1>7, <1>12, <2>1 DEF Told
<1>15. TimesGrow'
  <2>1. ASSUME NEW t \in j.made
        PROVE  /\ t \in DOMAIN tasks' /\ tasks'[t].created <= j.lastCreated
               /\ \A u \in j.made : t < u => tasks'[t].created < tasks'[u].created
    <3>1. CASE t = n
      <4>1. \A u \in r.made : ~(n < u)
        BY <1>1, <1>7 DEF TimesGrow
      <4> QED BY <1>4, <1>6, <1>7, <1>9, <3>1, <4>1
    <3>2. CASE t # n
      <4>1. t \in r.made /\ t \in DOMAIN tasks /\ tasks[t].created <= r.lastCreated
        BY <1>1, <1>9, <3>2 DEF TimesGrow
      <4>2. tasks[t].created \in Nat /\ r.lastCreated \in Nat
        <5>1. tasks[t] \in ResearchTask
          BY <1>1, <4>1 DEF ResearchTyped
        <5> QED BY <5>1 DEF ResearchTask, Searcher
      <4>3. tasks[t].created < created
        BY <1>4, <4>1, <4>2
      <4>4. \A u \in r.made : u \in DOMAIN tasks /\ (t < u => tasks[t].created < tasks[u].created)
        BY <1>1, <4>1 DEF TimesGrow
      <4> QED BY <1>4, <1>6, <1>7, <1>9, <4>1, <4>2, <4>3, <4>4
    <3> QED BY <3>1, <3>2
  <2>2. ASSUME NEW q \in Process, q # p, NEW t \in researcher[q].made
        PROVE  /\ t \in DOMAIN tasks' /\ tasks'[t].created <= researcher[q].lastCreated
               /\ \A u \in researcher[q].made : t < u => tasks'[t].created < tasks'[u].created
    BY <1>1, <1>7, <2>2 DEF TimesGrow
  <2> QED BY <1>11, <2>1, <2>2 DEF TimesGrow
<1>16. OneByOne'
  <2> SUFFICES ASSUME env.events = {"time"}, env.orderly, env.maxTime <= MaxAge + 1
               PROVE  OneByOne'
    BY DEF OneByOne
  <2>1. /\ \A u \in DOMAIN tasks : u \notin r.made => tasks[u].key # Key(h)
        /\ \A u \in DOMAIN tasks : ~SameHint(tasks[u], AskFor(h))
        /\ \A i \in DOMAIN todo : i > 1 => ~SameHint(AskFor(h), AskFor(todo[i]))
    BY <1>2, HintIsNew
  <2>2. \A u : (SameHint(tasks'[n], u) <=> SameHint(AskFor(h), u)) /\ (SameHint(u, tasks'[n]) <=> SameHint(u, AskFor(h)))
    BY <1>6, <1>7 DEF SameHint, AskFor
  <2>3. /\ now <= MaxAge + 1
        /\ \A q \in Process : researcher[q].at # "idle" => q = p
        /\ \A t \in DOMAIN tasks :
            /\ tasks[t].status # "torn" /\ ~tasks[t].force
            /\ tasks[t].status = "completed" => tasks[t].found # 0 /\ tasks[t].found <= now
            /\ tasks[t].status # "completed" => tasks[t].found = 0
            /\ \A u \in DOMAIN tasks : SameHint(tasks[t], tasks[u]) => t = u
        /\ ~r.force
        /\ \A t \in DOMAIN tasks : tasks[t].status = IF t \in r.made THEN "pending" ELSE "completed"
        /\ \A t \in r.made, u \in DOMAIN tasks \ r.made : tasks[t].key # tasks[u].key
        /\ \A t \in r.made, i \in DOMAIN todo : ~SameHint(tasks[t], AskFor(todo[i]))
        /\ \A i, k \in DOMAIN todo : SameHint(AskFor(todo[i]), AskFor(todo[k])) => i = k
    BY <1>1, <1>2 DEF OneByOne
  <2>4. \A t \in r.made : t \in DOMAIN tasks
    BY <1>1 DEF TimesGrow
  <2>5. ASSUME NEW t \in DOMAIN tasks'
        PROVE  /\ tasks'[t].status # "torn" /\ ~tasks'[t].force
               /\ tasks'[t].status = "completed" => tasks'[t].found # 0 /\ tasks'[t].found <= now'
               /\ tasks'[t].status # "completed" => tasks'[t].found = 0
               /\ tasks'[t].status = IF t \in j.made THEN "pending" ELSE "completed"
    BY <1>2, <1>6, <1>7, <1>9, <2>3
  <2>6. ASSUME NEW t \in DOMAIN tasks', NEW u \in DOMAIN tasks', SameHint(tasks'[t], tasks'[u]) PROVE t = u
    <3>1. SameHint(tasks'[u], tasks'[t])
      BY <2>6 DEF SameHint
    <3> QED BY <1>7, <2>1, <2>2, <2>3, <2>6, <3>1
  <2>7. ASSUME NEW t \in j.made, NEW u \in DOMAIN tasks' \ j.made PROVE tasks'[t].key # tasks'[u].key
    BY <1>6, <1>7, <1>9, <2>1, <2>3, <2>4
  <2>8. ASSUME NEW t \in j.made, NEW i \in DOMAIN j.todo, i > 1 PROVE ~SameHint(tasks'[t], AskFor(j.todo[i]))
    BY <1>7, <1>9, <2>1, <2>2, <2>3, <2>4, <2>8
  <2>9. \A q \in Process : researcher'[q].at # "idle" => q = p
    BY <1>11, <2>3
  <2>10. \A i, k \in DOMAIN j.todo : SameHint(AskFor(j.todo[i]), AskFor(j.todo[k])) => i = k
    BY <1>9, <2>3
  <2>11. /\ ~j.force /\ j.at # "queue"
         /\ \A t \in DOMAIN tasks' : tasks'[t].status = IF t \in j.made THEN "pending" ELSE "completed"
         /\ \A t \in j.made, u \in DOMAIN tasks' \ j.made : tasks'[t].key # tasks'[u].key
         /\ \A t \in j.made, i \in DOMAIN j.todo : i > 1 => ~SameHint(tasks'[t], AskFor(j.todo[i]))
    BY <1>9, <2>3, <2>5, <2>7, <2>8
  <2>12. now' <= MaxAge + 1
    BY <1>2, <2>3
  <2>13. \A t \in DOMAIN tasks' :
            /\ tasks'[t].status # "torn" /\ ~tasks'[t].force
            /\ tasks'[t].status = "completed" => tasks'[t].found # 0 /\ tasks'[t].found <= now'
            /\ tasks'[t].status # "completed" => tasks'[t].found = 0
            /\ \A u \in DOMAIN tasks' : SameHint(tasks'[t], tasks'[u]) => t = u
    BY <2>5, <2>6
  <2> QED BY <1>11, <2>9, <2>10, <2>11, <2>12, <2>13 DEF OneByOne
<1> QED BY <1>11, <1>13, <1>14, <1>15, <1>16 DEF ResearchInv

\* A task is started, completed or failed.
LEMMA StatusSaved ==
    ASSUME ResearchInv, env' = env, env.part = "research", NEW p \in Process, NEW t \in DOMAIN tasks,
           NEW event \in {"started", "completed", "failed"}, NEW found \in Nat,
           Save(p, t, StatusOf(event), found, event),
           event = "completed" => found = now, event # "completed" => found = tasks[t].found,
           event = "started" => tasks[t].status = "pending",
           event # "started" => "late" \in env.events \/ tasks[t].status = "in_progress"
    PROVE  ResearchInv'
<1>1. ResearchTyped /\ Logging /\ Told /\ TimesGrow /\ OneByOne
  BY DEF ResearchInv
<1> PICK x \in ResearchTask : x = tasks[t]
  BY <1>1 DEF ResearchTyped
<1> PICK status \in {"in_progress", "completed", "failed"} : status = StatusOf(event)
  BY DEF StatusOf
<1> PICK y : y = [x EXCEPT !.status = status, !.found = found]
  OBVIOUS
<1>2. /\ y \in ResearchTask /\ y.key = x.key /\ y.title = x.title /\ y.force = x.force /\ y.created = x.created
      /\ y.status = status /\ y.found = found
  BY DEF ResearchTask, Status
<1> PICK b : b = [Resting EXCEPT !.at = "log", !.task = t]
  OBVIOUS
<1> PICK j : j = [b EXCEPT !.event = event]
  OBVIOUS
<1>3. t \in Nat
  BY <1>1 DEF ResearchTyped
<1>4. b \in Searcher /\ b.at = "log" /\ b.task = t /\ b.todo = <<>> /\ b.made = {} /\ b.lastCreated = 0
  BY <1>3, RestingIs DEF Searcher
<1>5. /\ j \in Searcher /\ j.at = "log" /\ j.task = t /\ j.event = event /\ j.todo = <<>> /\ j.made = {}
      /\ j.event # "created"
  BY <1>4 DEF Searcher, Event
<1>6. /\ researcher[p].at = "idle" /\ lock = Nobody /\ lock' = p /\ UNCHANGED <<log, now>>
      /\ "overlap" \in env.events \/ \A q \in Process : researcher[q].at = "idle"
      /\ researcher' = [researcher EXCEPT ![p] = [Resting EXCEPT !.at = "log", !.task = t, !.event = event]]
      /\ tasks' = [tasks EXCEPT ![t].status = status, ![t].found = found]
  BY DEF Save, MayResearch, Acquire
<1>7. researcher' = [researcher EXCEPT ![p] = j]
  <2>1. j = [Resting EXCEPT !.at = "log", !.task = t, !.event = event]
    BY RestingIs DEF Searcher
  <2> QED BY <1>6, <2>1
<1>8. tasks' = [tasks EXCEPT ![t] = y]
  BY <1>1, <1>6 DEF ResearchTyped
<1>9. /\ tasks' \in Seq(ResearchTask) /\ Len(tasks') = Len(tasks) /\ DOMAIN tasks' = DOMAIN tasks /\ tasks'[t] = y
      /\ \A u \in DOMAIN tasks : u # t => tasks'[u] = tasks[u]
  BY <1>1, <1>2, <1>8 DEF ResearchTyped
<1>10. ResearchTyped' /\ researcher'[p] = j /\ \A q \in Process : q # p => researcher'[q] = researcher[q]
  <2>1. now' \in Nat \ {0} /\ log' \in Seq(Event) /\ Len(log') = Len(tasks')
    BY <1>1, <1>6, <1>9 DEF ResearchTyped
  <2> QED BY <1>1, <1>5, <1>7, <1>9, <2>1, SearcherMoves
<1>11. \A q \in Process : researcher[q].at # "log"
  BY <1>1, <1>6, DirectoryAssumption DEF Logging
<1>12. Logging'
  <2>1. ASSUME NEW q \in Process, NEW s, s = researcher'[q]
        PROVE  /\ s.at = "idle" => s.made = {}
               /\ s.at = "queue" \/ (s.at = "log" /\ s.event = "created") => s.todo # <<>>
               /\ s.at = "log" /\ s.event # "created" => s.todo = <<>> /\ s.made = {}
               /\ s.at = "log" => lock' = q /\ s.task \in DOMAIN tasks' /\ tasks'[s.task].status = StatusOf(s.event)
    <3>1. CASE q = p
      <4>1. s = j
        BY <1>10, <2>1, <3>1
      <4>2. y.status = StatusOf(event)
        BY <1>2
      <4> QED BY <1>5, <1>6, <1>9, <3>1, <4>1, <4>2
    <3>2. CASE q # p
      <4>1. s = researcher[q]
        BY <1>10, <2>1, <3>2
      <4> QED BY <1>1, <1>11, <4>1 DEF Logging
    <3> QED BY <3>1, <3>2
  <2>2. env'.part = "research"
    OBVIOUS
  <2> QED BY <2>1, <2>2 DEF Logging
<1>13. Told'
  <2> SUFFICES ASSUME "crash" \notin env.events, NEW u \in DOMAIN tasks', u # t
               PROVE  StatusOf(log'[u]) = tasks'[u].status
    BY <1>5, <1>10 DEF Told
  <2>1. u \in DOMAIN tasks /\ tasks'[u] = tasks[u] /\ log'[u] = log[u]
    BY <1>6, <1>9
  <2> QED BY <1>1, <1>11, <2>1 DEF Told
<1>14. \A u \in DOMAIN tasks : /\ tasks'[u].created = tasks[u].created /\ tasks'[u].key = tasks[u].key
                               /\ tasks'[u].title = tasks[u].title /\ tasks'[u].force = tasks[u].force
  BY <1>2, <1>9
<1>15. TimesGrow'
  <2>1. ASSUME NEW q \in Process, NEW u \in researcher'[q].made
        PROVE  /\ u \in DOMAIN tasks' /\ tasks'[u].created <= researcher'[q].lastCreated
               /\ \A v \in researcher'[q].made : u < v => tasks'[u].created < tasks'[v].created
    <3>1. q # p
      BY <1>5, <1>10, <2>1
    <3>2. researcher'[q] = researcher[q]
      BY <1>10, <3>1
    <3>3. /\ u \in DOMAIN tasks /\ tasks[u].created <= researcher[q].lastCreated
          /\ \A v \in researcher[q].made : v \in DOMAIN tasks /\ (u < v => tasks[u].created < tasks[v].created)
      BY <1>1, <2>1, <3>2 DEF TimesGrow
    <3> QED BY <1>9, <1>14, <3>2, <3>3
  <2> QED BY <2>1 DEF TimesGrow
<1>16. OneByOne'
  <2> SUFFICES ASSUME env.events = {"time"}, env.orderly, env.maxTime <= MaxAge + 1
               PROVE  OneByOne'
    BY DEF OneByOne
  <2>1. \A q \in Process : researcher[q].at = "idle"
    BY <1>6
  <2>2. \A q \in Process : researcher'[q].at # "idle" => q = p
    BY <1>10, <2>1
  <2>3. /\ now <= MaxAge + 1
        /\ \A u \in DOMAIN tasks :
            /\ tasks[u].status # "torn" /\ ~tasks[u].force
            /\ tasks[u].status = "completed" => tasks[u].found # 0 /\ tasks[u].found <= now
            /\ tasks[u].status # "completed" => tasks[u].found = 0
            /\ \A v \in DOMAIN tasks : SameHint(tasks[u], tasks[v]) => u = v
    BY <1>1 DEF OneByOne
  <2>4. y.status # "torn" /\ ~y.force
    BY <1>2, <2>3
  <2>5. (event = "completed") = (status = "completed")
    BY DEF StatusOf
  <2>6. now # 0 /\ now <= now
    BY <1>1 DEF ResearchTyped
  <2>7. status = "completed" => found # 0 /\ found <= now
    BY <2>5, <2>6
  <2>8. status # "completed" => found = 0
    <3>1. "late" \notin env.events
      OBVIOUS
    <3>2. status # "completed" => tasks[t].status \in {"pending", "in_progress"}
      BY <2>5, <3>1
    <3> QED BY <2>3, <2>5, <3>2
  <2>9. \A u \in DOMAIN tasks' :
            /\ tasks'[u].status # "torn" /\ ~tasks'[u].force
            /\ tasks'[u].status = "completed" => tasks'[u].found # 0 /\ tasks'[u].found <= now'
            /\ tasks'[u].status # "completed" => tasks'[u].found = 0
    BY <1>2, <1>6, <1>9, <2>3, <2>4, <2>7, <2>8
  <2>10. \A u, v \in DOMAIN tasks' : SameHint(tasks'[u], tasks'[v]) => u = v
    BY <1>9, <1>14, <2>3 DEF SameHint
  <2>11. \A q \in Process : ~(researcher'[q].at = "queue" \/ (researcher'[q].at = "log" /\ researcher'[q].event = "created"))
    <3> TAKE q \in Process
    <3>1. CASE q = p
      BY <1>5, <1>10, <3>1
    <3>2. CASE q # p
      BY <1>10, <2>1, <3>2
    <3> QED BY <3>1, <3>2
  <2>12. now' <= MaxAge + 1
    BY <1>6, <2>3
  <2> QED BY <2>2, <2>9, <2>10, <2>11, <2>12 DEF OneByOne
<1> QED BY <1>10, <1>12, <1>13, <1>15, <1>16 DEF ResearchInv

LEMMA TaskChanged ==
    ASSUME ResearchInv, env' = env, env.part = "research", NEW p \in Process, NEW t \in DOMAIN tasks,
           StartTask(p, t) \/ CompleteTask(p, t) \/ FailTask(p, t)
    PROVE  ResearchInv'
<1>1. tasks[t] \in ResearchTask /\ now \in Nat
  BY DEF ResearchInv, ResearchTyped
<1>2. tasks[t].found \in Nat
  BY <1>1 DEF ResearchTask
<1>3. StatusOf("started") = "in_progress" /\ StatusOf("completed") = "completed" /\ StatusOf("failed") = "failed"
  BY DEF StatusOf
<1>4. CASE StartTask(p, t)
  <2>1. Save(p, t, StatusOf("started"), tasks[t].found, "started") /\ tasks[t].status = "pending"
    BY <1>3, <1>4 DEF StartTask
  <2> QED BY <1>2, <2>1, StatusSaved
<1>5. CASE CompleteTask(p, t)
  <2>1. Save(p, t, StatusOf("completed"), now, "completed") /\ ("late" \in env.events \/ tasks[t].status = "in_progress")
    BY <1>3, <1>5 DEF CompleteTask
  <2> QED BY <1>1, <2>1, StatusSaved
<1>6. CASE FailTask(p, t)
  <2>1. /\ Save(p, t, StatusOf("failed"), tasks[t].found, "failed")
        /\ "late" \in env.events \/ tasks[t].status = "in_progress"
    BY <1>3, <1>6 DEF FailTask
  <2> QED BY <1>2, <2>1, StatusSaved
<1> QED BY <1>4, <1>5, <1>6

LEMMA SearcherDies ==
    ASSUME ResearchInv, env' = env, env.part = "research", NEW p \in Process, CrashResearch(p)
    PROVE  ResearchInv'
<1>1. ResearchTyped /\ Logging /\ TimesGrow
  BY DEF ResearchInv
<1>2. /\ "crash" \in env.events /\ researcher' = [researcher EXCEPT ![p] = Resting] /\ UNCHANGED <<log, now>>
      /\ lock' = IF lock = p THEN Nobody ELSE lock
      /\ \/ UNCHANGED tasks
         \/ researcher[p].at = "log" /\ tasks' = [tasks EXCEPT ![researcher[p].task].status = "torn"]
  BY DEF CrashResearch, Rests, Abandon
<1>3. /\ tasks' \in Seq(ResearchTask) /\ Len(tasks') = Len(tasks) /\ DOMAIN tasks' = DOMAIN tasks
      /\ \A u \in DOMAIN tasks : tasks'[u].created = tasks[u].created
      /\ researcher[p].at # "log" => tasks' = tasks
  <2>1. CASE UNCHANGED tasks
    BY <1>1, <2>1 DEF ResearchTyped
  <2>2. CASE ~UNCHANGED tasks
    <3> PICK t : t = researcher[p].task
      OBVIOUS
    <3>1. t \in DOMAIN tasks /\ tasks' = [tasks EXCEPT ![t].status = "torn"] /\ researcher[p].at = "log"
      BY <1>1, <1>2, <2>2 DEF Logging
    <3> PICK x \in ResearchTask : x = tasks[t]
      BY <1>1, <3>1 DEF ResearchTyped
    <3> PICK y : y = [x EXCEPT !.status = "torn"]
      OBVIOUS
    <3>2. y \in ResearchTask /\ y.created = x.created
      BY DEF ResearchTask, Status
    <3>3. tasks' = [tasks EXCEPT ![t] = y]
      BY <1>1, <3>1 DEF ResearchTyped
    <3> QED BY <1>1, <3>1, <3>2, <3>3 DEF ResearchTyped
  <2> QED BY <2>1, <2>2
<1>4. ResearchTyped' /\ researcher'[p] = Resting /\ \A q \in Process : q # p => researcher'[q] = researcher[q]
  <2>1. now' \in Nat \ {0} /\ log' \in Seq(Event) /\ Len(log') = Len(tasks')
    BY <1>1, <1>2, <1>3 DEF ResearchTyped
  <2> QED BY <1>1, <1>2, <1>3, <2>1, RestingIs, SearcherMoves
<1>5. Logging'
  <2>1. ASSUME NEW q \in Process, NEW s, s = researcher'[q]
        PROVE  /\ s.at = "idle" => s.made = {}
               /\ s.at = "queue" \/ (s.at = "log" /\ s.event = "created") => s.todo # <<>>
               /\ s.at = "log" /\ s.event # "created" => s.todo = <<>> /\ s.made = {}
               /\ s.at = "log" => lock' = q /\ s.task \in DOMAIN tasks' /\ tasks'[s.task].status = StatusOf(s.event)
    <3>1. CASE q = p
      BY <1>4, <2>1, <3>1, RestingIs
    <3>2. CASE q # p
      <4>1. s = researcher[q]
        BY <1>4, <2>1, <3>2
      <4>2. s.at = "log" => researcher[p].at # "log" /\ lock = q
        BY <1>1, <3>2, <4>1 DEF Logging
      <4>3. s.at = "log" => tasks' = tasks /\ lock' = q
        BY <1>2, <1>3, <3>2, <4>2
      <4> QED BY <1>1, <4>1, <4>3 DEF Logging
    <3> QED BY <3>1, <3>2
  <2>2. env'.part = "research"
    OBVIOUS
  <2> QED BY <2>1, <2>2 DEF Logging
<1>6. Told' /\ OneByOne'
  <2>1. "crash" \in env'.events /\ env'.events # {"time"}
    BY <1>2
  <2> QED BY <2>1 DEF Told, OneByOne
<1>7. TimesGrow'
  <2>1. ASSUME NEW q \in Process, NEW u \in researcher'[q].made
        PROVE  /\ u \in DOMAIN tasks' /\ tasks'[u].created <= researcher'[q].lastCreated
               /\ \A v \in researcher'[q].made : u < v => tasks'[u].created < tasks'[v].created
    <3>1. q # p
      BY <1>4, <2>1, RestingIs
    <3>2. researcher'[q] = researcher[q]
      BY <1>4, <3>1
    <3>3. /\ u \in DOMAIN tasks /\ tasks[u].created <= researcher[q].lastCreated
          /\ \A v \in researcher[q].made : v \in DOMAIN tasks /\ (u < v => tasks[u].created < tasks[v].created)
      BY <1>1, <2>1, <3>2 DEF TimesGrow
    <3> QED BY <1>3, <3>2, <3>3
  <2> QED BY <2>1 DEF TimesGrow
<1> QED BY <1>4, <1>5, <1>6, <1>7 DEF ResearchInv

LEMMA TimePasses ==
    ASSUME ResearchInv, env' = env, env.part = "research", Tick
    PROVE  ResearchInv'
<1>1. ResearchTyped /\ Logging /\ Told /\ TimesGrow /\ OneByOne
  BY DEF ResearchInv
<1>2. now < env.maxTime /\ now' = now + 1 /\ UNCHANGED <<tasks, log, researcher, lock>>
  BY DEF Tick
<1>3. Hints' = Hints /\ ResearchTask' = ResearchTask /\ Searcher' = Searcher
  BY HintsStay
<1>4. ResearchTyped'
  <2>1. now' \in Nat \ {0}
    BY <1>1, <1>2 DEF ResearchTyped
  <2> QED BY <1>1, <1>2, <1>3, <2>1 DEF ResearchTyped, Event
<1>5. Logging' /\ Told' /\ TimesGrow'
  BY <1>1, <1>2 DEF Logging, Told, TimesGrow
<1>6. OneByOne'
  <2> SUFFICES ASSUME env.events = {"time"}, env.orderly, env.maxTime <= MaxAge + 1
               PROVE  OneByOne'
    BY DEF OneByOne
  <2>1. env.maxTime \in Nat /\ MaxAge \in Nat /\ now \in Nat
    BY <1>1, ResearchAssumption DEF ResearchTyped
  <2>2. now' <= MaxAge + 1
    BY <1>2, <2>1
  <2>3. ASSUME NEW t \in DOMAIN tasks PROVE tasks[t].found \in Nat
    <3>1. tasks[t] \in ResearchTask
      BY <1>1 DEF ResearchTyped
    <3> QED BY <3>1 DEF ResearchTask
  <2>4. \A t \in DOMAIN tasks : tasks[t].status = "completed" => tasks[t].found # 0 /\ tasks[t].found <= now'
    BY <1>1, <1>2, <2>1, <2>3 DEF OneByOne
  <2> QED BY <1>1, <1>2, <2>2, <2>4 DEF OneByOne
<1> QED BY <1>4, <1>5, <1>6 DEF ResearchInv

LEMMA ResearchElsewhere ==
    ASSUME ResearchInv, env' = env, UNCHANGED researchVars, env.part = "research" => lock' = lock
    PROVE  ResearchInv'
<1>1. ResearchTyped /\ Logging /\ Told /\ TimesGrow /\ OneByOne
  BY DEF ResearchInv
<1>2. UNCHANGED <<tasks, log, now, researcher>>
  BY DEF researchVars
<1>3. Hints' = Hints /\ ResearchTask' = ResearchTask /\ Searcher' = Searcher
  BY HintsStay
<1>4. ResearchTyped'
  BY <1>1, <1>2, <1>3 DEF ResearchTyped, Event
<1>5. Logging'
  <2>1. CASE env.part = "research"
    BY <1>1, <1>2, <2>1 DEF Logging
  <2>2. CASE env.part # "research"
    <3>1. tasks' = <<>> /\ researcher' = [p \in Process |-> Resting]
      BY <1>1, <1>2, <2>2 DEF Logging
    <3>2. \A p \in Process : researcher'[p] = Resting
      BY <3>1
    <3> QED BY <3>1, <3>2, RestingIs DEF Logging
  <2> QED BY <2>1, <2>2
<1>6. Told' /\ TimesGrow' /\ OneByOne'
  BY <1>1, <1>2 DEF Told, TimesGrow, OneByOne
<1> QED BY <1>4, <1>5, <1>6 DEF ResearchInv

LEMMA ResearchStep == ResearchInv /\ [Next]_vars => ResearchInv'
<1> SUFFICES ASSUME ResearchInv, [Next]_vars PROVE ResearchInv'
  OBVIOUS
<1>1. CASE env.part = "research" /\ ResearchNext /\ env' = env
  <2>1. ASSUME NEW p \in Process,
               \/ BeginDetection(p) \/ \E force \in BOOLEAN : BeginCreate(p, force)
               \/ Reuse(p) \/ SaveNew(p) \/ LogEvent(p) \/ CrashResearch(p)
               \/ \E t \in DOMAIN tasks : StartTask(p, t) \/ CompleteTask(p, t) \/ FailTask(p, t)
        PROVE  ResearchInv'
    BY <1>1, <2>1, SearchBegins, HintReused, TaskSaved, EventLogged, SearcherDies, TaskChanged
  <2> QED BY <1>1, <2>1, TimePasses DEF ResearchNext
<1>2. CASE UNCHANGED <<researchVars, env>> /\ (env.part = "research" => lock' = lock)
  BY <1>2, ResearchElsewhere
<1> QED BY <1>1, <1>2 DEF Next, vars

LEMMA EventsAreTold == ResearchInv => LogTellsStatus
<1> SUFFICES ASSUME ResearchInv, lock = Nobody, "crash" \notin env.events, NEW s \in Status
             PROVE  Diagnostics(s) = Cardinality({t \in DOMAIN tasks : StatusOf(log[t]) = s})
  BY DEF LogTellsStatus
<1>1. \A p \in Process : researcher[p].at # "log"
  BY DirectoryAssumption DEF ResearchInv, Logging
<1>2. \A t \in DOMAIN tasks : StatusOf(log[t]) = tasks[t].status
  BY <1>1 DEF ResearchInv, Told
<1>3. {t \in DOMAIN tasks : tasks[t].status = s} = {t \in DOMAIN tasks : StatusOf(log[t]) = s}
  BY <1>2
<1> QED BY <1>3 DEF Diagnostics

LEMMA NewestListedFirst == ResearchInv => ListedInOrder
<1> SUFFICES ASSUME ResearchInv, NEW status, NEW list \in Listings(status),
                    NEW p \in Process, NEW i \in DOMAIN list, NEW k \in DOMAIN list,
                    i < k, list[i] \in researcher[p].made, list[k] \in researcher[p].made
             PROVE  list[i] > list[k]
  BY DEF ListedInOrder
<1> PICK t : t = list[i]
  OBVIOUS
<1> PICK u : u = list[k]
  OBVIOUS
<1>1. t # u /\ tasks[t].created >= tasks[u].created
  BY DEF Listings
<1>2. t \in DOMAIN tasks /\ u \in DOMAIN tasks /\ (t < u => tasks[t].created < tasks[u].created)
  BY DEF ResearchInv, TimesGrow
<1>3. t \in Nat /\ u \in Nat
  BY <1>2 DEF ResearchInv, ResearchTyped
<1>4. tasks[t] \in ResearchTask /\ tasks[u] \in ResearchTask
  BY <1>2 DEF ResearchInv, ResearchTyped
<1>5. tasks[t].created \in Nat /\ tasks[u].created \in Nat
  BY <1>4 DEF ResearchTask
<1>6. ~(t < u)
  BY <1>1, <1>2, <1>5
<1> QED BY <1>1, <1>3, <1>6

LEMMA NothingResearchedTwice == ResearchInv => NoRepeatedWork
<1> SUFFICES ASSUME ResearchInv, env.events = {"time"}, env.orderly, env.maxTime <= MaxAge + 1
             PROVE  /\ StaleTasks = {}
                    /\ \A t, u \in DOMAIN tasks :
                            tasks[t].key = tasks[u].key /\ tasks[t].title = tasks[u].title => t = u
  BY DEF NoRepeatedWork
<1>1. OneByOne /\ ResearchTyped
  BY DEF ResearchInv
<1>2. ASSUME NEW t \in DOMAIN tasks, tasks[t].status = "completed" PROVE Fresh(t, tasks[t].force)
  <2>1. ~tasks[t].force /\ tasks[t].found # 0 /\ tasks[t].found <= now /\ now <= MaxAge + 1
    BY <1>1, <1>2 DEF OneByOne
  <2>2. tasks[t] \in ResearchTask
    BY <1>1 DEF ResearchTyped
  <2>3. tasks[t].found \in Nat /\ now \in Nat /\ MaxAge \in Nat
    BY <1>1, <2>2, ResearchAssumption DEF ResearchTyped, ResearchTask
  <2> QED BY <2>1, <2>3 DEF Fresh
<1>3. StaleTasks = {}
  BY <1>2 DEF StaleTasks
<1> QED BY <1>1, <1>3 DEF OneByOne, SameHint

(***************************************************************************)
(* The research of a run in every behaviour: the counts of research list   *)
(* are those the log tells, what a coordinator created is listed newest    *)
(* first, and one search after the other researches nothing twice.         *)
(* (researchCoordinator.ts: queueTask, completeTask, failTask, listTasks)  *)
(***************************************************************************)
THEOREM ResearchTrue == Spec => []ResearchAgrees
<1>1. ResearchInv => ResearchAgrees
  BY EventsAreTold, NewestListedFirst, NothingResearchedTwice DEF ResearchAgrees
<1> QED BY <1>1, ResearchStart, ResearchStep, PTL DEF Spec
-----------------------------------------------------------------------------
(* Runner.tla *)

LEMMA RunnerSettings ==
    /\ MaxChunks \in Nat /\ MaxBuffer \in Nat /\ Rotation \in Nat \ {0}
    /\ env \in Environment => env.cli \in BOOLEAN /\ env.keep \in Nat \ {0}
BY RunnerAssumption

EndResult(markers) ==
    [exit : {0, 1, 124, 137}, timedOut : BOOLEAN, killed : BOOLEAN, kept : Nat, text : SUBSET markers, refused : BOOLEAN]
Jobs(markers) ==
    [at : {"idle", "resolve", "spawn", "running", "flush", "done", "over"},
     child : {"none", "alive", "exited", "closed"}, code : {0, 1, TERM, KILL}, printed : Nat, kept : Nat, over : BOOLEAN,
     text : SUBSET markers, timedOut : BOOLEAN, killed : BOOLEAN, result : EndResult(markers),
     returned : [success : BOOLEAN, status : {"none", "completed", "timeout", "killed", "failed"}, recoverable : BOOLEAN]]

\* The result is that of a child that was waited for, or tells that there was none.
ResultSound(j) ==
    \/ /\ j.child = "closed" /\ j.result.exit = ExitCode(j) /\ j.result.timedOut = j.timedOut
       /\ ~j.result.refused
    \/ /\ j.child = "none" /\ j.result.exit = 1 /\ ~j.timedOut
       /\ ~j.result.timedOut /\ ~j.result.killed /\ j.result.text = {}

JobSound(j) ==
    /\ j.at \in {"idle", "resolve", "spawn"} => j.child = "none" /\ ~j.timedOut /\ ~j.killed /\ j.printed = 0
    /\ j.at = "running" => j.child \in {"alive", "exited"}
    /\ j.at \in {"flush", "done", "over"} => ResultSound(j)
    /\ j.at \in {"idle", "resolve", "spawn", "running", "flush"} => ~j.result.refused
    /\ j.at = "over" => j.returned = NormalizedResult(j.result)

\* The execution that set the flag.
Holds(j) == j.at \in {"resolve", "spawn", "running", "flush"} \/ (j.at = "done" /\ ~j.result.refused)

JobsInv ==
    /\ env \in Environment
    /\ executing \in BOOLEAN
    /\ job \in [Process -> Jobs(env.markers)]
    /\ \A p \in Process : JobSound(job[p])
    /\ env.cli => \A p, q \in Process : Holds(job[p]) => executing /\ (Holds(job[q]) => p = q)

LEMMA JobsStart == Init => JobsInv
<1> SUFFICES ASSUME Init PROVE JobsInv
  OBVIOUS
<1>1. env \in Environment /\ job = [p \in Process |-> NoJob] /\ executing = FALSE
  BY DEF Init, RunnerInit
<1>2. NoJob \in Jobs(env.markers)
  <2>1. Ended \in EndResult(env.markers)
    BY DEF Ended, EndResult
  <2> QED BY <2>1 DEF NoJob, Jobs
<1>3. JobSound(NoJob) /\ ~Holds(NoJob)
  BY DEF JobSound, Holds, NoJob, Ended
<1> QED BY <1>1, <1>2, <1>3 DEF JobsInv

\* One job moves on; it does not come to hold the flag, or it takes it.
LEMMA JobMoves ==
    ASSUME JobsInv, UNCHANGED env, NEW p \in Process, NEW j, j \in Jobs(env.markers), JobSound(j), Sets(p, j),
           \/ UNCHANGED executing /\ (Holds(j) => Holds(job[p]))
           \/ executing' = env.cli /\ (env.cli => ~executing)
    PROVE  JobsInv'
<1>1. job' = [job EXCEPT ![p] = j] /\ job \in [Process -> Jobs(env.markers)] /\ env \in Environment /\ executing \in BOOLEAN
  BY DEF Sets, JobsInv
<1>2. env.cli \in BOOLEAN
  BY <1>1, RunnerSettings
<1>3. job'[p] = j /\ \A q \in Process : q # p => job'[q] = job[q]
  BY <1>1
<1>4. job' \in [Process -> Jobs(env.markers')]
  <2>1. env' = env
    OBVIOUS
  <2> QED BY <1>1, <2>1
<1>5. \A q \in Process : JobSound(job'[q])
  BY <1>3 DEF JobsInv
<1>6. executing' \in BOOLEAN
  BY <1>1, <1>2
<1>7. env.cli => \A q, r \in Process : Holds(job'[q]) => executing' /\ (Holds(job'[r]) => q = r)
  BY <1>2, <1>3 DEF JobsInv
<1> QED BY <1>1, <1>4, <1>5, <1>6, <1>7 DEF JobsInv

LEMMA JobTyped ==
    ASSUME JobsInv, NEW p \in Process
    PROVE  job[p] \in Jobs(env.markers) /\ JobSound(job[p])
BY DEF JobsInv

LEMMA Failures ==
    ASSUME NEW markers, NEW r, r \in {[Ended EXCEPT !.exit = 1], [Ended EXCEPT !.exit = 1, !.refused = TRUE]}
    PROVE  /\ r \in EndResult(markers) /\ r.exit = 1 /\ ~r.timedOut /\ ~r.killed /\ r.text = {}
           /\ r = [Ended EXCEPT !.exit = 1, !.refused = TRUE] => r.refused
<1>1. PICK ended : ended = Ended
  OBVIOUS
<1>2. ended \in EndResult(markers) /\ ended.exit = 0 /\ ~ended.timedOut /\ ~ended.killed /\ ended.text = {} /\ ~ended.refused
  BY <1>1 DEF Ended, EndResult
<1>3. PICK failed : failed = [ended EXCEPT !.exit = 1]
  OBVIOUS
<1>4. PICK refused : refused = [failed EXCEPT !.refused = TRUE]
  OBVIOUS
<1>5. failed \in EndResult(markers)
  BY <1>2, <1>3 DEF EndResult
<1>6. failed.exit = 1 /\ ~failed.timedOut /\ ~failed.killed /\ failed.text = {} /\ ~failed.refused
  BY <1>2, <1>3 DEF EndResult
<1>7. refused \in EndResult(markers)
  BY <1>4, <1>5 DEF EndResult
<1>8. refused.exit = 1 /\ ~refused.timedOut /\ ~refused.killed /\ refused.text = {} /\ refused.refused
  BY <1>4, <1>5, <1>6 DEF EndResult
<1>9. r \in {failed, refused} /\ (r = [Ended EXCEPT !.exit = 1, !.refused = TRUE] => r = refused)
  BY <1>1, <1>3, <1>4
<1> QED BY <1>5, <1>6, <1>7, <1>8, <1>9

\* The job gets further without a child, fails, or starts one.
LEMMA EarlyJob ==
    ASSUME JobsInv, UNCHANGED env, NEW p \in Process, BeginJob(p) \/ Resolve(p) \/ SpawnChild(p)
    PROVE  JobsInv'
<1>1. job[p] \in Jobs(env.markers) /\ JobSound(job[p])
  BY JobTyped
<1> DEFINE failed == [Ended EXCEPT !.exit = 1]
           refused == [Ended EXCEPT !.exit = 1, !.refused = TRUE]
<1>2. refused.refused
  BY Failures
<1>3. ASSUME job[p].at \in {"idle", "resolve", "spawn"}, NEW r \in {failed, refused}, Finishes(p, r),
             UNCHANGED executing, job[p].at = "idle" => r.refused
      PROVE  JobsInv'
  <2>1. PICK markers : markers = env.markers
    OBVIOUS
  <2>2. r \in EndResult(markers) /\ r.exit = 1 /\ ~r.timedOut /\ ~r.killed /\ r.text = {}
    BY Failures
  <2>3. PICK j : j = job[p]
    OBVIOUS
  <2>4. j \in Jobs(markers) /\ JobSound(j) /\ j.at \in {"idle", "resolve", "spawn"}
    BY <1>1, <1>3, <2>1, <2>3
  <2>5. PICK k : k = [j EXCEPT !.at = "done", !.result = r]
    OBVIOUS
  <2>6. k \in Jobs(markers) /\ JobSound(k) /\ k.result = r /\ k.at = "done"
    <3>1. k \in Jobs(markers)
      BY <2>2, <2>4, <2>5 DEF Jobs
    <3>2. k.at = "done" /\ k.result = r /\ k.child = j.child /\ k.timedOut = j.timedOut
      BY <2>4, <2>5 DEF Jobs
    <3>3. JobSound(k)
      BY <2>2, <2>4, <3>2 DEF JobSound, ResultSound
    <3> QED BY <3>1, <3>2, <3>3
  <2>7. Holds(k) => Holds(job[p])
    BY <1>3, <2>6 DEF Holds
  <2>8. Sets(p, k)
    BY <1>3, <2>3, <2>5 DEF Finishes
  <2> QED BY <1>3, <2>1, <2>6, <2>7, <2>8, JobMoves
<1> HIDE DEF failed, refused
<1>4. CASE BeginJob(p)
  <2>1. CASE Finishes(p, refused) /\ UNCHANGED executing
    BY <1>2, <1>3, <1>4, <2>1 DEF BeginJob
  <2>2. CASE Sets(p, [job[p] EXCEPT !.at = "resolve"]) /\ executing' = env.cli /\ ~(env.cli /\ (executing \/ ~env.supported))
    <3>1. PICK k : k = [job[p] EXCEPT !.at = "resolve"]
      OBVIOUS
    <3>2. k \in Jobs(env.markers)
      BY <1>1, <3>1 DEF Jobs
    <3>3. /\ k.at = "resolve" /\ k.child = job[p].child /\ k.timedOut = job[p].timedOut /\ k.killed = job[p].killed
          /\ k.printed = job[p].printed /\ k.result = job[p].result
      BY <1>1, <3>1 DEF Jobs
    <3>4. JobSound(k)
      BY <1>1, <1>4, <3>3 DEF JobSound, BeginJob
    <3> QED BY <2>2, <3>1, <3>2, <3>4, JobMoves
  <2> QED BY <1>4, <2>1, <2>2 DEF BeginJob, refused
<1>5. CASE Resolve(p) \/ SpawnChild(p)
  <2>1. CASE Finishes(p, failed)
    BY <1>3, <1>5, <2>1 DEF Resolve, SpawnChild
  <2>2. CASE job[p].at = "resolve" /\ Sets(p, [job[p] EXCEPT !.at = "spawn"])
    <3>1. PICK k : k = [job[p] EXCEPT !.at = "spawn"]
      OBVIOUS
    <3>2. k \in Jobs(env.markers)
      BY <1>1, <3>1 DEF Jobs
    <3>3. /\ k.at = "spawn" /\ k.child = job[p].child /\ k.timedOut = job[p].timedOut /\ k.killed = job[p].killed
          /\ k.printed = job[p].printed /\ k.result = job[p].result
      BY <1>1, <3>1 DEF Jobs
    <3>4. JobSound(k) /\ Holds(job[p])
      BY <1>1, <2>2, <3>3 DEF JobSound, Holds
    <3>5. UNCHANGED executing
      BY <1>5 DEF Resolve, SpawnChild
    <3> QED BY <2>2, <3>1, <3>2, <3>4, <3>5, JobMoves
  <2>3. CASE job[p].at = "spawn" /\ Sets(p, [job[p] EXCEPT !.at = "running", !.child = "alive"])
    <3>1. PICK k : k = [job[p] EXCEPT !.at = "running", !.child = "alive"]
      OBVIOUS
    <3>2. k \in Jobs(env.markers)
      BY <1>1, <3>1 DEF Jobs
    <3>3. k.at = "running" /\ k.child = "alive" /\ k.result = job[p].result
      BY <1>1, <3>1 DEF Jobs
    <3>4. JobSound(k) /\ Holds(job[p])
      BY <1>1, <2>3, <3>3 DEF JobSound, Holds
    <3>5. UNCHANGED executing
      BY <1>5 DEF Resolve, SpawnChild
    <3> QED BY <2>3, <3>1, <3>2, <3>4, <3>5, JobMoves
  <2> QED BY <1>5, <2>1, <2>2, <2>3 DEF Resolve, SpawnChild, failed
<1> QED BY <1>4, <1>5

\* While the child lives the job runs, and only what is known of the child changes.
LEMMA RunningJob ==
    ASSUME JobsInv, UNCHANGED env, NEW p \in Process, ReadChunk(p) \/ ExitChild(p) \/ TimeOut(p) \/ KillChild(p)
    PROVE  JobsInv'
<1>1. job[p] \in Jobs(env.markers) /\ JobSound(job[p])
  BY JobTyped
<1>2. ASSUME job[p].at = "running", NEW k, k \in Jobs(env.markers), k.at = "running", k.child \in {"alive", "exited"},
             k.result = job[p].result, Sets(p, k), UNCHANGED executing
      PROVE  JobsInv'
  <2>1. JobSound(k) /\ Holds(job[p])
    BY <1>1, <1>2 DEF JobSound, Holds
  <2> QED BY <1>2, <2>1, JobMoves
<1>3. job[p].child = "alive" => job[p].at = "running"
  BY <1>1 DEF JobSound, ResultSound, Jobs
<1>4. UNCHANGED executing
  BY DEF ReadChunk, ExitChild, TimeOut, KillChild
<1>5. CASE ReadChunk(p)
  <2> DEFINE n == job[p].printed + 1
             over == job[p].over \/ job[p].kept + 1 > MaxBuffer
  <2>1. PICK marker \in {{}} \cup {{m} : m \in env.markers} :
            Sets(p, [job[p] EXCEPT !.printed = n, !.over = over, !.kept = IF over THEN @ ELSE n,
                                   !.text = IF over THEN @ ELSE @ \cup marker])
    BY <1>5 DEF ReadChunk
  <2>2. over \in BOOLEAN /\ n \in Nat /\ job[p].text \subseteq env.markers /\ job[p].kept \in Nat
    BY <1>1 DEF Jobs
  <2>3. marker \subseteq env.markers
    OBVIOUS
  <2> HIDE DEF n, over
  <2>4. PICK text : text = IF over THEN job[p].text ELSE job[p].text \cup marker
    OBVIOUS
  <2>5. PICK stored : stored = IF over THEN job[p].kept ELSE n
    OBVIOUS
  <2>6. text \subseteq env.markers /\ stored \in Nat
    BY <2>2, <2>3, <2>4, <2>5
  <2>7. PICK k : k = [job[p] EXCEPT !.printed = n, !.over = over, !.kept = stored, !.text = text]
    OBVIOUS
  <2>8. Sets(p, k)
    BY <1>1, <2>1, <2>4, <2>5, <2>7 DEF Jobs
  <2>9. k \in Jobs(env.markers)
    BY <1>1, <2>2, <2>6, <2>7 DEF Jobs
  <2>10. k.at = job[p].at /\ k.child = job[p].child /\ k.result = job[p].result
    BY <1>1, <2>7 DEF Jobs
  <2> QED BY <1>2, <1>4, <1>5, <2>8, <2>9, <2>10 DEF ReadChunk
<1>6. CASE ExitChild(p)
  <2>1. PICK code \in {0, 1} \cup (IF "kill" \in env.events THEN {KILL, TERM} ELSE {}) :
            Sets(p, [job[p] EXCEPT !.child = "exited", !.code = code])
    BY <1>6 DEF ExitChild
  <2>2. code \in {0, 1, TERM, KILL}
    OBVIOUS
  <2>3. PICK k : k = [job[p] EXCEPT !.child = "exited", !.code = code]
    OBVIOUS
  <2>4. k \in Jobs(env.markers)
    BY <1>1, <2>2, <2>3 DEF Jobs
  <2>5. k.at = job[p].at /\ k.child = "exited" /\ k.result = job[p].result
    BY <1>1, <2>3 DEF Jobs
  <2> QED BY <1>2, <1>3, <1>4, <1>6, <2>1, <2>3, <2>4, <2>5 DEF ExitChild
<1>7. CASE TimeOut(p)
  <2>1. PICK j \in {job[p], [job[p] EXCEPT !.child = "exited", !.code = TERM]} : Sets(p, [j EXCEPT !.timedOut = TRUE])
    BY <1>7 DEF TimeOut
  <2>2. j \in Jobs(env.markers) /\ j.at = job[p].at /\ j.child \in {job[p].child, "exited"} /\ j.result = job[p].result
    <3>1. CASE j = job[p]
      BY <1>1, <3>1
    <3>2. CASE j = [job[p] EXCEPT !.child = "exited", !.code = TERM]
      <4>1. j \in Jobs(env.markers)
        BY <1>1, <3>2 DEF Jobs
      <4> QED BY <1>1, <3>2, <4>1 DEF Jobs
    <3> QED BY <3>1, <3>2
  <2>3. PICK k : k = [j EXCEPT !.timedOut = TRUE]
    OBVIOUS
  <2>4. k \in Jobs(env.markers)
    BY <2>2, <2>3 DEF Jobs
  <2>5. k.at = j.at /\ k.child = j.child /\ k.result = j.result
    BY <2>2, <2>3 DEF Jobs
  <2>6. k.at = "running" /\ k.child \in {"alive", "exited"} /\ k.result = job[p].result
    BY <1>1, <1>7, <2>2, <2>5 DEF TimeOut, JobSound
  <2> QED BY <1>2, <1>4, <1>7, <2>1, <2>3, <2>4, <2>6 DEF TimeOut
<1>8. CASE KillChild(p)
  <2>1. PICK code : code = IF job[p].child = "alive" THEN KILL ELSE job[p].code
    OBVIOUS
  <2>2. code \in {0, 1, TERM, KILL}
    BY <1>1, <2>1 DEF Jobs
  <2>3. PICK k : k = [job[p] EXCEPT !.killed = TRUE, !.child = "exited", !.code = code]
    OBVIOUS
  <2>4. Sets(p, k)
    BY <1>1, <1>8, <2>1, <2>3 DEF KillChild, Jobs
  <2>5. k \in Jobs(env.markers)
    BY <1>1, <2>2, <2>3 DEF Jobs
  <2>6. k.at = job[p].at /\ k.child = "exited" /\ k.result = job[p].result
    BY <1>1, <2>3 DEF Jobs
  <2> QED BY <1>2, <1>4, <1>8, <2>4, <2>5, <2>6 DEF KillChild
<1> QED BY <1>5, <1>6, <1>7, <1>8

LEMMA LateJob ==
    ASSUME JobsInv, UNCHANGED env, NEW p \in Process, CloseChild(p) \/ Flush(p) \/ LeaveJob(p)
    PROVE  JobsInv'
<1>1. job[p] \in Jobs(env.markers) /\ JobSound(job[p])
  BY JobTyped
<1>2. CASE CloseChild(p)
  <2> DEFINE j == job[p]
  <2>0. PICK ended : ended = Ended
    OBVIOUS
  <2>1. PICK r : r = [ended EXCEPT !.exit = ExitCode(j), !.timedOut = j.timedOut, !.killed = j.killed, !.kept = j.kept,
                                   !.text = j.text]
    OBVIOUS
  <2>2. ExitCode(j) \in {0, 1, 124, 137}
    BY <1>1 DEF Jobs, ExitCode, TERM, KILL
  <2>3. r \in EndResult(env.markers) /\ r.exit = ExitCode(j) /\ r.timedOut = j.timedOut /\ ~r.refused
    <3>1. ended \in EndResult(env.markers) /\ ~ended.refused
      BY <2>0 DEF Ended, EndResult
    <3>2. r \in EndResult(env.markers)
      BY <1>1, <2>1, <2>2, <3>1 DEF Jobs, EndResult
    <3> QED BY <1>1, <2>1, <3>1, <3>2 DEF EndResult
  <2>4. PICK k : k = [j EXCEPT !.at = "flush", !.child = "closed", !.result = r]
    OBVIOUS
  <2>5. Sets(p, k)
    BY <1>2, <2>0, <2>1, <2>4 DEF CloseChild
  <2>6. k \in Jobs(env.markers)
    BY <1>1, <2>3, <2>4 DEF Jobs
  <2>7. k.at = "flush" /\ k.child = "closed" /\ k.result = r /\ k.timedOut = j.timedOut /\ k.code = j.code
    BY <1>1, <2>4 DEF Jobs
  <2>8. r.exit = ExitCode(k) /\ r.timedOut = k.timedOut /\ ~r.refused
    BY <2>3, <2>7 DEF ExitCode
  <2>9. JobSound(k) /\ Holds(j)
    BY <1>2, <2>7, <2>8 DEF JobSound, ResultSound, Holds, CloseChild
  <2>10. UNCHANGED executing
    BY <1>2 DEF CloseChild
  <2> QED BY <2>5, <2>6, <2>9, <2>10, JobMoves
<1>3. CASE Flush(p)
  <2>1. PICK k : k = [job[p] EXCEPT !.at = "done"]
    OBVIOUS
  <2>2. k \in Jobs(env.markers)
    BY <1>1, <2>1 DEF Jobs
  <2>3. /\ k.at = "done" /\ k.child = job[p].child /\ k.result = job[p].result /\ k.timedOut = job[p].timedOut
        /\ k.code = job[p].code
    BY <1>1, <2>1 DEF Jobs
  <2>4. JobSound(k) /\ Holds(job[p])
    BY <1>1, <1>3, <2>3 DEF JobSound, ResultSound, Holds, Flush, ExitCode
  <2> QED BY <1>3, <2>1, <2>2, <2>4, JobMoves DEF Flush
<1>4. CASE LeaveJob(p)
  <2>1. PICK r : r = NormalizedResult(job[p].result)
    OBVIOUS
  <2>2. r \in [success : BOOLEAN, status : {"none", "completed", "timeout", "killed", "failed"}, recoverable : BOOLEAN]
    <3>1. RecoverableCategory(Category(job[p].result)) \in BOOLEAN
      BY DEF RecoverableCategory
    <3>2. ReturnedStatus(job[p].result) \in {"completed", "timeout", "killed", "failed"}
      BY DEF ReturnedStatus
    <3> QED BY <2>1, <3>1, <3>2 DEF NormalizedResult
  <2>3. PICK k : k = [job[p] EXCEPT !.at = "over", !.returned = r]
    OBVIOUS
  <2>4. k \in Jobs(env.markers)
    BY <1>1, <2>2, <2>3 DEF Jobs
  <2>5. /\ k.at = "over" /\ k.child = job[p].child /\ k.result = job[p].result /\ k.timedOut = job[p].timedOut
        /\ k.code = job[p].code /\ k.returned = r
    BY <1>1, <2>3 DEF Jobs
  <2>6. JobSound(k) /\ ~Holds(k)
    BY <1>1, <1>4, <2>1, <2>5 DEF JobSound, ResultSound, Holds, LeaveJob, ExitCode
  <2>7. Sets(p, k) /\ executing' = (executing /\ job[p].result.refused) /\ job[p].at = "done"
    BY <1>4, <2>1, <2>3 DEF LeaveJob
  <2>8. CASE job[p].result.refused
    BY <2>4, <2>6, <2>7, <2>8, JobMoves DEF JobsInv
  <2>9. CASE ~job[p].result.refused
    \* It held the flag, so nobody else does.
    <3>1. job' = [job EXCEPT ![p] = k] /\ job \in [Process -> Jobs(env.markers)] /\ env \in Environment
      BY <2>7 DEF Sets, JobsInv
    <3>2. job'[p] = k /\ \A q \in Process : q # p => job'[q] = job[q]
      BY <3>1
    <3>3. job' \in [Process -> Jobs(env.markers')]
      <4>1. env' = env
        OBVIOUS
      <4> QED BY <2>4, <3>1, <4>1
    <3>4. \A q \in Process : JobSound(job'[q])
      BY <2>6, <3>2 DEF JobsInv
    <3>5. executing' = FALSE
      BY <2>7, <2>9
    <3>6. Holds(job[p])
      BY <2>7, <2>9 DEF Holds
    <3>7. env.cli => \A q \in Process : ~Holds(job'[q])
      BY <2>6, <3>2, <3>6 DEF JobsInv
    <3> QED BY <3>1, <3>3, <3>4, <3>5, <3>7 DEF JobsInv
  <2> QED BY <2>8, <2>9
<1> QED BY <1>2, <1>3, <1>4

LEMMA JobsStep == JobsInv /\ [Next]_vars => JobsInv'
<1> SUFFICES ASSUME JobsInv, [Next]_vars PROVE JobsInv'
  OBVIOUS
<1>1. ASSUME UNCHANGED <<env, job, executing>> PROVE JobsInv'
  BY <1>1 DEF JobsInv
<1>2. CASE UNCHANGED vars
  BY <1>1, <1>2 DEF vars, runnerVars
<1>3. CASE Next
  <2>1. UNCHANGED env
    BY <1>3 DEF Next
  <2>2. CASE UNCHANGED runnerVars
    BY <1>1, <2>1, <2>2 DEF runnerVars
  <2>3. ASSUME NEW p \in Process, BeginJob(p) \/ Resolve(p) \/ SpawnChild(p) PROVE JobsInv'
    BY <2>1, <2>3, EarlyJob
  <2>4. ASSUME NEW p \in Process, ReadChunk(p) \/ ExitChild(p) \/ TimeOut(p) \/ KillChild(p) PROVE JobsInv'
    BY <2>1, <2>4, RunningJob
  <2>5. ASSUME NEW p \in Process, CloseChild(p) \/ Flush(p) \/ LeaveJob(p) PROVE JobsInv'
    BY <2>1, <2>5, LateJob
  <2>6. ASSUME NEW p \in Process, WriteChunk(p) \/ Rotate(p) \/ LogError(p) PROVE JobsInv'
    BY <1>1, <2>1, <2>6 DEF WriteChunk, Rotate, LogError
  <2> QED BY <1>3, <2>2, <2>3, <2>4, <2>5, <2>6 DEF Next, RunnerNext
<1> QED BY <1>2, <1>3

LEMMA JobsFollow == JobsInv => JobsTrue
<1> SUFFICES ASSUME JobsInv PROVE JobsTrue
  OBVIOUS
<1>1. ASSUME NEW p \in Process, NEW j, j = job[p], j.at = "over"
      PROVE  /\ j.returned.success => j.child = "closed" /\ j.code = 0 /\ ~j.timedOut
             /\ j.timedOut => j.returned.status = "timeout" /\ j.returned.recoverable
             /\ j.result.refused => j.child = "none" /\ ~j.returned.recoverable
  <2>1. j \in Jobs(env.markers) /\ ResultSound(j) /\ j.returned = NormalizedResult(j.result)
    BY <1>1, JobTyped DEF JobSound
  <2>2. j.returned.success = (j.result.exit = 0) /\ j.returned.status = ReturnedStatus(j.result)
        /\ j.returned.recoverable = RecoverableCategory(Category(j.result))
    BY <2>1 DEF NormalizedResult
  <2>3. j.code \in {0, 1, TERM, KILL} /\ j.timedOut \in BOOLEAN
    BY <2>1 DEF Jobs
  <2>4. j.returned.success => j.child = "closed" /\ j.code = 0 /\ ~j.timedOut
    <3>1. ASSUME j.result.exit = 0 PROVE j.child = "closed" /\ j.code = 0 /\ ~j.timedOut
      <4>1. j.child = "closed" /\ ExitCode(j) = 0
        BY <2>1, <3>1 DEF ResultSound
      <4> QED BY <2>3, <4>1 DEF ExitCode, TERM, KILL
    <3> QED BY <2>2, <3>1
  <2>5. j.timedOut => j.returned.status = "timeout" /\ j.returned.recoverable
    <3>1. ASSUME j.timedOut PROVE j.returned.status = "timeout" /\ j.returned.recoverable
      <4>1. j.result.exit = 124 /\ j.result.timedOut = j.timedOut
        BY <2>1, <3>1 DEF ResultSound, ExitCode
      <4>2. ReturnedStatus(j.result) = "timeout" /\ Category(j.result) = "timeout"
        BY <3>1, <4>1 DEF ReturnedStatus, Category
      <4> QED BY <2>2, <4>2 DEF RecoverableCategory
    <3> QED BY <3>1
  <2>6. j.result.refused => j.child = "none" /\ ~j.returned.recoverable
    <3>1. ASSUME j.result.refused PROVE j.child = "none" /\ ~j.returned.recoverable
      <4>1. j.child = "none" /\ j.result.exit = 1 /\ ~j.result.timedOut /\ ~j.result.killed /\ j.result.text = {}
        BY <2>1, <3>1 DEF ResultSound
      <4>2. Category(j.result) = "unknown"
        BY <4>1 DEF Category, FirstOf
      <4> QED BY <2>2, <4>1, <4>2 DEF RecoverableCategory
    <3> QED BY <3>1
  <2> QED BY <2>4, <2>5, <2>6
<1>2. ASSUME env.cli, NEW busy, busy = {p \in Process : job[p].at \in {"resolve", "spawn", "running", "flush"}}
      PROVE  (busy # {} => executing) /\ \A p, q \in busy : p = q
  <2>1. \A p \in busy : Holds(job[p]) /\ p \in Process
    BY <1>2 DEF Holds
  <2> QED BY <1>2, <2>1 DEF JobsInv
<1> QED BY <1>1, <1>2 DEF JobsTrue
-----------------------------------------------------------------------------
\* What is in a sequence of chunks, and in which order, as the ends of it come and go.

LEMMA BeforeIs ==
    ASSUME NEW some \in Seq(Nat), NEW others \in Seq(Nat)
    PROVE  Before(some, others) <=> \A x, y \in Nat : In(some, x) /\ In(others, y) => x < y
<1>1. ASSUME Before(some, others), NEW x \in Nat, NEW y \in Nat, In(some, x), In(others, y) PROVE x < y
  BY <1>1 DEF Before, In
<1>2. ASSUME \A x, y \in Nat : In(some, x) /\ In(others, y) => x < y, NEW i \in DOMAIN some, NEW k \in DOMAIN others
      PROVE  some[i] < others[k]
  <2>1. In(some, some[i]) /\ In(others, others[k])
    BY DEF In
  <2>2. some[i] \in Nat /\ others[k] \in Nat
    OBVIOUS
  <2> QED BY <1>2, <2>1, <2>2
<1> QED BY <1>1, <1>2 DEF Before

LEMMA OrderIs ==
    ASSUME NEW some, NEW n, DOMAIN some = 1..n
    PROVE  InOrder(some) <=> \A i, k \in 1..n : i < k => some[i] < some[k]
BY DEF InOrder

LEMMA Appended ==
    ASSUME NEW some \in Seq(Nat), NEW n \in Nat
    PROVE  /\ Append(some, n) \in Seq(Nat) /\ Append(some, n) # <<>>
           /\ \A x \in Nat : In(Append(some, n), x) <=> In(some, x) \/ x = n
           /\ InOrder(some) /\ (\A x \in Nat : In(some, x) => x < n) => InOrder(Append(some, n))
<1>1. PICK more : more = Append(some, n)
  OBVIOUS
<1>2. more \in Seq(Nat) /\ Len(more) = Len(some) + 1 /\ Len(some) \in Nat /\ more[Len(some) + 1] = n
      /\ (\A i \in 1..Len(some) : more[i] = some[i]) /\ DOMAIN more = 1..(Len(some) + 1) /\ DOMAIN some = 1..Len(some)
  BY <1>1
<1>3. more # <<>>
  BY <1>2
<1>4. \A x \in Nat : In(more, x) <=> In(some, x) \/ x = n
  <2>1. ASSUME NEW x \in Nat, In(more, x) PROVE In(some, x) \/ x = n
    BY <1>2, <2>1 DEF In
  <2>2. ASSUME NEW x \in Nat, In(some, x) PROVE In(more, x)
    <3>1. PICK i \in 1..Len(some) : some[i] = x
      BY <1>2, <2>2 DEF In
    <3>2. i \in 1..(Len(some) + 1) /\ more[i] = x
      BY <1>2, <3>1
    <3> QED BY <1>2, <3>2 DEF In
  <2>3. In(more, n)
    BY <1>2 DEF In
  <2> QED BY <2>1, <2>2, <2>3
<1>5. ASSUME InOrder(some), \A x \in Nat : In(some, x) => x < n PROVE InOrder(more)
  <2>1. \A i \in 1..Len(some) : some[i] \in Nat /\ some[i] < n
    BY <1>2, <1>5 DEF In
  <2>2. \A i, k \in 1..Len(some) : i < k => some[i] < some[k]
    BY <1>2, <1>5, OrderIs
  <2>3. \A i, k \in 1..(Len(some) + 1) : i < k => more[i] < more[k]
    <3> SUFFICES ASSUME NEW i \in 1..(Len(some) + 1), NEW k \in 1..(Len(some) + 1), i < k PROVE more[i] < more[k]
      OBVIOUS
    <3>1. i \in 1..Len(some) /\ more[i] = some[i]
      BY <1>2
    <3>2. CASE k = Len(some) + 1
      BY <1>2, <2>1, <3>1, <3>2
    <3>3. CASE k # Len(some) + 1
      <4>0. Len(some) \in Nat
        OBVIOUS
      <4>1. k \in 1..Len(some)
        BY <3>3, <4>0
      <4>2. more[k] = some[k]
        BY <1>2, <4>1
      <4> QED BY <2>2, <3>1, <4>1, <4>2
    <3> QED BY <3>2, <3>3
  <2> QED BY <1>2, <2>3, OrderIs
<1> QED BY <1>1, <1>2, <1>3, <1>4, <1>5

LEMMA HeadTaken ==
    ASSUME NEW some \in Seq(Nat), some # <<>>, InOrder(some)
    PROVE  /\ Head(some) \in Nat /\ In(some, Head(some)) /\ Tail(some) \in Seq(Nat) /\ InOrder(Tail(some))
           /\ \A x \in Nat : In(Tail(some), x) <=> In(some, x) /\ x # Head(some)
           /\ \A x \in Nat : In(Tail(some), x) => Head(some) < x
<1>1. PICK rest : rest = Tail(some)
  OBVIOUS
<1>2. /\ rest \in Seq(Nat) /\ Len(rest) = Len(some) - 1 /\ Len(some) \in Nat \ {0} /\ Head(some) = some[1]
      /\ \A i \in 1..(Len(some) - 1) : rest[i] = some[i + 1]
      /\ DOMAIN rest = 1..(Len(some) - 1) /\ DOMAIN some = 1..Len(some)
  BY <1>1
<1>3. \A i \in 1..Len(some) : some[i] \in Nat
  OBVIOUS
<1>0. \A i, k \in 1..Len(some) : i < k => some[i] < some[k]
  BY <1>2, OrderIs
<1>4. \A i \in 2..Len(some) : some[1] < some[i]
  BY <1>0, <1>2
<1>5. InOrder(rest)
  <2>1. \A i, k \in 1..(Len(some) - 1) : i < k => rest[i] < rest[k]
    <3> SUFFICES ASSUME NEW i \in 1..(Len(some) - 1), NEW k \in 1..(Len(some) - 1), i < k PROVE rest[i] < rest[k]
      OBVIOUS
    <3>1. i + 1 \in 1..Len(some) /\ k + 1 \in 1..Len(some) /\ rest[i] = some[i + 1] /\ rest[k] = some[k + 1] /\ i + 1 < k + 1
      BY <1>2
    <3> QED BY <1>0, <3>1
  <2> QED BY <1>2, <2>1, OrderIs
<1>6. ASSUME NEW x \in Nat, In(rest, x) PROVE In(some, x) /\ some[1] < x
  <2>1. PICK i \in 1..(Len(some) - 1) : rest[i] = x
    BY <1>2, <1>6 DEF In
  <2>2. i + 1 \in 2..Len(some) /\ i + 1 \in 1..Len(some) /\ some[i + 1] = x
    BY <1>2, <2>1
  <2> QED BY <1>2, <1>4, <2>2 DEF In
<1>7. ASSUME NEW x \in Nat, In(some, x), x # some[1] PROVE In(rest, x)
  <2>1. PICK i \in 1..Len(some) : some[i] = x
    BY <1>2, <1>7 DEF In
  <2>2. i - 1 \in 1..(Len(some) - 1) /\ rest[i - 1] = x
    BY <1>2, <1>7, <2>1
  <2> QED BY <1>2, <2>2 DEF In
<1>8. In(some, some[1]) /\ some[1] \in Nat
  BY <1>2, <1>3 DEF In
<1> QED BY <1>1, <1>2, <1>5, <1>6, <1>7, <1>8

LEMMA LastTaken ==
    ASSUME NEW some \in Seq(Nat), some # <<>>, InOrder(some)
    PROVE  /\ Seqs!Last(some) \in Nat /\ In(some, Seqs!Last(some)) /\ Seqs!Front(some) \in Seq(Nat) /\ InOrder(Seqs!Front(some))
           /\ \A x \in Nat : In(Seqs!Front(some), x) <=> In(some, x) /\ x # Seqs!Last(some)
<1>1. PICK rest : rest = SubSeq(some, 1, Len(some) - 1)
  OBVIOUS
<1>0. Len(some) \in Nat \ {0} /\ DOMAIN some = 1..Len(some)
  OBVIOUS
<1>2. /\ rest \in Seq(Nat) /\ Len(rest) = Len(some) - 1 /\ Len(some) \in Nat \ {0}
      /\ \A i \in 1..(Len(some) - 1) : rest[i] = some[i]
      /\ DOMAIN rest = 1..(Len(some) - 1) /\ DOMAIN some = 1..Len(some)
  <2>1. Len(some) - 1 \in 0..Len(some)
    BY <1>0
  <2>2. \A i \in 1..(Len(some) - 1) : 1 <= i /\ i <= Len(some) /\ some[i] \in Nat
    BY <1>0
  <2>3. rest \in Seq(Nat) /\ Len(rest) = Len(some) - 1
    BY <1>0, <1>1, <2>1, <2>2
  <2>4. \A i \in 1..(Len(some) - 1) : rest[i] = some[i]
    BY <1>0, <1>1, <2>1, <2>3
  <2> QED BY <1>0, <2>3, <2>4
<1>3. \A i \in 1..Len(some) : some[i] \in Nat
  OBVIOUS
<1>4. PICK m : m = Len(some)
  OBVIOUS
<1>11. \A i, k \in 1..m : i < k => some[i] < some[k]
  BY <1>2, <1>4, OrderIs
<1>5. \A i \in 1..(m - 1) : some[i] < some[m]
  BY <1>2, <1>4, <1>11
<1>6. InOrder(rest)
  <2>1. \A i, k \in 1..(m - 1) : i < k => rest[i] < rest[k]
    <3> SUFFICES ASSUME NEW i \in 1..(m - 1), NEW k \in 1..(m - 1), i < k PROVE rest[i] < rest[k]
      OBVIOUS
    <3>1. i \in 1..m /\ k \in 1..m /\ rest[i] = some[i] /\ rest[k] = some[k]
      BY <1>2, <1>4
    <3> QED BY <1>11, <3>1
  <2> QED BY <1>2, <1>4, <2>1, OrderIs
<1>7. ASSUME NEW x \in Nat, In(rest, x) PROVE In(some, x) /\ x < some[m]
  <2>1. PICK i \in 1..(m - 1) : rest[i] = x
    BY <1>2, <1>4, <1>7 DEF In
  <2>2. i \in 1..m /\ some[i] = x
    BY <1>2, <1>4, <2>1
  <2> QED BY <1>2, <1>4, <1>5, <2>1, <2>2 DEF In
<1>8. ASSUME NEW x \in Nat, In(some, x), x # some[m] PROVE In(rest, x)
  <2>1. PICK i \in 1..m : some[i] = x
    BY <1>2, <1>4, <1>8 DEF In
  <2>2. i \in 1..(m - 1) /\ rest[i] = x
    BY <1>2, <1>4, <1>8, <2>1
  <2> QED BY <1>2, <1>4, <2>2 DEF In
<1>9. In(some, some[m]) /\ some[m] \in Nat
  BY <1>2, <1>3, <1>4 DEF In
<1>10. Seqs!Last(some) = some[m] /\ Seqs!Front(some) = rest
  BY <1>1, <1>4 DEF Seqs!Last, Seqs!Front
<1> QED BY <1>2, <1>6, <1>7, <1>8, <1>9, <1>10

LEMMA Joined ==
    ASSUME NEW some \in Seq(Nat), NEW others \in Seq(Nat)
    PROVE  /\ some \o others \in Seq(Nat)
           /\ \A x \in Nat : In(some \o others, x) <=> In(some, x) \/ In(others, x)
           /\ InOrder(some) /\ InOrder(others) /\ Before(some, others) => InOrder(some \o others)
<1>1. PICK both : both = some \o others
  OBVIOUS
<1>2. PICK m, n : m = Len(some) /\ n = Len(others)
  OBVIOUS
<1>3. /\ both \in Seq(Nat) /\ m \in Nat /\ n \in Nat /\ DOMAIN some = 1..m /\ DOMAIN others = 1..n /\ DOMAIN both = 1..(m + n)
      /\ \A i \in 1..m : both[i] = some[i]
      /\ \A i \in 1..n : both[m + i] = others[i]
  BY <1>1, <1>2
<1>4. ASSUME NEW x \in Nat, In(both, x) PROVE In(some, x) \/ In(others, x)
  <2>1. PICK i \in 1..(m + n) : both[i] = x
    BY <1>3, <1>4 DEF In
  <2>2. CASE i \in 1..m
    BY <1>3, <2>1, <2>2 DEF In
  <2>3. CASE i \notin 1..m
    <3>1. i - m \in 1..n /\ m + (i - m) = i
      BY <1>3, <2>3
    <3>2. others[i - m] = x
      BY <1>3, <2>1, <3>1
    <3> QED BY <1>3, <3>1, <3>2 DEF In
  <2> QED BY <2>2, <2>3
<1>5. ASSUME NEW x \in Nat, In(some, x) \/ In(others, x) PROVE In(both, x)
  <2>1. CASE In(some, x)
    <3>1. PICK i \in 1..m : some[i] = x
      BY <1>3, <2>1 DEF In
    <3>2. i \in 1..(m + n) /\ both[i] = x
      BY <1>3, <3>1
    <3> QED BY <1>3, <3>2 DEF In
  <2>2. CASE In(others, x)
    <3>1. PICK i \in 1..n : others[i] = x
      BY <1>3, <2>2 DEF In
    <3>2. m + i \in 1..(m + n) /\ both[m + i] = x
      BY <1>3, <3>1
    <3> QED BY <1>3, <3>2 DEF In
  <2> QED BY <1>5, <2>1, <2>2
<1>6. ASSUME InOrder(some), InOrder(others), Before(some, others) PROVE InOrder(both)
  <2> SUFFICES ASSUME NEW i \in 1..(m + n), NEW k \in 1..(m + n), i < k PROVE both[i] < both[k]
    <3>1. m + n \in Nat
      BY <1>3
    <3> QED BY <1>3, <3>1, OrderIs
  <2>0. \A a, b \in 1..m : a < b => some[a] < some[b]
    BY <1>3, <1>6, OrderIs
  <2>1. CASE k \in 1..m
    <3>1. i \in 1..m
      BY <1>3, <2>1
    <3> QED BY <1>3, <2>0, <2>1, <3>1
  <2>2. CASE i \notin 1..m
    <3>1. i - m \in 1..n /\ k - m \in 1..n /\ i - m < k - m /\ m + (i - m) = i /\ m + (k - m) = k
      BY <1>3, <2>2
    <3>2. others[i - m] < others[k - m]
      BY <1>3, <1>6, <3>1 DEF InOrder
    <3> QED BY <1>3, <3>1, <3>2
  <2>3. CASE i \in 1..m /\ k \notin 1..m
    <3>1. k - m \in 1..n /\ m + (k - m) = k
      BY <1>3, <2>3
    <3>2. some[i] < others[k - m]
      BY <1>3, <1>6, <2>3, <3>1 DEF Before
    <3> QED BY <1>3, <2>3, <3>1, <3>2
  <2> QED BY <2>1, <2>2, <2>3
<1> QED BY <1>1, <1>3, <1>4, <1>5, <1>6
-----------------------------------------------------------------------------
TaskLogs ==
    [stream : {"none", "open", "rotating", "off"}, queue : Seq(Nat), size : Nat, file : Seq(Nat),
     rotated : Seq(Seq(Nat)), missed : SUBSET Nat, evicted : Seq(Nat)]

\* The log of a child that has printed n chunks; broken, if the stream may fail.
TaskLogSound(l, n, keep, broken) ==
    /\ l \in TaskLogs
    /\ LogOrdered(l)
    /\ \A x \in Nat : InLog(l, x) <=> x \in 1..n /\ x \notin l.missed
    /\ l.missed \subseteq 1..n
    /\ l.missed # {} => l.rotated # <<>> \/ l.stream = "rotating" \/ broken
    /\ Len(l.rotated) <= keep
    /\ l.stream = "rotating" => l.queue # <<>>
    /\ l.stream = "off" => broken

\* The order of the parts, by what is in them.
LEMMA LogOrderIs ==
    ASSUME NEW l \in TaskLogs
    PROVE  LogOrdered(l) <=>
            /\ InOrder(l.evicted) /\ InOrder(l.file) /\ InOrder(l.queue)
            /\ \A x, y \in Nat : In(l.evicted, x) /\ (In(l.file, y) \/ In(l.queue, y)) => x < y
            /\ \A x, y \in Nat : In(l.file, x) /\ In(l.queue, y) => x < y
            /\ \A i \in 1..Len(l.rotated) :
                /\ InOrder(l.rotated[i])
                /\ \A x, y \in Nat : In(l.rotated[i], x) /\ (In(l.file, y) \/ In(l.queue, y)) => x < y
                /\ \A x, y \in Nat : In(l.evicted, x) /\ In(l.rotated[i], y) => x < y
                /\ \A k \in 1..(i - 1) : \A x, y \in Nat : In(l.rotated[i], x) /\ In(l.rotated[k], y) => x < y
<1>1. /\ l.evicted \in Seq(Nat) /\ l.file \in Seq(Nat) /\ l.queue \in Seq(Nat) /\ l.rotated \in Seq(Seq(Nat))
      /\ Len(l.rotated) \in Nat /\ DOMAIN l.rotated = 1..Len(l.rotated)
  BY DEF TaskLogs
<1>2. \A i \in 1..Len(l.rotated) : l.rotated[i] \in Seq(Nat) /\ \A k \in 1..(i - 1) : k \in 1..Len(l.rotated)
  BY <1>1
<1>3. /\ Before(l.evicted, l.file) <=> \A x, y \in Nat : In(l.evicted, x) /\ In(l.file, y) => x < y
      /\ Before(l.evicted, l.queue) <=> \A x, y \in Nat : In(l.evicted, x) /\ In(l.queue, y) => x < y
      /\ Before(l.file, l.queue) <=> \A x, y \in Nat : In(l.file, x) /\ In(l.queue, y) => x < y
  BY <1>1, BeforeIs
<1>4. ASSUME NEW i \in 1..Len(l.rotated)
      PROVE  /\ Before(l.evicted, l.rotated[i]) <=> \A x, y \in Nat : In(l.evicted, x) /\ In(l.rotated[i], y) => x < y
             /\ Before(l.rotated[i], l.file) <=> \A x, y \in Nat : In(l.rotated[i], x) /\ In(l.file, y) => x < y
             /\ Before(l.rotated[i], l.queue) <=> \A x, y \in Nat : In(l.rotated[i], x) /\ In(l.queue, y) => x < y
             /\ \A k \in 1..(i - 1) :
                    Before(l.rotated[i], l.rotated[k]) <=> \A x, y \in Nat : In(l.rotated[i], x) /\ In(l.rotated[k], y) => x < y
  BY <1>1, <1>2, BeforeIs
<1>5. ASSUME LogOrdered(l)
      PROVE  /\ InOrder(l.evicted) /\ InOrder(l.file) /\ InOrder(l.queue)
             /\ \A x, y \in Nat : In(l.evicted, x) /\ (In(l.file, y) \/ In(l.queue, y)) => x < y
             /\ \A x, y \in Nat : In(l.file, x) /\ In(l.queue, y) => x < y
             /\ \A i \in 1..Len(l.rotated) :
                /\ InOrder(l.rotated[i])
                /\ \A x, y \in Nat : In(l.rotated[i], x) /\ (In(l.file, y) \/ In(l.queue, y)) => x < y
                /\ \A x, y \in Nat : In(l.evicted, x) /\ In(l.rotated[i], y) => x < y
                /\ \A k \in 1..(i - 1) : \A x, y \in Nat : In(l.rotated[i], x) /\ In(l.rotated[k], y) => x < y
  <2>1. \A i \in 1..Len(l.rotated) :
            /\ InOrder(l.rotated[i])
            /\ Before(l.evicted, l.rotated[i]) /\ Before(l.rotated[i], l.file) /\ Before(l.rotated[i], l.queue)
            /\ \A k \in 1..(i - 1) : Before(l.rotated[i], l.rotated[k])
    BY <1>1, <1>5 DEF LogOrdered
  <2>2. /\ InOrder(l.evicted) /\ InOrder(l.file) /\ InOrder(l.queue)
        /\ Before(l.evicted, l.file) /\ Before(l.evicted, l.queue) /\ Before(l.file, l.queue)
    BY <1>5 DEF LogOrdered
  <2> QED BY <1>3, <1>4, <2>1, <2>2
<1>6. ASSUME InOrder(l.evicted) /\ InOrder(l.file) /\ InOrder(l.queue),
             \A x, y \in Nat : In(l.evicted, x) /\ (In(l.file, y) \/ In(l.queue, y)) => x < y,
             \A x, y \in Nat : In(l.file, x) /\ In(l.queue, y) => x < y,
             \A i \in 1..Len(l.rotated) :
                /\ InOrder(l.rotated[i])
                /\ \A x, y \in Nat : In(l.rotated[i], x) /\ (In(l.file, y) \/ In(l.queue, y)) => x < y
                /\ \A x, y \in Nat : In(l.evicted, x) /\ In(l.rotated[i], y) => x < y
                /\ \A k \in 1..(i - 1) : \A x, y \in Nat : In(l.rotated[i], x) /\ In(l.rotated[k], y) => x < y
      PROVE  LogOrdered(l)
  <2>1. Before(l.evicted, l.file) /\ Before(l.evicted, l.queue) /\ Before(l.file, l.queue)
    BY <1>3, <1>6
  <2>2. ASSUME NEW i \in 1..Len(l.rotated)
        PROVE  /\ InOrder(l.rotated[i])
               /\ Before(l.evicted, l.rotated[i]) /\ Before(l.rotated[i], l.file) /\ Before(l.rotated[i], l.queue)
               /\ \A k \in 1..(i - 1) : Before(l.rotated[i], l.rotated[k])
    BY <1>4, <1>6
  <2> QED BY <1>1, <1>6, <2>1, <2>2 DEF LogOrdered
<1> QED BY <1>5, <1>6

LEMMA InLogIs ==
    ASSUME NEW l \in TaskLogs, NEW x
    PROVE  InLog(l, x) <=> In(l.evicted, x) \/ In(l.file, x) \/ In(l.queue, x) \/ \E i \in 1..Len(l.rotated) : In(l.rotated[i], x)
<1>1. DOMAIN l.rotated = 1..Len(l.rotated)
  BY DEF TaskLogs
<1> QED BY <1>1 DEF InLog

LEMMA NothingLogged ==
    ASSUME NEW keep \in Nat, NEW broken, NEW l, l = NoLog
    PROVE  TaskLogSound(l, 0, keep, broken)
<1>2. /\ l \in TaskLogs /\ l.evicted = <<>> /\ l.file = <<>> /\ l.queue = <<>> /\ l.rotated = <<>> /\ l.missed = {}
      /\ l.stream = "none"
  BY DEF NoLog, TaskLogs
<1>3. \A x : ~In(<<>>, x)
  BY DEF In
<1>4. InOrder(<<>>) /\ Len(<<>>) = 0 /\ 1..0 = {}
  BY DEF InOrder
<1>5. LogOrdered(l)
  BY <1>2, <1>3, <1>4, LogOrderIs
<1>6. \A x \in Nat : ~InLog(l, x)
  BY <1>2, <1>3, <1>4, InLogIs
<1>7. \A x \in Nat : InLog(l, x) <=> x \in 1..0 /\ x \notin l.missed
  BY <1>4, <1>6
<1>8. Len(l.rotated) <= keep /\ l.missed \subseteq 1..0 /\ l.stream # "rotating" /\ l.stream # "off"
  BY <1>2, <1>4
<1> QED BY <1>2, <1>5, <1>7, <1>8 DEF TaskLogSound

\* Only the stream and the size change.
LEMMA StreamChanges ==
    ASSUME NEW l, NEW n \in Nat, NEW keep \in Nat, NEW broken, TaskLogSound(l, n, keep, broken),
           NEW k, k \in TaskLogs, k.evicted = l.evicted, k.file = l.file, k.queue = l.queue, k.rotated = l.rotated,
           k.missed = l.missed, k.stream = "rotating" => k.queue # <<>>, k.stream = "off" => broken,
           k.stream = "rotating" \/ l.stream # "rotating"
    PROVE  TaskLogSound(k, n, keep, broken)
<1>1. LogOrdered(k)
  BY DEF TaskLogSound, LogOrdered
<1>2. \A x \in Nat : InLog(k, x) <=> InLog(l, x)
  BY DEF InLog
<1> QED BY <1>1, <1>2 DEF TaskLogSound

LEMMA ChunkArrives ==
    ASSUME NEW l, NEW n \in Nat, NEW keep \in Nat, NEW broken, TaskLogSound(l, n, keep, broken), l.stream # "none"
    PROVE  TaskLogSound(Enqueued(l, n + 1), n + 1, keep, broken) /\ Enqueued(l, n + 1).stream = l.stream
<1>1. l \in TaskLogs /\ n + 1 \in Nat
  BY DEF TaskLogSound
<1>2. /\ l.evicted \in Seq(Nat) /\ l.file \in Seq(Nat) /\ l.queue \in Seq(Nat) /\ Len(l.rotated) \in Nat
      /\ l.stream \in {"none", "open", "rotating", "off"} /\ l.missed \in SUBSET Nat
      /\ \A i \in 1..Len(l.rotated) : l.rotated[i] \in Seq(Nat)
  BY <1>1 DEF TaskLogs
<1>3. \A x \in Nat : InLog(l, x) => x \in 1..n
  BY DEF TaskLogSound
<1>4. \A x \in Nat : x \in 1..n => x < n + 1
  OBVIOUS
<1>5. CASE l.stream = "open"
  <2>1. PICK k : k = [l EXCEPT !.queue = Append(@, n + 1)]
    OBVIOUS
  <2>2. k = Enqueued(l, n + 1)
    BY <1>5, <2>1 DEF Enqueued
  <2>3. Append(l.queue, n + 1) \in Seq(Nat)
    BY <1>1, <1>2, Appended
  <2>4. k \in TaskLogs
    BY <1>1, <2>1, <2>3 DEF TaskLogs
  <2>5. /\ k.queue = Append(l.queue, n + 1) /\ k.evicted = l.evicted /\ k.file = l.file /\ k.rotated = l.rotated
        /\ k.missed = l.missed /\ k.stream = l.stream
    BY <1>1, <2>1 DEF TaskLogs
  <2>6. \A x \in Nat : In(k.queue, x) <=> In(l.queue, x) \/ x = n + 1
    BY <1>1, <1>2, <2>5, Appended
  <2>7. \A x \in Nat : InLog(k, x) <=> InLog(l, x) \/ x = n + 1
    BY <1>1, <2>4, <2>5, <2>6, InLogIs
  <2>8. \A x \in Nat : In(l.queue, x) \/ In(l.evicted, x) \/ In(l.file, x) \/ (\E i \in 1..Len(l.rotated) : In(l.rotated[i], x))
            => x < n + 1
    BY <1>1, <1>3, <1>4, InLogIs
  <2>9. LogOrdered(k)
    <3>1. LogOrdered(l)
      BY DEF TaskLogSound
    <3>2. InOrder(k.queue)
      <4>1. InOrder(l.queue)
        BY <3>1 DEF LogOrdered
      <4>2. PICK queue : queue = l.queue
        OBVIOUS
      <4>3. queue \in Seq(Nat) /\ InOrder(queue) /\ \A x \in Nat : In(queue, x) => x < n + 1
        BY <1>2, <2>8, <4>1, <4>2
      <4>4. InOrder(Append(queue, n + 1))
        BY <1>1, <4>3, Appended
      <4> QED BY <2>5, <4>2, <4>4
    <3> QED BY <1>1, <2>4, <2>5, <2>6, <2>8, <3>1, <3>2, LogOrderIs
  <2>10. n + 1 \notin l.missed /\ l.missed \subseteq 1..(n + 1)
    BY DEF TaskLogSound
  <2>11. \A x \in Nat : x \in 1..(n + 1) <=> x \in 1..n \/ x = n + 1
    OBVIOUS
  <2>12. \A x \in Nat : InLog(k, x) <=> x \in 1..(n + 1) /\ x \notin k.missed
    BY <2>5, <2>7, <2>10, <2>11 DEF TaskLogSound
  <2> QED BY <1>5, <2>2, <2>4, <2>5, <2>9, <2>10, <2>12 DEF TaskLogSound
<1>6. CASE l.stream # "open"
  <2>1. PICK k : k = [l EXCEPT !.missed = @ \cup {n + 1}]
    OBVIOUS
  <2>2. k = Enqueued(l, n + 1)
    BY <1>6, <2>1 DEF Enqueued
  <2>3. k \in TaskLogs
    BY <1>1, <1>2, <2>1 DEF TaskLogs
  <2>4. /\ k.queue = l.queue /\ k.evicted = l.evicted /\ k.file = l.file /\ k.rotated = l.rotated
        /\ k.missed = l.missed \cup {n + 1} /\ k.stream = l.stream
    BY <1>1, <2>1 DEF TaskLogs
  <2>5. LogOrdered(k)
    BY <2>4 DEF TaskLogSound, LogOrdered
  <2>6. \A x \in Nat : InLog(k, x) <=> InLog(l, x)
    BY <2>4 DEF InLog
  <2>7. \A x \in Nat : x \in 1..(n + 1) <=> x \in 1..n \/ x = n + 1
    OBVIOUS
  <2>8. \A x \in Nat : InLog(k, x) <=> x \in 1..(n + 1) /\ x \notin k.missed
    BY <1>3, <1>4, <2>4, <2>6, <2>7 DEF TaskLogSound
  <2>9. k.missed \subseteq 1..(n + 1)
    BY <2>4 DEF TaskLogSound
  <2>10. k.stream = "rotating" \/ broken
    BY <1>2, <1>6, <2>4 DEF TaskLogSound
  <2> QED BY <2>2, <2>3, <2>4, <2>5, <2>8, <2>9, <2>10 DEF TaskLogSound
<1> QED BY <1>5, <1>6

LEMMA ChunkWritten ==
    ASSUME NEW l, NEW n \in Nat, NEW keep \in Nat, NEW broken, TaskLogSound(l, n, keep, broken), l.queue # <<>>,
           l.stream = "open" \/ l.stream = "off",
           NEW k, k = IF l.stream = "off" THEN [l EXCEPT !.queue = Tail(@), !.missed = @ \cup {Head(l.queue)}]
                      ELSE IF l.size + 1 > Rotation THEN [l EXCEPT !.stream = "rotating", !.size = 0]
                      ELSE [l EXCEPT !.queue = Tail(@), !.file = Append(@, Head(l.queue)), !.size = @ + 1]
    PROVE  TaskLogSound(k, n, keep, broken) /\ k.stream # "none"
<1>1. l \in TaskLogs /\ LogOrdered(l)
  BY DEF TaskLogSound
<1>2. /\ l.evicted \in Seq(Nat) /\ l.file \in Seq(Nat) /\ l.queue \in Seq(Nat) /\ Len(l.rotated) \in Nat
      /\ l.missed \in SUBSET Nat /\ l.size \in Nat /\ \A i \in 1..Len(l.rotated) : l.rotated[i] \in Seq(Nat)
  BY <1>1 DEF TaskLogs
<1>3. PICK queue, first, rest : queue = l.queue /\ first = Head(queue) /\ rest = Tail(queue)
  OBVIOUS
<1>4. queue \in Seq(Nat) /\ queue # <<>> /\ InOrder(queue)
  BY <1>1, <1>2, <1>3 DEF LogOrdered
<1>5. /\ first \in Nat /\ In(queue, first) /\ rest \in Seq(Nat) /\ InOrder(rest)
      /\ \A x \in Nat : In(rest, x) <=> In(queue, x) /\ x # first
      /\ \A x \in Nat : In(rest, x) => first < x
  BY <1>3, <1>4, HeadTaken
<1>6. /\ InOrder(l.evicted) /\ InOrder(l.file)
      /\ \A x, y \in Nat : In(l.evicted, x) /\ (In(l.file, y) \/ In(queue, y)) => x < y
      /\ \A x, y \in Nat : In(l.file, x) /\ In(queue, y) => x < y
      /\ \A i \in 1..Len(l.rotated) :
            /\ InOrder(l.rotated[i])
            /\ \A x, y \in Nat : In(l.rotated[i], x) /\ (In(l.file, y) \/ In(queue, y)) => x < y
            /\ \A x, y \in Nat : In(l.evicted, x) /\ In(l.rotated[i], y) => x < y
            /\ \A j \in 1..(i - 1) : \A x, y \in Nat : In(l.rotated[i], x) /\ In(l.rotated[j], y) => x < y
  BY <1>1, <1>3, LogOrderIs
<1>7. InLog(l, first) /\ first \in 1..n /\ first \notin l.missed
  BY <1>3, <1>5 DEF InLog, TaskLogSound
\* The stream has failed: the chunk is lost.
<1>8. CASE l.stream = "off"
  <2>1. k = [l EXCEPT !.queue = rest, !.missed = @ \cup {first}]
    BY <1>3, <1>8
  <2>2. k \in TaskLogs
    <3>1. PICK missed : missed = l.missed \cup {first}
      OBVIOUS
    <3>2. missed \in SUBSET Nat
      BY <1>2, <1>5, <3>1
    <3>3. PICK i : i = [l EXCEPT !.queue = rest]
      OBVIOUS
    <3>4. i \in TaskLogs /\ i.missed = l.missed
      BY <1>1, <1>5, <3>3 DEF TaskLogs
    <3>5. k = [i EXCEPT !.missed = missed]
      BY <2>1, <3>1, <3>3, <3>4
    <3> QED BY <3>2, <3>4, <3>5 DEF TaskLogs
  <2>3. /\ k.queue = rest /\ k.evicted = l.evicted /\ k.file = l.file /\ k.rotated = l.rotated
        /\ k.missed = l.missed \cup {first} /\ k.stream = l.stream
    BY <1>1, <2>1 DEF TaskLogs
  <2>4. LogOrdered(k)
    BY <1>5, <1>6, <2>2, <2>3, LogOrderIs
  \* What was in the queue is nowhere else.
  <2>5. ~In(l.evicted, first) /\ ~In(l.file, first) /\ \A i \in 1..Len(l.rotated) : ~In(l.rotated[i], first)
    BY <1>5, <1>6
  <2>6. \A x \in Nat : InLog(k, x) <=> InLog(l, x) /\ x # first
    BY <1>1, <1>3, <1>5, <2>2, <2>3, <2>5, InLogIs
  <2>7. \A x \in Nat : InLog(k, x) <=> x \in 1..n /\ x \notin k.missed
    BY <2>3, <2>6 DEF TaskLogSound
  <2>8. k.missed \subseteq 1..n
    BY <1>7, <2>3 DEF TaskLogSound
  <2> QED BY <1>8, <2>2, <2>3, <2>4, <2>7, <2>8 DEF TaskLogSound
<1>9. CASE l.stream = "open" /\ l.size + 1 > Rotation
  <2>1. k = [l EXCEPT !.stream = "rotating", !.size = 0]
    BY <1>9
  <2>2. k \in TaskLogs
    <3>1. PICK i : i = [l EXCEPT !.stream = "rotating"]
      OBVIOUS
    <3>2. i \in TaskLogs
      BY <1>1, <3>1 DEF TaskLogs
    <3>3. PICK size : size = 0
      OBVIOUS
    <3>4. k = [i EXCEPT !.size = size] /\ size \in Nat
      BY <2>1, <3>1, <3>3
    <3> QED BY <3>2, <3>4 DEF TaskLogs
  <2>3. /\ k.queue = l.queue /\ k.evicted = l.evicted /\ k.file = l.file /\ k.rotated = l.rotated
        /\ k.missed = l.missed /\ k.stream = "rotating"
    BY <1>1, <2>1 DEF TaskLogs
  <2> QED BY <2>2, <2>3, StreamChanges
<1>10. CASE l.stream = "open" /\ ~(l.size + 1 > Rotation)
  <2>1. PICK written : written = Append(l.file, first)
    OBVIOUS
  <2>2. PICK i : i = [l EXCEPT !.queue = rest, !.file = written]
    OBVIOUS
  <2>3. \A x \in Nat : In(l.file, x) => x < first
    BY <1>5, <1>6
  <2>4. written \in Seq(Nat) /\ InOrder(written) /\ \A x \in Nat : In(written, x) <=> In(l.file, x) \/ x = first
    <3>1. PICK old : old = l.file
      OBVIOUS
    <3>2. old \in Seq(Nat) /\ InOrder(old) /\ \A x \in Nat : In(old, x) => x < first
      BY <1>2, <1>6, <2>3, <3>1
    <3>3. written = Append(old, first)
      BY <2>1, <3>1
    <3> QED BY <1>5, <3>1, <3>2, <3>3, Appended
  <2>5. i \in TaskLogs
    BY <1>1, <1>5, <2>2, <2>4 DEF TaskLogs
  <2>6. /\ i.queue = rest /\ i.evicted = l.evicted /\ i.file = written /\ i.rotated = l.rotated
        /\ i.missed = l.missed /\ i.stream = l.stream /\ i.size = l.size
    BY <1>1, <2>2 DEF TaskLogs
  <2>7. LogOrdered(i)
    <3>1. \A x, y \in Nat : In(written, x) /\ In(rest, y) => x < y
      BY <1>5, <1>6, <2>4
    <3>2. \A x \in Nat : In(written, x) \/ In(rest, x) => In(l.file, x) \/ In(queue, x)
      BY <1>5, <2>4
    <3>3. \A x, y \in Nat : In(l.evicted, x) /\ (In(written, y) \/ In(rest, y)) => x < y
      BY <1>6, <3>2
    <3>4. ASSUME NEW r \in 1..Len(l.rotated)
          PROVE  /\ InOrder(l.rotated[r])
                 /\ \A x, y \in Nat : In(l.rotated[r], x) /\ (In(written, y) \/ In(rest, y)) => x < y
                 /\ \A x, y \in Nat : In(l.evicted, x) /\ In(l.rotated[r], y) => x < y
                 /\ \A j \in 1..(r - 1) : \A x, y \in Nat : In(l.rotated[r], x) /\ In(l.rotated[j], y) => x < y
      BY <1>6, <3>2
    <3> QED BY <1>5, <1>6, <2>4, <2>5, <2>6, <3>1, <3>3, <3>4, LogOrderIs
  <2>8. \A x \in Nat : InLog(i, x) <=> InLog(l, x)
    BY <1>1, <1>3, <1>5, <2>4, <2>5, <2>6, InLogIs
  <2>9. TaskLogSound(i, n, keep, broken)
    BY <1>10, <2>5, <2>6, <2>7, <2>8 DEF TaskLogSound
  <2>10. PICK size : size = l.size + 1
    OBVIOUS
  <2>11. k = [i EXCEPT !.size = size]
    BY <1>1, <1>3, <1>10, <2>1, <2>2, <2>10 DEF TaskLogs
  <2>12. k \in TaskLogs
    <3>1. size \in Nat
      BY <1>2, <2>10
    <3> QED BY <2>5, <2>11, <3>1 DEF TaskLogs
  <2>13. /\ k.queue = i.queue /\ k.evicted = i.evicted /\ k.file = i.file /\ k.rotated = i.rotated
         /\ k.missed = i.missed /\ k.stream = "open"
    BY <1>10, <2>5, <2>6, <2>11 DEF TaskLogs
  <2> QED BY <1>10, <2>6, <2>9, <2>12, <2>13, StreamChanges
<1> QED BY <1>8, <1>9, <1>10

LEMMA ChunkLost ==
    ASSUME NEW l, NEW n \in Nat, NEW keep \in Nat, NEW broken, TaskLogSound(l, n, keep, broken), broken, l.file # <<>>,
           NEW k, k = [l EXCEPT !.stream = "off", !.file = Seqs!Front(@), !.missed = @ \cup {Seqs!Last(l.file)}],
           l.stream = "open"
    PROVE  TaskLogSound(k, n, keep, broken) /\ k.stream # "none"
<1>1. l \in TaskLogs /\ LogOrdered(l)
  BY DEF TaskLogSound
<1>2. /\ l.evicted \in Seq(Nat) /\ l.file \in Seq(Nat) /\ l.queue \in Seq(Nat) /\ Len(l.rotated) \in Nat
      /\ l.missed \in SUBSET Nat /\ \A i \in 1..Len(l.rotated) : l.rotated[i] \in Seq(Nat)
  BY <1>1 DEF TaskLogs
<1>3. PICK written, last, rest : written = l.file /\ last = Seqs!Last(written) /\ rest = Seqs!Front(written)
  OBVIOUS
<1>4. written \in Seq(Nat) /\ written # <<>> /\ InOrder(written)
  BY <1>1, <1>2, <1>3 DEF LogOrdered
<1>5. /\ last \in Nat /\ In(written, last) /\ rest \in Seq(Nat) /\ InOrder(rest)
      /\ \A x \in Nat : In(rest, x) <=> In(written, x) /\ x # last
  BY <1>3, <1>4, LastTaken
<1>6. /\ InOrder(l.evicted) /\ InOrder(l.queue)
      /\ \A x, y \in Nat : In(l.evicted, x) /\ (In(written, y) \/ In(l.queue, y)) => x < y
      /\ \A x, y \in Nat : In(written, x) /\ In(l.queue, y) => x < y
      /\ \A i \in 1..Len(l.rotated) :
            /\ InOrder(l.rotated[i])
            /\ \A x, y \in Nat : In(l.rotated[i], x) /\ (In(written, y) \/ In(l.queue, y)) => x < y
            /\ \A x, y \in Nat : In(l.evicted, x) /\ In(l.rotated[i], y) => x < y
            /\ \A j \in 1..(i - 1) : \A x, y \in Nat : In(l.rotated[i], x) /\ In(l.rotated[j], y) => x < y
  BY <1>1, <1>3, LogOrderIs
<1>7. InLog(l, last) /\ last \in 1..n /\ last \notin l.missed
  BY <1>3, <1>5 DEF InLog, TaskLogSound
<1>8. k = [l EXCEPT !.stream = "off", !.file = rest, !.missed = @ \cup {last}]
  BY <1>3
<1>9. k \in TaskLogs
  <2>1. PICK missed : missed = l.missed \cup {last}
    OBVIOUS
  <2>2. missed \in SUBSET Nat
    BY <1>2, <1>5, <2>1
  <2>3. PICK i : i = [l EXCEPT !.stream = "off"]
    OBVIOUS
  <2>4. i \in TaskLogs /\ i.missed = l.missed
    BY <1>1, <2>3 DEF TaskLogs
  <2>5. PICK j : j = [i EXCEPT !.file = rest]
    OBVIOUS
  <2>6. j \in TaskLogs /\ j.missed = l.missed
    BY <1>5, <2>4, <2>5 DEF TaskLogs
  <2>7. k = [j EXCEPT !.missed = missed]
    BY <1>8, <2>1, <2>3, <2>4, <2>5, <2>6
  <2> QED BY <2>2, <2>6, <2>7 DEF TaskLogs
<1>10. /\ k.queue = l.queue /\ k.evicted = l.evicted /\ k.file = rest /\ k.rotated = l.rotated
       /\ k.missed = l.missed \cup {last} /\ k.stream = "off"
  BY <1>1, <1>8 DEF TaskLogs
<1>11. LogOrdered(k)
  BY <1>5, <1>6, <1>9, <1>10, LogOrderIs
<1>12. ~In(l.evicted, last) /\ ~In(l.queue, last) /\ \A i \in 1..Len(l.rotated) : ~In(l.rotated[i], last)
  BY <1>5, <1>6
<1>13. \A x \in Nat : InLog(k, x) <=> InLog(l, x) /\ x # last
  BY <1>1, <1>3, <1>5, <1>9, <1>10, <1>12, InLogIs
<1>14. \A x \in Nat : InLog(k, x) <=> x \in 1..n /\ x \notin k.missed
  BY <1>10, <1>13 DEF TaskLogSound
<1>15. k.missed \subseteq 1..n
  BY <1>7, <1>10 DEF TaskLogSound
<1> QED BY <1>9, <1>10, <1>11, <1>14, <1>15 DEF TaskLogSound

LEMMA Prefixed ==
    ASSUME NEW S, NEW first \in S, NEW rest \in Seq(S), NEW all, all = <<first>> \o rest
    PROVE  /\ all \in Seq(S) /\ Len(all) = Len(rest) + 1 /\ all[1] = first
           /\ \A i \in 1..Len(rest) : all[i + 1] = rest[i]
<1>1. PICK one : one = <<first>>
  OBVIOUS
<1>2. one \in Seq(S) /\ Len(one) = 1 /\ one[1] = first
  BY <1>1
<1>3. all = one \o rest
  BY <1>1
<1>4. all \in Seq(S) /\ Len(all) = Len(rest) + 1 /\ Len(rest) \in Nat
  BY <1>2, <1>3
<1>5. all[1] = first
  BY <1>2, <1>3, <1>4
<1>6. ASSUME NEW i \in 1..Len(rest) PROVE all[i + 1] = rest[i]
  <2>1. PICK k : k = i + 1
    OBVIOUS
  <2>2. k \in 1..Len(all) /\ k > 1 /\ k - 1 = i
    BY <1>4, <2>1
  <2>3. all[k] = rest[k - 1]
    BY <1>2, <1>3, <1>4, <2>2
  <2> QED BY <2>1, <2>2, <2>3
<1> QED BY <1>4, <1>5, <1>6

RotatedLog(l, all, keep) ==
    [l EXCEPT !.stream = "open", !.size = 1, !.queue = Tail(@),
              !.rotated = SubSeq(all, 1, IF keep < Len(all) THEN keep ELSE Len(all)),
              !.evicted = IF Len(all) <= keep THEN @ ELSE @ \o Seqs!Last(all),
              !.file = <<Head(l.queue)>>]

\* The written becomes the newest of the rotated ones; the oldest goes when there are too many.
LEMMA LogRotates ==
    ASSUME NEW l, NEW n \in Nat, NEW keep \in Nat \ {0}, NEW broken, TaskLogSound(l, n, keep, broken), l.stream = "rotating",
           NEW all, all = <<l.file>> \o l.rotated,
           NEW k, k = RotatedLog(l, all, keep)
    PROVE  TaskLogSound(k, n, keep, broken) /\ k.stream = "open"
<1>1. l \in TaskLogs /\ LogOrdered(l) /\ l.queue # <<>> /\ Len(l.rotated) <= keep
  BY DEF TaskLogSound
<1>2. PICK queue, first, rest : queue = l.queue /\ first = Head(queue) /\ rest = Tail(queue)
  OBVIOUS
<1>3. PICK m : m = Len(l.rotated)
  OBVIOUS
<1>4. /\ l.evicted \in Seq(Nat) /\ l.file \in Seq(Nat) /\ queue \in Seq(Nat) /\ m \in Nat /\ m <= keep
      /\ l.missed \in SUBSET Nat /\ l.rotated \in Seq(Seq(Nat)) /\ DOMAIN l.rotated = 1..m
      /\ \A i \in 1..m : l.rotated[i] \in Seq(Nat)
  BY <1>1, <1>2, <1>3 DEF TaskLogs
<1>5. queue # <<>> /\ InOrder(queue)
  BY <1>1, <1>2 DEF LogOrdered
<1>6. /\ first \in Nat /\ In(queue, first) /\ rest \in Seq(Nat) /\ InOrder(rest)
      /\ \A x \in Nat : In(rest, x) <=> In(queue, x) /\ x # first
      /\ \A x \in Nat : In(rest, x) => first < x
  BY <1>2, <1>4, <1>5, HeadTaken
<1>7. /\ InOrder(l.evicted) /\ InOrder(l.file)
      /\ \A x, y \in Nat : In(l.evicted, x) /\ (In(l.file, y) \/ In(queue, y)) => x < y
      /\ \A x, y \in Nat : In(l.file, x) /\ In(queue, y) => x < y
      /\ \A i \in 1..m :
            /\ InOrder(l.rotated[i])
            /\ \A x, y \in Nat : In(l.rotated[i], x) /\ (In(l.file, y) \/ In(queue, y)) => x < y
            /\ \A x, y \in Nat : In(l.evicted, x) /\ In(l.rotated[i], y) => x < y
            /\ \A j \in 1..(i - 1) : \A x, y \in Nat : In(l.rotated[i], x) /\ In(l.rotated[j], y) => x < y
  BY <1>1, <1>2, <1>3, LogOrderIs
<1>8. /\ all \in Seq(Seq(Nat)) /\ Len(all) = m + 1 /\ all[1] = l.file /\ \A i \in 1..m : all[i + 1] = l.rotated[i]
  <2>1. PICK S, written, others : S = Seq(Nat) /\ written = l.file /\ others = l.rotated
    OBVIOUS
  <2>2. written \in S /\ others \in Seq(S) /\ Len(others) = m /\ all = <<written>> \o others
    BY <1>3, <1>4, <2>1
  <2>3. /\ all \in Seq(S) /\ Len(all) = Len(others) + 1 /\ all[1] = written
        /\ \A i \in 1..Len(others) : all[i + 1] = others[i]
    <3>1. \A a : a = <<written>> \o others =>
                /\ a \in Seq(S) /\ Len(a) = Len(others) + 1 /\ a[1] = written
                /\ \A i \in 1..Len(others) : a[i + 1] = others[i]
      BY <2>2, Prefixed
    <3> QED BY <2>2, <3>1
  <2> QED BY <2>1, <2>2, <2>3
<1>9. PICK len : len = IF keep < m + 1 THEN keep ELSE m + 1
  OBVIOUS
<1>10. len \in 1..(m + 1) /\ len <= keep /\ (len # m + 1 => len = m /\ m = keep /\ m \in 1..m)
  BY <1>4, <1>9
<1>11. PICK rotated : rotated = SubSeq(all, 1, len)
  OBVIOUS
<1>12. rotated \in Seq(Seq(Nat)) /\ Len(rotated) = len /\ DOMAIN rotated = 1..len /\ \A i \in 1..len : rotated[i] = all[i]
  <2>1. \A i \in 1..len : i \in 1..Len(all) /\ all[i] \in Seq(Nat)
    <3>1. \A i \in 1..len : i \in 1..(m + 1)
      BY <1>4, <1>10
    <3>2. \A i \in 1..(m + 1) : all[i] \in Seq(Nat)
      BY <1>4, <1>8
    <3> QED BY <1>8, <3>1, <3>2
  <2>2. rotated \in Seq(Seq(Nat)) /\ Len(rotated) = len
    BY <1>8, <1>10, <1>11, <2>1
  <2>3. \A i \in 1..len : rotated[i] = all[i]
    BY <1>8, <1>10, <1>11, <2>1, <2>2
  <2>4. DOMAIN rotated = 1..Len(rotated)
    BY <2>2
  <2> QED BY <2>2, <2>3, <2>4
<1>13. PICK evicted : evicted = IF m + 1 <= keep THEN l.evicted ELSE l.evicted \o l.rotated[m]
  OBVIOUS
\* What goes is newer than what has gone before, and older than everything else.
<1>14. /\ evicted \in Seq(Nat) /\ InOrder(evicted)
       /\ len = m + 1 => evicted = l.evicted
       /\ len # m + 1 => \A x \in Nat : In(evicted, x) <=> In(l.evicted, x) \/ In(l.rotated[m], x)
  <2>1. CASE len = m + 1
    BY <1>4, <1>7, <1>9, <1>10, <1>13, <2>1
  <2>2. CASE len # m + 1
    <3>1. evicted = l.evicted \o l.rotated[m] /\ l.rotated[m] \in Seq(Nat)
      <4>1. ~(m + 1 <= keep) /\ m \in 1..m
        BY <1>4, <1>9, <1>10, <2>2
      <4> QED BY <1>4, <1>13, <4>1
    <3>2. InOrder(l.rotated[m]) /\ \A x, y \in Nat : In(l.evicted, x) /\ In(l.rotated[m], y) => x < y
      BY <1>7, <1>10, <2>2
    <3>3. PICK old, gone : old = l.evicted /\ gone = l.rotated[m]
      OBVIOUS
    <3>4. old \in Seq(Nat) /\ gone \in Seq(Nat) /\ InOrder(old) /\ InOrder(gone)
          /\ \A x, y \in Nat : In(old, x) /\ In(gone, y) => x < y
      BY <1>4, <1>7, <3>1, <3>2, <3>3
    <3>5. Before(old, gone)
      BY <3>4, BeforeIs
    <3>6. old \o gone \in Seq(Nat) /\ InOrder(old \o gone) /\ \A x \in Nat : In(old \o gone, x) <=> In(old, x) \/ In(gone, x)
      BY <3>4, <3>5, Joined
    <3> QED BY <2>2, <3>1, <3>3, <3>6
  <2> QED BY <2>1, <2>2
<1>15. /\ k \in TaskLogs /\ k.stream = "open" /\ k.queue = rest /\ k.rotated = rotated /\ k.evicted = evicted
       /\ k.file = <<first>> /\ k.missed = l.missed
  <2>1. PICK a : a = [l EXCEPT !.stream = "open"]
    OBVIOUS
  <2>2. a \in TaskLogs /\ a.queue = l.queue /\ a.rotated = l.rotated /\ a.evicted = l.evicted /\ a.missed = l.missed
    BY <1>1, <2>1 DEF TaskLogs
  <2>3. PICK b : b = [a EXCEPT !.size = 1]
    OBVIOUS
  <2>4. b \in TaskLogs /\ b.queue = l.queue /\ b.rotated = l.rotated /\ b.evicted = l.evicted /\ b.missed = l.missed
        /\ b.stream = "open"
    BY <1>1, <2>1, <2>2, <2>3 DEF TaskLogs
  <2>5. PICK c : c = [b EXCEPT !.queue = rest]
    OBVIOUS
  <2>6. c \in TaskLogs /\ c.queue = rest /\ c.evicted = l.evicted /\ c.missed = l.missed /\ c.stream = "open"
    BY <1>6, <2>4, <2>5 DEF TaskLogs
  <2>7. PICK d : d = [c EXCEPT !.rotated = rotated]
    OBVIOUS
  <2>8. /\ d \in TaskLogs /\ d.queue = rest /\ d.rotated = rotated /\ d.evicted = l.evicted /\ d.missed = l.missed
        /\ d.stream = "open"
    BY <1>12, <2>6, <2>7 DEF TaskLogs
  <2>9. PICK e : e = [d EXCEPT !.evicted = evicted]
    OBVIOUS
  <2>10. /\ e \in TaskLogs /\ e.queue = rest /\ e.rotated = rotated /\ e.evicted = evicted /\ e.missed = l.missed
         /\ e.stream = "open"
    BY <1>14, <2>8, <2>9 DEF TaskLogs
  <2>11. PICK written : written = <<first>>
    OBVIOUS
  <2>12. written \in Seq(Nat)
    BY <1>6, <2>11
  <2>13. PICK f : f = [e EXCEPT !.file = written]
    OBVIOUS
  <2>14. /\ f \in TaskLogs /\ f.queue = rest /\ f.rotated = rotated /\ f.evicted = evicted /\ f.missed = l.missed
         /\ f.stream = "open" /\ f.file = written
    BY <2>10, <2>12, <2>13 DEF TaskLogs
  <2>15. Seqs!Last(all) = l.rotated[m] \/ m + 1 <= keep
    <3>1. CASE m + 1 <= keep
      BY <3>1
    <3>2. CASE ~(m + 1 <= keep)
      <4>1. m \in 1..m
        BY <1>4, <3>2
      <4> QED BY <1>8, <4>1 DEF Seqs!Last
    <3> QED BY <3>1, <3>2
  <2>16. k = f
    <3>1. rotated = SubSeq(all, 1, IF keep < Len(all) THEN keep ELSE Len(all))
      BY <1>8, <1>9, <1>11
    <3>2. evicted = IF Len(all) <= keep THEN l.evicted ELSE l.evicted \o Seqs!Last(all)
      BY <1>8, <1>13, <2>15
    <3> QED BY <1>2, <2>1, <2>2, <2>3, <2>4, <2>5, <2>6, <2>7, <2>8, <2>9, <2>10, <2>11, <2>13, <3>1, <3>2
               DEF RotatedLog
  <2> QED BY <2>11, <2>14, <2>16
<1>16. InOrder(<<first>>) /\ \A x \in Nat : In(<<first>>, x) <=> x = first
  BY <1>6 DEF InOrder, In
<1>17. rotated[1] = l.file /\ \A i \in 2..len : i - 1 \in 1..m /\ rotated[i] = l.rotated[i - 1]
  <2>1. rotated[1] = all[1]
    <3>1. 1 \in 1..len
      BY <1>4, <1>10
    <3> QED BY <1>12, <3>1
  <2>2. ASSUME NEW i \in 2..len PROVE i - 1 \in 1..m /\ rotated[i] = l.rotated[i - 1]
    <3>1. i - 1 \in 1..m /\ i \in 1..len /\ (i - 1) + 1 = i
      BY <1>4, <1>10
    <3>2. all[(i - 1) + 1] = l.rotated[i - 1]
      BY <1>8, <3>1
    <3> QED BY <1>12, <3>1, <3>2
  <2> QED BY <1>8, <2>1, <2>2
<1>18. \A x, y \in Nat : In(evicted, x) /\ (In(l.file, y) \/ In(queue, y)) => x < y
  <2>1. CASE len = m + 1
    BY <1>7, <1>14, <2>1
  <2>2. CASE len # m + 1
    BY <1>7, <1>10, <1>14, <2>2
  <2> QED BY <2>1, <2>2
<1>19. LogOrdered(k)
  <2>1. \A x, y \in Nat : In(evicted, x) /\ (In(<<first>>, y) \/ In(rest, y)) => x < y
    BY <1>6, <1>16, <1>18
  <2>2. \A x, y \in Nat : In(<<first>>, x) /\ In(rest, y) => x < y
    BY <1>6, <1>16
  <2>3. ASSUME NEW i \in 1..len
        PROVE  /\ InOrder(rotated[i])
               /\ \A x, y \in Nat : In(rotated[i], x) /\ (In(<<first>>, y) \/ In(rest, y)) => x < y
               /\ \A x, y \in Nat : In(evicted, x) /\ In(rotated[i], y) => x < y
               /\ \A j \in 1..(i - 1) : \A x, y \in Nat : In(rotated[i], x) /\ In(rotated[j], y) => x < y
    <3>1. CASE i = 1
      <4>1. rotated[i] = l.file /\ 1..(i - 1) = {}
        BY <1>17, <3>1
      <4> QED BY <1>6, <1>7, <1>16, <1>18, <4>1
    <3>2. CASE i # 1
      <4>1. PICK r : r = i - 1
        OBVIOUS
      <4>2. i \in 2..len /\ r \in 1..m /\ rotated[i] = l.rotated[r]
        BY <1>10, <1>17, <3>2, <4>1
      <4>3. InOrder(rotated[i]) /\ \A x, y \in Nat : In(rotated[i], x) /\ (In(<<first>>, y) \/ In(rest, y)) => x < y
        BY <1>6, <1>7, <1>16, <4>2
      <4>4. \A x, y \in Nat : In(evicted, x) /\ In(rotated[i], y) => x < y
        <5>1. CASE len = m + 1
          BY <1>7, <1>14, <4>2, <5>1
        <5>2. CASE len # m + 1
          <6>1. r \in 1..(m - 1) /\ m \in 1..m
            BY <1>4, <1>10, <4>1, <4>2, <5>2
          <6> QED BY <1>7, <1>14, <4>2, <5>2, <6>1
        <5> QED BY <5>1, <5>2
      <4>5. ASSUME NEW j \in 1..(i - 1) PROVE \A x, y \in Nat : In(rotated[i], x) /\ In(rotated[j], y) => x < y
        <5>1. CASE j = 1
          BY <1>7, <1>17, <4>2, <5>1
        <5>2. CASE j # 1
          <6>1. PICK s : s = j - 1
            OBVIOUS
          <6>2. j \in 2..len /\ s \in 1..(r - 1)
            BY <1>10, <4>1, <4>2, <5>2, <6>1
          <6>3. rotated[j] = l.rotated[s]
            BY <1>17, <6>1, <6>2
          <6> QED BY <1>7, <4>2, <6>2, <6>3
        <5> QED BY <5>1, <5>2
      <4> QED BY <4>3, <4>4, <4>5
    <3> QED BY <3>1, <3>2
  <2>5. /\ InOrder(k.evicted) /\ InOrder(k.file) /\ InOrder(k.queue)
        /\ \A x, y \in Nat : In(k.evicted, x) /\ (In(k.file, y) \/ In(k.queue, y)) => x < y
        /\ \A x, y \in Nat : In(k.file, x) /\ In(k.queue, y) => x < y
    BY <1>6, <1>14, <1>15, <1>16, <2>1, <2>2
  <2>6. \A i \in 1..Len(k.rotated) :
            /\ InOrder(k.rotated[i])
            /\ \A x, y \in Nat : In(k.rotated[i], x) /\ (In(k.file, y) \/ In(k.queue, y)) => x < y
            /\ \A x, y \in Nat : In(k.evicted, x) /\ In(k.rotated[i], y) => x < y
            /\ \A j \in 1..(i - 1) : \A x, y \in Nat : In(k.rotated[i], x) /\ In(k.rotated[j], y) => x < y
    <3>1. k.rotated = rotated /\ k.file = <<first>> /\ k.queue = rest /\ k.evicted = evicted
      BY <1>15
    <3>2. \A i \in 1..len :
            /\ InOrder(k.rotated[i])
            /\ \A x, y \in Nat : In(k.rotated[i], x) /\ (In(k.file, y) \/ In(k.queue, y)) => x < y
            /\ \A x, y \in Nat : In(k.evicted, x) /\ In(k.rotated[i], y) => x < y
            /\ \A j \in 1..(i - 1) : \A x, y \in Nat : In(k.rotated[i], x) /\ In(k.rotated[j], y) => x < y
      BY <2>3, <3>1, Zenon
    <3> QED BY <1>12, <3>1, <3>2
  <2>7. k \in TaskLogs
    BY <1>15
  <2> QED BY <2>5, <2>6, <2>7, LogOrderIs
<1>20. \A x \in Nat : InLog(k, x) <=> InLog(l, x)
  <2> SUFFICES ASSUME NEW x \in Nat PROVE InLog(k, x) <=> InLog(l, x)
    OBVIOUS
  <2>1. InLog(l, x) <=> In(l.evicted, x) \/ In(l.file, x) \/ In(queue, x) \/ \E i \in 1..m : In(l.rotated[i], x)
    BY <1>1, <1>2, <1>3, InLogIs
  <2>2. InLog(k, x) <=> In(evicted, x) \/ x = first \/ In(rest, x) \/ \E i \in 1..len : In(rotated[i], x)
    BY <1>12, <1>15, <1>16, InLogIs
  <2>3. In(queue, x) <=> x = first \/ In(rest, x)
    BY <1>6
  <2>4. ASSUME \E i \in 1..len : In(rotated[i], x) PROVE In(l.file, x) \/ \E i \in 1..m : In(l.rotated[i], x)
    <3>1. PICK i \in 1..len : In(rotated[i], x)
      BY <2>4
    <3>2. CASE i = 1
      BY <1>17, <3>1, <3>2
    <3>3. CASE i # 1
      <4>1. i \in 2..len
        BY <1>10, <3>3
      <4> QED BY <1>17, <3>1, <4>1
    <3> QED BY <3>2, <3>3
  <2>5. In(l.file, x) => \E i \in 1..len : In(rotated[i], x)
    <3>1. 1 \in 1..len
      BY <1>4, <1>10
    <3> QED BY <1>17, <3>1
  <2>6. ASSUME NEW i \in 1..m, In(l.rotated[i], x) PROVE In(evicted, x) \/ \E j \in 1..len : In(rotated[j], x)
    <3>1. CASE i + 1 \in 2..len
      <4>1. PICK j : j = i + 1
        OBVIOUS
      <4>2. j \in 2..len /\ j - 1 = i /\ j \in 1..len
        BY <1>4, <1>10, <3>1, <4>1
      <4>3. rotated[j] = l.rotated[i]
        BY <1>17, <4>2
      <4> QED BY <2>6, <4>2, <4>3
    <3>2. CASE i + 1 \notin 2..len
      <4>1. len # m + 1 /\ i = m
        BY <1>4, <1>10, <3>2
      <4> QED BY <1>14, <2>6, <4>1
    <3> QED BY <3>1, <3>2
  <2>7. In(evicted, x) => In(l.evicted, x) \/ \E i \in 1..m : In(l.rotated[i], x)
    BY <1>10, <1>14
  <2>8. In(l.evicted, x) => In(evicted, x)
    BY <1>14
  <2> QED BY <2>1, <2>2, <2>3, <2>4, <2>5, <2>6, <2>7, <2>8
<1>21. k.rotated # <<>> /\ Len(k.rotated) <= keep
  <2>1. Len(<<>>) = 0 /\ len # 0
    BY <1>4, <1>10
  <2> QED BY <1>10, <1>12, <1>15, <2>1
<1> QED BY <1>15, <1>19, <1>20, <1>21 DEF TaskLogSound

-----------------------------------------------------------------------------
TaskLogInv ==
    /\ logFile = [p \in Process |-> logFile[p]]
    /\ env.cli => \A p \in Process : logFile[p] = NoLog
    /\ ~env.cli =>
        \A p \in Process :
            /\ TaskLogSound(logFile[p], job[p].printed, env.keep, "log" \in env.events)
            /\ job[p].at \in {"idle", "resolve", "spawn"} => logFile[p] = NoLog
            /\ job[p].at = "running" => logFile[p].stream # "none"

LEMMA LogsStart == Init => TaskLogInv
<1> SUFFICES ASSUME Init PROVE TaskLogInv
  OBVIOUS
<1>1. env \in Environment /\ job = [p \in Process |-> NoJob] /\ logFile = [p \in Process |-> NoLog]
  BY DEF Init, RunnerInit
<1>2. NoJob.printed = 0 /\ NoJob.at = "idle"
  BY DEF NoJob
<1>3. env.keep \in Nat
  BY <1>1, RunnerSettings
<1>4. TaskLogSound(NoLog, 0, env.keep, "log" \in env.events)
  BY <1>3, NothingLogged
<1> QED BY <1>1, <1>2, <1>4 DEF TaskLogInv

\* What the log depends on of a job that does something else.
SameLog(j, k) ==
    /\ k.printed = j.printed
    /\ k.at \in {"idle", "resolve", "spawn"} => j.at \in {"idle", "resolve", "spawn"}
    /\ k.at = "running" => j.at = "running"

LEMMA LogStays ==
    ASSUME TaskLogInv, UNCHANGED <<env, logFile>>, \A p \in Process : SameLog(job[p], job'[p])
    PROVE  TaskLogInv'
BY DEF TaskLogInv, SameLog

LEMMA JobsElsewhere ==
    ASSUME JobsInv, NEW p \in Process, NEW k, Sets(p, k)
    PROVE  /\ job' = [job EXCEPT ![p] = k] /\ job'[p] = k /\ \A q \in Process : q # p => job'[q] = job[q]
           /\ SameLog(job[p], k) => \A q \in Process : SameLog(job[q], job'[q])
<1>1. job' = [job EXCEPT ![p] = k] /\ job \in [Process -> Jobs(env.markers)]
  BY DEF Sets, JobsInv
<1>2. job'[p] = k /\ \A q \in Process : q # p => job'[q] = job[q]
  BY <1>1
<1>3. \A q \in Process : SameLog(job[q], job[q])
  BY DEF SameLog
<1> QED BY <1>1, <1>2, <1>3

LEMMA SilentJob ==
    ASSUME JobsInv, TaskLogInv, UNCHANGED env, NEW p \in Process,
           \/ BeginJob(p) \/ Resolve(p) \/ ExitChild(p) \/ TimeOut(p) \/ KillChild(p) \/ CloseChild(p) \/ LeaveJob(p)
    PROVE  TaskLogInv'
<1>1. PICK j : j = job[p]
  OBVIOUS
<1>2. j \in Jobs(env.markers)
  BY <1>1, JobTyped
<1>3. UNCHANGED logFile
  BY DEF BeginJob, Resolve, ExitChild, TimeOut, KillChild, CloseChild, LeaveJob
<1>4. ASSUME NEW k, Sets(p, k), SameLog(j, k) PROVE TaskLogInv'
  BY <1>1, <1>3, <1>4, JobsElsewhere, LogStays
<1>5. ASSUME NEW r, Finishes(p, r) PROVE TaskLogInv'
  <2>1. PICK k : k = [j EXCEPT !.at = "done", !.result = r]
    OBVIOUS
  <2>2. SameLog(j, k) /\ Sets(p, k)
    BY <1>1, <1>2, <1>5, <2>1 DEF SameLog, Jobs, Finishes
  <2> QED BY <1>4, <2>2
<1>6. CASE BeginJob(p) \/ Resolve(p)
  <2>1. ASSUME NEW at \in {"resolve", "spawn"}, j.at \in {"idle", "resolve"}, Sets(p, [j EXCEPT !.at = at]) PROVE TaskLogInv'
    <3>1. PICK k : k = [j EXCEPT !.at = at]
      OBVIOUS
    <3>2. SameLog(j, k) /\ Sets(p, k)
      BY <1>2, <2>1, <3>1 DEF SameLog, Jobs
    <3> QED BY <1>4, <3>2
  <2>2. CASE BeginJob(p)
    <3>1. CASE Finishes(p, [Ended EXCEPT !.exit = 1, !.refused = TRUE])
      BY <1>5, <3>1
    <3>2. CASE Sets(p, [j EXCEPT !.at = "resolve"]) /\ j.at = "idle"
      BY <2>1, <3>2
    <3> QED BY <1>1, <2>2, <3>1, <3>2 DEF BeginJob
  <2>3. CASE Resolve(p)
    <3>1. CASE Finishes(p, [Ended EXCEPT !.exit = 1])
      BY <1>5, <3>1
    <3>2. CASE Sets(p, [j EXCEPT !.at = "spawn"]) /\ j.at = "resolve"
      BY <2>1, <3>2
    <3> QED BY <1>1, <2>3, <3>1, <3>2 DEF Resolve
  <2> QED BY <1>6, <2>2, <2>3
<1>7. CASE ExitChild(p)
  <2>1. PICK code : Sets(p, [j EXCEPT !.child = "exited", !.code = code])
    BY <1>1, <1>7 DEF ExitChild
  <2>2. PICK k : k = [j EXCEPT !.child = "exited", !.code = code]
    OBVIOUS
  <2>3. SameLog(j, k)
    BY <1>2, <2>2 DEF SameLog, Jobs
  <2> QED BY <1>4, <2>1, <2>2, <2>3
<1>8. CASE TimeOut(p)
  <2>1. PICK i \in {j, [j EXCEPT !.child = "exited", !.code = TERM]} : Sets(p, [i EXCEPT !.timedOut = TRUE])
    BY <1>1, <1>8 DEF TimeOut
  <2>2. i.printed = j.printed /\ i.at = j.at
    BY <1>2 DEF Jobs
  <2>3. PICK k : k = [i EXCEPT !.timedOut = TRUE]
    OBVIOUS
  <2>4. k.printed = i.printed /\ k.at = i.at
    BY <2>3
  <2>5. SameLog(j, k)
    BY <2>2, <2>4 DEF SameLog
  <2> QED BY <1>4, <2>1, <2>3, <2>5
<1>9. CASE KillChild(p)
  <2>1. PICK code : Sets(p, [j EXCEPT !.killed = TRUE, !.child = "exited", !.code = code])
    <3>1. Sets(p, [j EXCEPT !.killed = TRUE, !.child = "exited", !.code = IF j.child = "alive" THEN KILL ELSE j.code])
      BY <1>1, <1>2, <1>9 DEF KillChild, Jobs
    <3> QED BY <3>1
  <2>2. PICK k : k = [j EXCEPT !.killed = TRUE, !.child = "exited", !.code = code]
    OBVIOUS
  <2>3. SameLog(j, k)
    BY <1>2, <2>2 DEF SameLog, Jobs
  <2> QED BY <1>4, <2>1, <2>2, <2>3
<1>10. CASE CloseChild(p)
  <2>1. PICK r : Sets(p, [j EXCEPT !.at = "flush", !.child = "closed", !.result = r])
    BY <1>1, <1>10 DEF CloseChild
  <2>2. PICK k : k = [j EXCEPT !.at = "flush", !.child = "closed", !.result = r]
    OBVIOUS
  <2>3. SameLog(j, k)
    BY <1>2, <2>2 DEF SameLog, Jobs
  <2> QED BY <1>4, <2>1, <2>2, <2>3
<1>11. CASE LeaveJob(p)
  <2>1. PICK r : Sets(p, [j EXCEPT !.at = "over", !.returned = r])
    BY <1>1, <1>11 DEF LeaveJob
  <2>2. PICK k : k = [j EXCEPT !.at = "over", !.returned = r]
    OBVIOUS
  <2>3. SameLog(j, k)
    BY <1>2, <2>2 DEF SameLog, Jobs
  <2> QED BY <1>4, <2>1, <2>2, <2>3
<1> QED BY <1>6, <1>7, <1>8, <1>9, <1>10, <1>11

\* The log of one task changes, and perhaps how much its child has printed.
LEMMA LogMoves ==
    ASSUME TaskLogInv, UNCHANGED env, NEW p \in Process, NEW l, logFile' = [logFile EXCEPT ![p] = l],
           \A q \in Process : q # p => job'[q] = job[q],
           env.cli => l = NoLog,
           ~env.cli => /\ TaskLogSound(l, job'[p].printed, env.keep, "log" \in env.events)
                       /\ job'[p].at \notin {"idle", "resolve", "spawn"}
                       /\ job'[p].at = "running" => l.stream # "none"
    PROVE  TaskLogInv'
<1>1. logFile'[p] = l /\ (\A q \in Process : q # p => logFile'[q] = logFile[q]) /\ logFile' = [q \in Process |-> logFile'[q]]
  BY DEF TaskLogInv
<1> QED BY <1>1 DEF TaskLogInv

LEMMA LogSteps ==
    ASSUME JobsInv, TaskLogInv, UNCHANGED env, NEW p \in Process,
           SpawnChild(p) \/ ReadChunk(p) \/ Flush(p) \/ WriteChunk(p) \/ Rotate(p) \/ LogError(p)
    PROVE  TaskLogInv'
<1>1. PICK j, l : j = job[p] /\ l = logFile[p]
  OBVIOUS
<1>2. j \in Jobs(env.markers) /\ j.printed \in Nat /\ JobSound(j)
  <2>1. j \in Jobs(env.markers) /\ JobSound(j)
    BY <1>1, JobTyped
  <2> QED BY <2>1 DEF Jobs
<1>3. env.cli \in BOOLEAN /\ env.keep \in Nat \ {0} /\ Rotation \in Nat \ {0}
  <2>1. env \in Environment
    BY DEF JobsInv
  <2> QED BY <2>1, RunnerSettings
<1>4. PICK n, keep, broken : n = j.printed /\ keep = env.keep /\ broken = ("log" \in env.events)
  OBVIOUS
<1>5. ~env.cli => /\ TaskLogSound(l, n, keep, broken)
                  /\ j.at \in {"idle", "resolve", "spawn"} => l = NoLog
                  /\ j.at = "running" => l.stream # "none"
  BY <1>1, <1>4 DEF TaskLogInv
<1>6. env.cli => l = NoLog
  BY <1>1 DEF TaskLogInv
<1>7. NoLog.stream = "none" /\ NoLog.queue = <<>> /\ NoLog.file = <<>>
  BY DEF NoLog
<1>8. n \in Nat /\ keep \in Nat \ {0}
  BY <1>2, <1>3, <1>4
\* The log is open before the child prints.
<1>9. CASE SpawnChild(p)
  <2>1. CASE Finishes(p, [Ended EXCEPT !.exit = 1]) /\ UNCHANGED logFile
    <3>1. PICK r : r = [Ended EXCEPT !.exit = 1]
      OBVIOUS
    <3>2. PICK k : k = [j EXCEPT !.at = "done", !.result = r]
      OBVIOUS
    <3>3. SameLog(j, k) /\ Sets(p, k)
      BY <1>1, <1>2, <2>1, <3>1, <3>2 DEF SameLog, Jobs, Finishes
    <3>4. \A q \in Process : SameLog(job[q], job'[q])
      BY <1>1, <3>3, JobsElsewhere
    <3> QED BY <2>1, <3>4, LogStays
  <2>2. CASE /\ Sets(p, [job[p] EXCEPT !.at = "running", !.child = "alive"])
             /\ logFile' = [logFile EXCEPT ![p].stream = IF env.cli THEN "none" ELSE "open"]
    <3>1. PICK k : k = [j EXCEPT !.at = "running", !.child = "alive"]
      OBVIOUS
    <3>2. k.at = "running" /\ k.printed = j.printed
      BY <1>2, <3>1 DEF Jobs
    <3>3. job'[p] = k /\ \A q \in Process : q # p => job'[q] = job[q]
      BY <1>1, <2>2, <3>1, JobsElsewhere
    <3>4. PICK stream : stream = IF env.cli THEN "none" ELSE "open"
      OBVIOUS
    <3>5. PICK m : m = [l EXCEPT !.stream = stream]
      OBVIOUS
    <3>6. logFile' = [logFile EXCEPT ![p] = m]
      BY <1>1, <2>2, <3>4, <3>5
    <3>7. env.cli => m = NoLog
      <4>1. [NoLog EXCEPT !.stream = "none"] = NoLog
        BY DEF NoLog
      <4> QED BY <1>6, <3>4, <3>5, <4>1
    <3>8. ~env.cli => TaskLogSound(m, n, keep, broken) /\ m.stream # "none"
      <4> SUFFICES ASSUME ~env.cli PROVE TaskLogSound(m, n, keep, broken) /\ m.stream # "none"
        OBVIOUS
      <4>1. TaskLogSound(l, n, keep, broken) /\ l \in TaskLogs
        BY <1>5 DEF TaskLogSound
      <4>2. m \in TaskLogs
        BY <3>4, <3>5, <4>1 DEF TaskLogs
      <4>3. /\ m.stream = "open" /\ m.evicted = l.evicted /\ m.file = l.file /\ m.queue = l.queue
            /\ m.rotated = l.rotated /\ m.missed = l.missed
        BY <3>4, <3>5, <4>1 DEF TaskLogs
      <4>4. l.stream = "none"
        BY <1>1, <1>5, <1>7, <1>9 DEF SpawnChild
      <4> QED BY <1>8, <4>1, <4>2, <4>3, <4>4, StreamChanges
    <3> QED BY <1>4, <3>2, <3>3, <3>6, <3>7, <3>8, LogMoves
  <2> QED BY <1>9, <2>1, <2>2 DEF SpawnChild
<1>10. CASE ReadChunk(p)
  <2>1. PICK k : Sets(p, k) /\ k.printed = n + 1 /\ k.at = "running"
    <3>1. PICK marker : Sets(p, [j EXCEPT !.printed = n + 1, !.over = j.over \/ j.kept + 1 > MaxBuffer,
                                          !.kept = IF j.over \/ j.kept + 1 > MaxBuffer THEN @ ELSE n + 1,
                                          !.text = IF j.over \/ j.kept + 1 > MaxBuffer THEN @ ELSE @ \cup marker])
      BY <1>1, <1>4, <1>10 DEF ReadChunk
    <3>2. PICK k : k = [j EXCEPT !.printed = n + 1, !.over = j.over \/ j.kept + 1 > MaxBuffer,
                                 !.kept = IF j.over \/ j.kept + 1 > MaxBuffer THEN @ ELSE n + 1,
                                 !.text = IF j.over \/ j.kept + 1 > MaxBuffer THEN @ ELSE @ \cup marker]
      OBVIOUS
    <3>3. k.printed = n + 1 /\ k.at = j.at
      BY <1>2, <3>2 DEF Jobs
    <3> QED BY <1>1, <1>10, <3>1, <3>2, <3>3 DEF ReadChunk
  <2>2. job'[p] = k /\ \A q \in Process : q # p => job'[q] = job[q]
    BY <2>1, JobsElsewhere
  <2>3. PICK m : m = Enqueued(l, n + 1)
    OBVIOUS
  <2>4. logFile' = [logFile EXCEPT ![p] = m]
    BY <1>1, <1>4, <1>10, <2>3 DEF ReadChunk
  <2>5. env.cli => m = NoLog
    BY <1>6, <1>7, <2>3 DEF Enqueued
  <2>6. ~env.cli => TaskLogSound(m, n + 1, keep, broken) /\ m.stream # "none"
    <3>1. j.at = "running"
      BY <1>1, <1>10 DEF ReadChunk
    <3> QED BY <1>5, <1>8, <2>3, <3>1, ChunkArrives
  <2> QED BY <1>4, <2>1, <2>2, <2>4, <2>5, <2>6, LogMoves
<1>11. CASE Flush(p)
  <2>1. PICK k : k = [j EXCEPT !.at = "done"]
    OBVIOUS
  <2>2. Sets(p, k) /\ k.at = "done" /\ k.printed = n
    BY <1>1, <1>2, <1>4, <1>11, <2>1 DEF Jobs, Flush
  <2>3. job'[p] = k /\ \A q \in Process : q # p => job'[q] = job[q]
    BY <2>2, JobsElsewhere
  <2>4. PICK m : m = [l EXCEPT !.stream = "none"]
    OBVIOUS
  <2>5. logFile' = [logFile EXCEPT ![p] = m] /\ l.stream # "rotating"
    BY <1>1, <1>11, <2>4 DEF Flush
  <2>6. env.cli => m = NoLog
    <3>1. [NoLog EXCEPT !.stream = "none"] = NoLog
      BY DEF NoLog
    <3> QED BY <1>6, <2>4, <3>1
  <2>7. ~env.cli => TaskLogSound(m, n, keep, broken)
    <3> SUFFICES ASSUME ~env.cli PROVE TaskLogSound(m, n, keep, broken)
      OBVIOUS
    <3>1. TaskLogSound(l, n, keep, broken) /\ l \in TaskLogs
      BY <1>5 DEF TaskLogSound
    <3>2. m \in TaskLogs
      BY <2>4, <3>1 DEF TaskLogs
    <3>3. /\ m.stream = "none" /\ m.evicted = l.evicted /\ m.file = l.file /\ m.queue = l.queue
          /\ m.rotated = l.rotated /\ m.missed = l.missed
      BY <2>4, <3>1 DEF TaskLogs
    <3> QED BY <1>8, <2>5, <3>1, <3>2, <3>3, StreamChanges
  <2> QED BY <1>4, <2>2, <2>3, <2>5, <2>6, <2>7, LogMoves
\* The other steps write what there is to write, so the child has been started.
<1>12. ASSUME NEW m, logFile' = [logFile EXCEPT ![p] = m], UNCHANGED job, l # NoLog,
              ~env.cli => TaskLogSound(m, n, keep, broken) /\ m.stream # "none"
       PROVE  TaskLogInv'
  <2>1. ~env.cli /\ j.at \notin {"idle", "resolve", "spawn"}
    BY <1>5, <1>6, <1>12
  <2>2. job'[p] = j /\ \A q \in Process : q # p => job'[q] = job[q]
    BY <1>1, <1>12
  <2> QED BY <1>4, <1>12, <2>1, <2>2, LogMoves
<1>13. CASE WriteChunk(p)
  <2>1. l.queue # <<>> /\ l.stream \in {"open", "off"} /\ l # NoLog /\ UNCHANGED job
    BY <1>1, <1>7, <1>13 DEF WriteChunk
  <2>2. PICK m : m = IF l.stream = "off" THEN [l EXCEPT !.queue = Tail(@), !.missed = @ \cup {Head(l.queue)}]
                     ELSE IF l.size + 1 > Rotation THEN [l EXCEPT !.stream = "rotating", !.size = 0]
                     ELSE [l EXCEPT !.queue = Tail(@), !.file = Append(@, Head(l.queue)), !.size = @ + 1]
    OBVIOUS
  <2>3. logFile' = [logFile EXCEPT ![p] = m]
    BY <1>1, <1>13, <2>2 DEF WriteChunk
  <2>4. ~env.cli => TaskLogSound(m, n, keep, broken) /\ m.stream # "none"
    <3>1. ~env.cli => TaskLogSound(l, n, keep, broken)
      BY <1>5
    <3>2. keep \in Nat /\ (l.stream = "open" \/ l.stream = "off")
      BY <1>8, <2>1
    <3> QED BY <1>8, <2>1, <2>2, <3>1, <3>2, ChunkWritten
  <2> QED BY <1>12, <2>1, <2>3, <2>4
<1>14. CASE Rotate(p)
  <2>1. l.stream = "rotating" /\ l # NoLog /\ UNCHANGED job
    BY <1>1, <1>7, <1>14 DEF Rotate
  <2>2. PICK all : all = <<l.file>> \o l.rotated
    OBVIOUS
  <2>3. PICK m : m = RotatedLog(l, all, keep)
    OBVIOUS
  <2>4. logFile' = [logFile EXCEPT ![p] = m]
    BY <1>1, <1>4, <1>14, <2>2, <2>3 DEF Rotate, RotatedLog
  <2>5. ~env.cli => TaskLogSound(m, n, keep, broken) /\ m.stream # "none"
    BY <1>5, <1>8, <2>1, <2>2, <2>3, LogRotates
  <2> QED BY <1>12, <2>1, <2>4, <2>5
<1>15. CASE LogError(p)
  <2>1. l.stream = "open" /\ l.file # <<>> /\ l # NoLog /\ UNCHANGED job /\ broken
    BY <1>1, <1>4, <1>7, <1>15 DEF LogError
  <2>2. PICK m : m = [l EXCEPT !.stream = "off", !.file = Seqs!Front(@), !.missed = @ \cup {Seqs!Last(l.file)}]
    OBVIOUS
  <2>3. logFile' = [logFile EXCEPT ![p] = m]
    <3>1. logFile' = [logFile EXCEPT ![p].stream = "off", ![p].file = Seqs!Front(@), ![p].missed = @ \cup {Seqs!Last(l.file)}]
      BY <1>1, <1>15 DEF LogError
    <3>2. DOMAIN logFile = Process
      BY DEF TaskLogInv
    <3> QED BY <1>1, <2>2, <3>1, <3>2
  <2>4. ~env.cli => TaskLogSound(m, n, keep, broken) /\ m.stream # "none"
    <3>1. keep \in Nat
      BY <1>8
    <3> QED BY <1>5, <1>8, <2>1, <2>2, <3>1, ChunkLost
  <2> QED BY <1>12, <2>1, <2>3, <2>4
<1> QED BY <1>9, <1>10, <1>11, <1>13, <1>14, <1>15

LEMMA LogsStep == JobsInv /\ TaskLogInv /\ [Next]_vars => TaskLogInv'
<1> SUFFICES ASSUME JobsInv, TaskLogInv, [Next]_vars PROVE TaskLogInv'
  OBVIOUS
<1>1. ASSUME UNCHANGED <<env, job, logFile>> PROVE TaskLogInv'
  BY <1>1 DEF TaskLogInv
<1>2. CASE UNCHANGED vars
  BY <1>1, <1>2 DEF vars, runnerVars
<1>3. CASE Next
  <2>1. UNCHANGED env
    BY <1>3 DEF Next
  <2>2. CASE UNCHANGED runnerVars
    BY <1>1, <2>1, <2>2 DEF runnerVars
  <2>3. ASSUME NEW p \in Process,
               \/ BeginJob(p) \/ Resolve(p) \/ ExitChild(p) \/ TimeOut(p) \/ KillChild(p) \/ CloseChild(p) \/ LeaveJob(p)
        PROVE  TaskLogInv'
    BY <2>1, <2>3, SilentJob
  <2>4. ASSUME NEW p \in Process, SpawnChild(p) \/ ReadChunk(p) \/ Flush(p) \/ WriteChunk(p) \/ Rotate(p) \/ LogError(p)
        PROVE  TaskLogInv'
    BY <2>1, <2>4, LogSteps
  <2> QED BY <1>3, <2>2, <2>3, <2>4 DEF Next, RunnerNext
<1> QED BY <1>2, <1>3

LEMMA LogsFollow == JobsInv /\ TaskLogInv => LogTrue
<1> SUFFICES ASSUME JobsInv, TaskLogInv, ~env.cli, NEW p \in Process, NEW l, l = logFile[p]
    PROVE  /\ LogOrdered(l)
           /\ \A n \in 0..(MaxChunks + 1) : InLog(l, n) <=> n \in 1..job[p].printed /\ n \notin l.missed
           /\ l.missed # {} => l.rotated # <<>> \/ l.stream = "rotating" \/ "log" \in env.events
           /\ Len(l.rotated) <= env.keep
  BY DEF LogTrue
<1>1. TaskLogSound(l, job[p].printed, env.keep, "log" \in env.events)
  BY DEF TaskLogInv
<1>2. \A n \in 0..(MaxChunks + 1) : n \in Nat
  BY RunnerSettings
<1> QED BY <1>1, <1>2 DEF TaskLogSound

(***************************************************************************)
(* For any timers, signals, output and rotation: a task is completed only  *)
(* by a child that exited with 0 in time, a timeout is never taken for     *)
(* anything else, the CLI adapter has one child at most, and the log has   *)
(* what the child printed, in order, but for what rotations and errors are *)
(* allowed to lose.                                                        *)
(* (execute, runProcess, buildResult, normalizeResult, rotateLogFiles)     *)
(***************************************************************************)
THEOREM TasksTrue == Spec => []RunnerAgrees
<1>1. Init => JobsInv /\ TaskLogInv
  BY JobsStart, LogsStart
<1>2. JobsInv /\ TaskLogInv /\ [Next]_vars => (JobsInv /\ TaskLogInv)'
  BY JobsStep, LogsStep
<1>3. JobsInv /\ TaskLogInv => RunnerAgrees
  BY JobsFollow, LogsFollow DEF RunnerAgrees
<1> QED BY <1>1, <1>2, <1>3, PTL DEF Spec
-----------------------------------------------------------------------------
(* Linear.tla *)

LEMMA ItemAdded ==
    ASSUME NEW S, NEW some \in Seq(S), NEW x \in S, NEW more, more = Append(some, x), NEW n, n = Len(some) + 1
    PROVE  /\ more \in Seq(S) /\ Len(more) = n /\ DOMAIN more = DOMAIN some \cup {n} /\ more[n] = x
           /\ n \in Nat /\ n \notin DOMAIN some /\ \A k \in DOMAIN some : more[k] = some[k]
OBVIOUS

Replacement == [part : {"issue", "comments"}, version : Nat, at : Nat]
IssueVersions == [issue : Nat, comments : Nat, replaced : Seq(Replacement)]
IssueSnapshot == [kind : {"snapshot"}, issue : Nat, comments : Nat, at : Nat]
IssueReader ==
    [at : {"idle", "issue", "comments", "save", "saving", "returned", "fallback", "failed"},
     mode : {"normal", "forceRefresh", "noCache"}, issue : Nat, result : IssueSnapshot \cup {NoSnapshot}, stale : BOOLEAN]
SentRequest == [by : Process \cup {Nobody}, at : Nat]

LinearTyped ==
    /\ issue \in IssueVersions
    /\ snapshot \in IssueSnapshot \cup {NoSnapshot, TornSnapshot}
    /\ reader \in [Process -> IssueReader]
    /\ sent \in Seq(SentRequest)
    /\ requests \in [Process -> SUBSET Nat]
    /\ hour \in Nat

\* An adapter remembers what it sent in the window, and that is within its budget.
RequestsCounted ==
    \A p \in Process :
        /\ requests[p] \subseteq DOMAIN sent
        /\ \A n \in DOMAIN sent : sent[n].by = p /\ sent[n].at >= hour - Window => n \in requests[p]
        /\ Cardinality(Trimmed(p)) <= Budget

\* Only older versions were replaced.
OlderReplaced ==
    \A k \in DOMAIN issue.replaced :
        LET x == issue.replaced[k]
        IN  /\ x.part = "issue" => x.version < issue.issue
            /\ x.part = "comments" => x.version < issue.comments

\* A version was on Linear until an hour, and those of a snapshot when it was fetched.
ThereUntil(part, version, h) ==
    \A k \in DOMAIN issue.replaced :
        issue.replaced[k].part = part /\ issue.replaced[k].version = version => issue.replaced[k].at >= h
FetchedThen(s) == s.at <= hour /\ ThereUntil("issue", s.issue, s.at) /\ ThereUntil("comments", s.comments, s.at)

SnapshotTrue == snapshot.kind = "snapshot" /\ "slow" \notin env.events => FetchedThen(snapshot)

ReaderTrue(r) ==
    /\ r.stale => r.at = "returned" /\ r.mode # "noCache"
    /\ r.at \in {"save", "saving", "returned"} => r.result \in IssueSnapshot
    /\ "slow" \notin env.events =>
        /\ r.at = "comments" => ThereUntil("issue", r.issue, hour)
        /\ r.at \in {"save", "saving", "returned"} /\ ~r.stale => FetchedThen(r.result) /\ hour - r.result.at < Ttl

ReadersTrue == \A p \in Process : ReaderTrue(reader[p])

LinearInv == LinearTyped /\ RequestsCounted /\ OlderReplaced /\ SnapshotTrue /\ ReadersTrue

LEMMA SnapshotKinds ==
    /\ \A s \in IssueSnapshot : s.kind = "snapshot"
    /\ NoSnapshot.kind = "none" /\ TornSnapshot.kind = "torn" /\ NoSnapshot # TornSnapshot
    /\ NoSnapshot \notin IssueSnapshot /\ TornSnapshot \notin IssueSnapshot
<1>1. NoSnapshot.kind = "none" /\ TornSnapshot.kind = "torn"
  BY DEF NoSnapshot, TornSnapshot
<1>2. \A s \in IssueSnapshot : s.kind = "snapshot"
  BY DEF IssueSnapshot
<1> QED BY <1>1, <1>2

LEMMA IdleReaderIs ==
    /\ IdleReader \in IssueReader /\ IdleReader.at = "idle" /\ IdleReader.stale = FALSE /\ IdleReader.mode = "normal"
    /\ IdleReader.result = NoSnapshot /\ IdleReader.issue = 0
BY DEF IdleReader, IssueReader

LEMMA LinearStart == Init => LinearInv
<1> SUFFICES ASSUME Init PROVE LinearInv
  OBVIOUS
<1>1. /\ issue = [issue |-> 0, comments |-> 0, replaced |-> <<>>]
      /\ snapshot = NoSnapshot /\ reader = [p \in Process |-> IdleReader]
      /\ sent = <<>> /\ requests = [p \in Process |-> {}] /\ hour = 0
  BY DEF Init, LinearInit
<1>2. \A p \in Process : reader[p] = IdleReader
  BY <1>1
<1>3. LinearTyped
  <2>1. issue \in IssueVersions
    <3>1. <<>> \in Seq(Replacement)
      OBVIOUS
    <3> QED BY <1>1, <3>1 DEF IssueVersions
  <2>2. sent \in Seq(SentRequest)
    BY <1>1
  <2> QED BY <1>1, <2>1, <2>2, IdleReaderIs DEF LinearTyped
<1>4. RequestsCounted
  <2>1. DOMAIN sent = {}
    BY <1>1
  <2>2. ASSUME NEW p \in Process PROVE requests[p] = {} /\ Cardinality(Trimmed(p)) = 0
    <3>1. requests[p] = {}
      BY <1>1
    <3>2. Trimmed(p) = {}
      BY <3>1 DEF Trimmed
    <3> QED BY <3>1, <3>2, FS_EmptySet
  <2> QED BY <2>1, <2>2, LinearAssumption DEF RequestsCounted
<1>5. OlderReplaced
  <2>1. issue.replaced = <<>>
    BY <1>1
  <2> QED BY <2>1 DEF OlderReplaced
<1>6. SnapshotTrue
  BY <1>1, SnapshotKinds DEF SnapshotTrue
<1>7. ReadersTrue
  BY <1>2, IdleReaderIs DEF ReadersTrue, ReaderTrue
<1> QED BY <1>3, <1>4, <1>5, <1>6, <1>7 DEF LinearInv

\* What executeGraphQL does to the count of requests.
Spends(p) ==
    \/ /\ Headroom(p)
       /\ sent' = Append(sent, [by |-> p, at |-> hour])
       /\ requests' = [requests EXCEPT ![p] = Trimmed(p) \cup {Len(sent')}]
    \/ requests' = [requests EXCEPT ![p] = Trimmed(p)] /\ UNCHANGED sent

LEMMA TrimmedIs ==
    ASSUME LinearTyped, RequestsCounted, NEW p \in Process
    PROVE  /\ IsFiniteSet(Trimmed(p)) /\ Cardinality(Trimmed(p)) \in Nat
           /\ Trimmed(p) \subseteq DOMAIN sent /\ DOMAIN sent = 1..Len(sent) /\ Len(sent) \in Nat
<1>1. DOMAIN sent = 1..Len(sent) /\ Len(sent) \in Nat
  BY DEF LinearTyped
<1>2. Trimmed(p) \subseteq 1..Len(sent)
  BY <1>1 DEF Trimmed, RequestsCounted
<1>3. IsFiniteSet(1..Len(sent))
  BY <1>1, FS_Interval
<1> QED BY <1>1, <1>2, <1>3, FS_Subset, FS_CardinalityType

LEMMA RequestsSpent ==
    ASSUME LinearTyped, RequestsCounted, NEW p \in Process, Spends(p), hour' = hour
    PROVE  sent' \in Seq(SentRequest) /\ requests' \in [Process -> SUBSET Nat] /\ RequestsCounted'
<1>1. DOMAIN sent = 1..Len(sent) /\ Len(sent) \in Nat /\ hour \in Nat /\ requests \in [Process -> SUBSET Nat]
  BY DEF LinearTyped
<1>2. Trimmed(p) \subseteq DOMAIN sent /\ IsFiniteSet(Trimmed(p)) /\ Cardinality(Trimmed(p)) \in Nat
  BY TrimmedIs
<1>3. CASE /\ Headroom(p) /\ sent' = Append(sent, [by |-> p, at |-> hour])
           /\ requests' = [requests EXCEPT ![p] = Trimmed(p) \cup {Len(sent')}]
  <2> PICK x : x = [by |-> p, at |-> hour]
    OBVIOUS
  <2> PICK n : n = Len(sent) + 1
    OBVIOUS
  <2>1. x \in SentRequest /\ x.by = p /\ x.at = hour
    BY <1>1 DEF SentRequest
  <2>2. /\ sent' \in Seq(SentRequest) /\ Len(sent') = n /\ DOMAIN sent' = DOMAIN sent \cup {n} /\ sent'[n] = x
        /\ \A k \in DOMAIN sent : sent'[k] = sent[k] /\ k # n
    BY <1>3, <2>1 DEF LinearTyped
  <2>3. requests' \in [Process -> SUBSET Nat] /\ requests'[p] = Trimmed(p) \cup {n}
    BY <1>1, <1>2, <1>3, <2>2
  <2>4. \A q \in Process : q # p => requests'[q] = requests[q]
    BY <1>1, <1>3
  <2>5. ASSUME NEW q \in Process
        PROVE  /\ requests'[q] \subseteq DOMAIN sent'
               /\ \A k \in DOMAIN sent' : sent'[k].by = q /\ sent'[k].at >= hour' - Window => k \in requests'[q]
               /\ Cardinality(Trimmed(q))' <= Budget
    <3>1. CASE q = p
      <4>1. Trimmed(q)' = Trimmed(p) \cup {n}
        <5>1. hour >= hour - Window
          BY <1>1, LinearAssumption
        <5>2. \A k : k \in Trimmed(q)' <=> k \in requests'[p] /\ sent'[k].at >= hour - Window
          BY <3>1 DEF Trimmed
        <5>3. \A k \in Trimmed(p) : sent'[k].at >= hour - Window
          BY <1>2, <2>2 DEF Trimmed
        <5>4. sent'[n].at >= hour - Window
          BY <2>1, <2>2, <5>1
        <5>5. \A k : k \in Trimmed(q)' <=> k \in Trimmed(p) \cup {n}
          BY <2>3, <5>2, <5>3, <5>4
        <5> QED BY <5>5
      <4>2. Cardinality(Trimmed(p) \cup {n}) = Cardinality(Trimmed(p)) + 1
        BY <1>2, <2>2, FS_AddElement
      <4>3. Cardinality(Trimmed(p)) + 1 <= Budget
        BY <1>2, <1>3, LinearAssumption DEF Headroom
      <4>4. Cardinality(Trimmed(p) \cup {n}) \in Nat
        BY <1>2, FS_AddElement, FS_CardinalityType
      <4>5. Cardinality(Trimmed(q))' <= Budget
        BY <1>2, <4>1, <4>2, <4>3, <4>4, LinearAssumption
      <4>6. \A k \in DOMAIN sent : sent[k].by = p /\ sent[k].at >= hour - Window => k \in Trimmed(p)
        BY DEF Trimmed, RequestsCounted
      <4> QED BY <1>2, <2>2, <2>3, <3>1, <4>5, <4>6
    <3>2. CASE q # p
      <4>1. requests'[q] = requests[q] /\ requests[q] \subseteq DOMAIN sent
        BY <2>4, <3>2 DEF RequestsCounted
      <4>2. \A k : k \in Trimmed(q)' <=> k \in Trimmed(q)
        BY <2>2, <4>1 DEF Trimmed
      <4>3. Trimmed(q)' = Trimmed(q)
        BY <4>2
      <4>4. Cardinality(Trimmed(q))' = Cardinality(Trimmed(q))
        BY <4>3
      <4>5. sent'[n].by # q
        BY <2>1, <2>2, <3>2
      <4> QED BY <2>2, <4>1, <4>4, <4>5 DEF RequestsCounted
    <3> QED BY <3>1, <3>2
  <2> QED BY <2>2, <2>3, <2>5 DEF RequestsCounted
<1>4. CASE requests' = [requests EXCEPT ![p] = Trimmed(p)] /\ UNCHANGED sent
  <2>1. requests' \in [Process -> SUBSET Nat] /\ requests'[p] = Trimmed(p) /\ \A q \in Process : q # p => requests'[q] = requests[q]
    BY <1>1, <1>2, <1>4
  <2>2. ASSUME NEW q \in Process
        PROVE  /\ requests'[q] \subseteq DOMAIN sent'
               /\ \A k \in DOMAIN sent' : sent'[k].by = q /\ sent'[k].at >= hour' - Window => k \in requests'[q]
               /\ Cardinality(Trimmed(q))' <= Budget
    <3>1. \A k : k \in Trimmed(q)' <=> k \in Trimmed(q)
      <4>1. CASE q = p
        BY <1>4, <2>1, <4>1 DEF Trimmed
      <4>2. CASE q # p
        BY <1>4, <2>1, <4>2 DEF Trimmed
      <4> QED BY <4>1, <4>2
    <3>2. Trimmed(q)' = Trimmed(q)
      BY <3>1
    <3>3. Cardinality(Trimmed(q))' = Cardinality(Trimmed(q))
      BY <3>2
    <3>4. \A k \in DOMAIN sent : sent[k].by = q /\ sent[k].at >= hour - Window => k \in Trimmed(q)
      BY DEF Trimmed, RequestsCounted
    <3>5. requests'[q] \in {requests[q], Trimmed(q)}
      BY <2>1
    <3>6. Trimmed(q) \subseteq requests[q]
      BY DEF Trimmed
    <3> QED BY <1>4, <3>3, <3>4, <3>5, <3>6 DEF RequestsCounted
  <2>3. sent' \in Seq(SentRequest)
    BY <1>4 DEF LinearTyped
  <2> QED BY <2>1, <2>2, <2>3 DEF RequestsCounted
<1> QED BY <1>3, <1>4 DEF Spends

NewVersion(v, part, n) == [v EXCEPT ![part] = n]
Replaces(v, part, h) == [v EXCEPT ![part] = @ + 1, !.replaced = Append(@, [part |-> part, version |-> v[part], at |-> h])]
NewerThan(j, v, h) ==
    /\ j.issue >= v.issue /\ j.comments >= v.comments
    /\ \E n : /\ DOMAIN j.replaced = DOMAIN v.replaced \cup {n}
              /\ \A k \in DOMAIN v.replaced : j.replaced[k] = v.replaced[k]
              /\ j.replaced[n].at = h
              /\ j.replaced[n].part = "issue" => j.replaced[n].version < j.issue
              /\ j.replaced[n].part = "comments" => j.replaced[n].version < j.comments

LEMMA PartChanged ==
    ASSUME NEW v \in IssueVersions, NEW part \in {"issue", "comments"}, NEW n \in Nat, NEW i, i = NewVersion(v, part, n)
    PROVE  /\ i \in IssueVersions /\ i.replaced = v.replaced
           /\ part = "issue" => i.issue = n /\ i.comments = v.comments
           /\ part = "comments" => i.comments = n /\ i.issue = v.issue
<1>1. CASE part = "issue"
  <2>1. i = [v EXCEPT !.issue = n]
    BY <1>1 DEF NewVersion
  <2> QED BY <1>1, <2>1 DEF IssueVersions
<1>2. CASE part = "comments"
  <2>1. i = [v EXCEPT !.comments = n]
    BY <1>2 DEF NewVersion
  <2> QED BY <1>2, <2>1 DEF IssueVersions
<1> QED BY <1>1, <1>2

\* A version that is replaced is added to those that were, and there is a newer one.
LEMMA VersionReplaced ==
    ASSUME NEW v \in IssueVersions, NEW part \in {"issue", "comments"}, NEW h \in Nat
    PROVE  Replaces(v, part, h) \in IssueVersions /\ NewerThan(Replaces(v, part, h), v, h)
<1>1. v.issue \in Nat /\ v.comments \in Nat
  BY DEF IssueVersions
<1>2. PICK m \in Nat : m = v[part]
  BY <1>1
<1>3. PICK x : x = [part |-> part, version |-> m, at |-> h]
  OBVIOUS
<1>4. x \in Replacement /\ x.part = part /\ x.version = m /\ x.at = h
  BY <1>3 DEF Replacement
<1>6. PICK m1 \in Nat : m1 = m + 1 /\ m < m1
  OBVIOUS
<1>5. PICK i : i = NewVersion(v, part, m1)
  OBVIOUS
<1>7. /\ i \in IssueVersions /\ i.replaced = v.replaced
      /\ part = "issue" => i.issue = m1 /\ i.comments = v.comments
      /\ part = "comments" => i.comments = m1 /\ i.issue = v.issue
  BY <1>5, PartChanged
<1>8. PICK old \in Seq(Replacement) : old = v.replaced
  BY DEF IssueVersions
<1>9. PICK more : more = Append(old, x)
  OBVIOUS
<1>10. PICK n : n = Len(old) + 1
  OBVIOUS
<1>11. /\ more \in Seq(Replacement) /\ DOMAIN more = DOMAIN old \cup {n} /\ more[n] = x
       /\ \A k \in DOMAIN old : more[k] = old[k]
  BY <1>4, <1>9, <1>10, ItemAdded
<1>12. PICK z : z = [i EXCEPT !.replaced = more]
  OBVIOUS
<1>13. z \in IssueVersions /\ z.replaced = more /\ z.issue = i.issue /\ z.comments = i.comments
  BY <1>7, <1>11, <1>12 DEF IssueVersions
<1>14. z = Replaces(v, part, h)
  <2>1. z = [v EXCEPT ![part] = m1, !.replaced = more]
    BY <1>5, <1>12 DEF IssueVersions, NewVersion
  <2>2. more = Append(v.replaced, [part |-> part, version |-> v[part], at |-> h])
    BY <1>2, <1>3, <1>8, <1>9
  <2>3. CASE part = "issue"
    <3>1. [v EXCEPT ![part] = @ + 1, !.replaced = Append(@, [part |-> part, version |-> v[part], at |-> h])]
            = [v EXCEPT ![part] = m1, !.replaced = more]
      BY <1>2, <1>6, <2>2, <2>3 DEF IssueVersions
    <3> QED BY <2>1, <3>1 DEF Replaces
  <2>4. CASE part = "comments"
    <3>1. [v EXCEPT ![part] = @ + 1, !.replaced = Append(@, [part |-> part, version |-> v[part], at |-> h])]
            = [v EXCEPT ![part] = m1, !.replaced = more]
      BY <1>2, <1>6, <2>2, <2>4 DEF IssueVersions
    <3> QED BY <2>1, <3>1 DEF Replaces
  <2> QED BY <2>3, <2>4
<1>15. (part = "issue" => m = v.issue) /\ (part = "comments" => m = v.comments)
  BY <1>2
<1>16. z.issue >= v.issue /\ z.comments >= v.comments
  BY <1>1, <1>6, <1>7, <1>13, <1>15
<1>17. /\ part = "issue" => m < z.issue
       /\ part = "comments" => m < z.comments
  BY <1>6, <1>7, <1>13
<1>18. /\ DOMAIN z.replaced = DOMAIN v.replaced \cup {n}
       /\ \A k \in DOMAIN v.replaced : z.replaced[k] = v.replaced[k]
       /\ z.replaced[n] = x
  BY <1>8, <1>11, <1>13
<1>19. NewerThan(z, v, h)
  BY <1>4, <1>16, <1>17, <1>18 DEF NewerThan
<1> QED BY <1>13, <1>14, <1>19

\* A version that is replaced now was there until now; those replaced before stay replaced.
LEMMA IssueChanged ==
    ASSUME LinearTyped, OlderReplaced, NEW part \in {"issue", "comments"}, issue' = issue \/ issue' = Changed(part), hour' = hour
    PROVE  /\ issue' \in IssueVersions /\ OlderReplaced'
           /\ \A pt, v, h : h \in Nat /\ h <= hour /\ ThereUntil(pt, v, h) => ThereUntil(pt, v, h)'
<1>1. CASE issue' = issue
  BY <1>1 DEF LinearTyped, OlderReplaced, ThereUntil
<1>2. CASE issue' = Changed(part)
  <2>0. PICK v \in IssueVersions : v = issue
    BY DEF LinearTyped
  <2>1. PICK now1 \in Nat : now1 = hour
    BY DEF LinearTyped
  <2>2. issue' = Replaces(v, part, now1)
    BY <1>2, <2>0, <2>1 DEF Changed, Replaces
  <2>3. PICK j \in IssueVersions :
        j = Replaces(v, part, now1) /\ NewerThan(j, v, now1)
    BY VersionReplaced
  <2>12. issue' = j
    BY <2>2, <2>3
  <2>10. PICK old \in Seq(Replacement) : old = v.replaced
    BY DEF IssueVersions
  <2>11. PICK new : new = j.replaced
    OBVIOUS
  <2>4. PICK n : /\ DOMAIN new = DOMAIN old \cup {n} /\ \A k \in DOMAIN old : new[k] = old[k]
                 /\ new[n].at = now1
                 /\ new[n].part = "issue" => new[n].version < j.issue
                 /\ new[n].part = "comments" => new[n].version < j.comments
    BY <2>3, <2>10, <2>11 DEF NewerThan
  <2>5. \A k \in DOMAIN old : /\ old[k].part = "issue" => old[k].version < v.issue
                              /\ old[k].part = "comments" => old[k].version < v.comments
    BY <2>0, <2>10 DEF OlderReplaced
  <2>6. ASSUME NEW k \in DOMAIN old PROVE old[k].version \in Nat
    <3>1. old[k] \in Replacement
      OBVIOUS
    <3> QED BY <3>1 DEF Replacement
  <2>7. v.issue \in Nat /\ v.comments \in Nat /\ j.issue \in Nat /\ j.comments \in Nat
    BY <2>3 DEF IssueVersions
  <2>8. \A k \in DOMAIN new : /\ new[k].part = "issue" => new[k].version < j.issue
                              /\ new[k].part = "comments" => new[k].version < j.comments
    <3> TAKE k \in DOMAIN new
    <3>1. CASE k = n
      BY <2>4, <3>1
    <3>2. CASE k \in DOMAIN old
      <4>1. new[k] = old[k] /\ old[k].version \in Nat
        BY <2>4, <2>6, <3>2
      <4>2. old[k].part = "issue" => old[k].version < j.issue
        BY <2>3, <2>5, <2>7, <3>2, <4>1 DEF NewerThan
      <4>3. old[k].part = "comments" => old[k].version < j.comments
        BY <2>3, <2>5, <2>7, <3>2, <4>1 DEF NewerThan
      <4> QED BY <4>1, <4>2, <4>3
    <3> QED BY <2>4, <3>1, <3>2
  <2>9. ASSUME NEW pt, NEW x, NEW h \in Nat, h <= hour, ThereUntil(pt, x, h) PROVE ThereUntil(pt, x, h)'
    <3>1. \A k \in DOMAIN old : old[k].part = pt /\ old[k].version = x => old[k].at >= h
      BY <2>0, <2>9, <2>10 DEF ThereUntil
    <3>2. now1 >= h
      BY <2>1, <2>9
    <3>3. \A k \in DOMAIN new : new[k].part = pt /\ new[k].version = x => new[k].at >= h
      BY <2>4, <3>1, <3>2
    <3> QED BY <2>11, <2>12, <3>3 DEF ThereUntil
  <2> QED BY <2>8, <2>9, <2>11, <2>12 DEF OlderReplaced
<1> QED BY <1>1, <1>2

\* What a change of the issue leaves of the snapshots.
LEMMA FetchesStay ==
    ASSUME LinearTyped, OlderReplaced, NEW part \in {"issue", "comments"}, issue' = issue \/ issue' = Changed(part), hour' = hour
    PROVE  /\ \A s \in IssueSnapshot : FetchedThen(s) => FetchedThen(s)'
           /\ \A r \in IssueReader : env' = env /\ ReaderTrue(r) => ReaderTrue(r)'
<1>1. \A pt, v, h : h \in Nat /\ h <= hour /\ ThereUntil(pt, v, h) => ThereUntil(pt, v, h)'
  BY IssueChanged
<1>2. hour \in Nat
  BY DEF LinearTyped
<1>3. ASSUME NEW s \in IssueSnapshot, FetchedThen(s) PROVE FetchedThen(s)'
  <2>1. s.at \in Nat
    BY DEF IssueSnapshot
  <2> QED BY <1>1, <1>3, <2>1 DEF FetchedThen
<1>4. ASSUME NEW r \in IssueReader, env' = env, ReaderTrue(r) PROVE ReaderTrue(r)'
  <2>1. ThereUntil("issue", r.issue, hour) => ThereUntil("issue", r.issue, hour)'
    BY <1>1, <1>2
  <2>2. r.at \in {"save", "saving", "returned"} => r.result \in IssueSnapshot
    BY <1>4 DEF ReaderTrue
  <2>3. r.at \in {"save", "saving", "returned"} /\ FetchedThen(r.result) => FetchedThen(r.result)'
    BY <1>3, <2>2
  <2> QED BY <1>4, <2>1, <2>2, <2>3 DEF ReaderTrue
<1> QED BY <1>3, <1>4

CacheMoves(j) == snapshot' \in {snapshot, TornSnapshot} \/ (snapshot' = j.result /\ j.at = "returned" /\ ~j.stale)
SpendsOrNot(p) == Spends(p) \/ UNCHANGED <<sent, requests>>

\* A step of one reader: what it has now is true, and the cache.
LEMMA ReaderMoves ==
    ASSUME LinearInv, env' = env, hour' = hour, issue' = issue, NEW p \in Process, NEW j \in IssueReader, ReaderTrue(j),
           reader' = [reader EXCEPT ![p] = j], CacheMoves(j), SpendsOrNot(p)
    PROVE  LinearInv'
<1>1. LinearTyped /\ RequestsCounted /\ OlderReplaced /\ SnapshotTrue /\ ReadersTrue
  BY DEF LinearInv
<1>2. sent' \in Seq(SentRequest) /\ requests' \in [Process -> SUBSET Nat] /\ RequestsCounted'
  <2>1. CASE Spends(p)
    BY <1>1, <2>1, RequestsSpent
  <2>2. CASE UNCHANGED <<sent, requests>>
    <3>1. \A q \in Process : Trimmed(q)' = Trimmed(q)
      BY <2>2 DEF Trimmed
    <3>2. \A q \in Process : Cardinality(Trimmed(q))' = Cardinality(Trimmed(q))
      BY <3>1
    <3> QED BY <1>1, <2>2, <3>2 DEF LinearTyped, RequestsCounted
  <2> QED BY <2>1, <2>2 DEF SpendsOrNot
<1>3. /\ reader' \in [Process -> IssueReader] /\ reader'[p] = j
      /\ \A q \in Process : q # p => reader'[q] = reader[q]
  BY <1>1 DEF LinearTyped
<1>4. /\ \A s \in IssueSnapshot : FetchedThen(s) => FetchedThen(s)'
      /\ \A r \in IssueReader : ReaderTrue(r) => ReaderTrue(r)'
  BY <1>1, FetchesStay
<1>5. ReaderTrue(j)'
  BY <1>4
<1>6. ReadersTrue'
  <2>1. ASSUME NEW q \in Process, NEW r, r = reader'[q] PROVE ReaderTrue(r)'
    <3>1. CASE q = p
      BY <1>3, <1>5, <2>1, <3>1
    <3>2. CASE q # p
      <4>1. r = reader[q] /\ r \in IssueReader
        BY <1>1, <1>3, <2>1, <3>2 DEF LinearTyped
      <4> QED BY <1>1, <1>4, <4>1 DEF ReadersTrue
    <3> QED BY <3>1, <3>2
  <2>2. \A q \in Process : \A r : r = reader'[q] => ReaderTrue(r)'
    BY <2>1
  <2> QED BY <2>2 DEF ReadersTrue, ReaderTrue, FetchedThen, ThereUntil
<1>7. snapshot' \in IssueSnapshot \cup {NoSnapshot, TornSnapshot} /\ SnapshotTrue'
  <2>1. CASE snapshot' = snapshot
    <3>1. snapshot.kind = "snapshot" => snapshot \in IssueSnapshot
      BY <1>1, SnapshotKinds DEF LinearTyped
    <3> QED BY <1>1, <1>4, <2>1, <3>1 DEF LinearTyped, SnapshotTrue, FetchedThen, ThereUntil
  <2>2. CASE snapshot' = TornSnapshot
    BY <2>2, SnapshotKinds DEF SnapshotTrue
  <2>3. CASE snapshot' = j.result /\ j.at = "returned" /\ ~j.stale
    <3>1. j.at = "returned" /\ ~j.stale
      BY <2>3
    <3>2. j.result \in IssueSnapshot
      BY <3>1 DEF ReaderTrue
    <3>3. "slow" \notin env.events => FetchedThen(j.result)'
      BY <1>4, <3>1, <3>2 DEF ReaderTrue
    <3> QED BY <2>3, <3>2, <3>3 DEF SnapshotTrue, FetchedThen, ThereUntil
  <2> QED BY <2>1, <2>2, <2>3 DEF CacheMoves
<1>8. issue' \in IssueVersions /\ hour' \in Nat /\ OlderReplaced'
  BY <1>1 DEF LinearTyped, OlderReplaced
<1> QED BY <1>2, <1>3, <1>6, <1>7, <1>8 DEF LinearInv, LinearTyped

\* The same of a step that leaves the cache alone.
LEMMA ReaderStays ==
    ASSUME LinearInv, env' = env, UNCHANGED <<issue, snapshot, hour>>, NEW p \in Process, NEW j \in IssueReader, ReaderTrue(j),
           reader' = [reader EXCEPT ![p] = j], SpendsOrNot(p)
    PROVE  LinearInv'
<1>1. hour' = hour /\ issue' = issue /\ CacheMoves(j)
  BY DEF CacheMoves
<1> QED BY <1>1, ReaderMoves

\* What is on Linear now was not replaced.
LEMMA NewestIsThere ==
    ASSUME LinearTyped, OlderReplaced
    PROVE  ThereUntil("issue", issue.issue, hour) /\ ThereUntil("comments", issue.comments, hour)
<1>1. issue.issue \in Nat /\ issue.comments \in Nat
  BY DEF LinearTyped, IssueVersions
<1>2. \A k \in DOMAIN issue.replaced :
        /\ issue.replaced[k].part = "issue" => issue.replaced[k].version # issue.issue
        /\ issue.replaced[k].part = "comments" => issue.replaced[k].version # issue.comments
  BY <1>1 DEF OlderReplaced
<1> QED BY <1>2 DEF ThereUntil

LEMMA CachedIs ==
    ASSUME LinearInv, Cached # NoSnapshot
    PROVE  Cached = snapshot /\ snapshot \in IssueSnapshot /\ ("slow" \notin env.events => FetchedThen(Cached))
<1>1. Cached = snapshot /\ snapshot.kind = "snapshot"
  BY DEF Cached
<1>2. snapshot \in IssueSnapshot
  BY <1>1, SnapshotKinds DEF LinearInv, LinearTyped
<1> QED BY <1>1, <1>2 DEF LinearInv, SnapshotTrue

LEMMA SnapshotBegins ==
    ASSUME LinearInv, env' = env, NEW p \in Process, NEW mode \in {"normal", "forceRefresh", "noCache"}, BeginSnapshot(p, mode)
    PROVE  LinearInv'
<1> PICK i : i = [IdleReader EXCEPT !.mode = mode]
  OBVIOUS
<1>1. i \in IssueReader /\ i.stale = FALSE /\ i.mode = mode /\ i.result = NoSnapshot
  BY IdleReaderIs DEF IssueReader
<1>2. UNCHANGED <<issue, snapshot, sent, requests, hour>>
  BY DEF BeginSnapshot
<1>3. CASE mode = "normal" /\ ValidSnapshot(Cached)
  <2> PICK k : k = [i EXCEPT !.at = "returned"]
    OBVIOUS
  <2> PICK j : j = [k EXCEPT !.result = Cached]
    OBVIOUS
  <2>1. Cached # NoSnapshot /\ hour - Cached.at < Ttl
    BY <1>3 DEF ValidSnapshot
  <2>2. Cached \in IssueSnapshot /\ ("slow" \notin env.events => FetchedThen(Cached))
    BY <2>1, CachedIs
  <2>3. k \in IssueReader /\ k.at = "returned" /\ k.stale = FALSE
    BY <1>1 DEF IssueReader
  <2>4. j \in IssueReader /\ j.at = "returned" /\ j.stale = FALSE /\ j.result = Cached
    BY <2>2, <2>3 DEF IssueReader
  <2>5. ReaderTrue(j)
    BY <2>1, <2>2, <2>4 DEF ReaderTrue
  <2>6. reader' = [reader EXCEPT ![p] = j]
    <3>1. j = [i EXCEPT !.at = "returned", !.result = Cached]
      BY <1>1 DEF IssueReader
    <3> QED BY <1>3, <3>1 DEF BeginSnapshot, Read
  <2> QED BY <1>2, <2>4, <2>5, <2>6, ReaderMoves DEF CacheMoves, SpendsOrNot
<1>4. CASE ~(mode = "normal" /\ ValidSnapshot(Cached))
  <2> PICK j : j = [i EXCEPT !.at = "issue"]
    OBVIOUS
  <2>1. j \in IssueReader /\ j.at = "issue" /\ j.stale = FALSE /\ j.result = NoSnapshot
    BY <1>1 DEF IssueReader
  <2>2. ReaderTrue(j)
    BY <2>1 DEF ReaderTrue
  <2>3. reader' = [reader EXCEPT ![p] = j]
    BY <1>4 DEF BeginSnapshot, Read
  <2> QED BY <1>2, <2>1, <2>2, <2>3, ReaderStays DEF SpendsOrNot
<1> QED BY <1>3, <1>4

\* A request is made or refused, and the operation goes on or fails.
LEMMA ReaderFails ==
    ASSUME LinearInv, env' = env, NEW p \in Process, UNCHANGED <<issue, snapshot, hour>>, Spends(p),
           reader[p].at \in {"issue", "comments"}, reader' = [reader EXCEPT ![p] = [reader[p] EXCEPT !.at = "fallback"]]
    PROVE  LinearInv'
<1> PICK r \in IssueReader : r = reader[p]
  BY DEF LinearInv, LinearTyped
<1> PICK j : j = [r EXCEPT !.at = "fallback"]
  OBVIOUS
<1>1. j \in IssueReader /\ j.at = "fallback" /\ j.stale = r.stale
  BY DEF IssueReader
<1>2. r.stale => r.at = "returned"
  BY DEF LinearInv, ReadersTrue, ReaderTrue
<1>3. ReaderTrue(j)
  BY <1>1, <1>2 DEF ReaderTrue
<1> QED BY <1>1, <1>3, ReaderStays DEF SpendsOrNot

LEMMA IssueFetched ==
    ASSUME LinearInv, env' = env, NEW p \in Process, FetchIssue(p)
    PROVE  LinearInv'
<1> PICK r \in IssueReader : r = reader[p]
  BY DEF LinearInv, LinearTyped
<1> PICK v \in Nat : v = issue.issue
  BY DEF LinearInv, LinearTyped, IssueVersions
<1>1. r.at = "issue" /\ UNCHANGED <<issue, snapshot, hour>>
  BY DEF FetchIssue
<1>2. /\ Spends(p)
      /\ \/ reader' = [reader EXCEPT ![p] = [r EXCEPT !.at = "comments", !.issue = v]]
         \/ reader' = [reader EXCEPT ![p] = [r EXCEPT !.at = "fallback"]]
  BY DEF FetchIssue, Executes, Spends, Read
<1>3. CASE reader' = [reader EXCEPT ![p] = [r EXCEPT !.at = "comments", !.issue = v]]
  <2> PICK k : k = [r EXCEPT !.at = "comments"]
    OBVIOUS
  <2> PICK j : j = [k EXCEPT !.issue = v]
    OBVIOUS
  <2>1. k \in IssueReader /\ k.at = "comments" /\ k.stale = r.stale
    BY DEF IssueReader
  <2>2. j \in IssueReader /\ j.at = "comments" /\ j.stale = r.stale /\ j.issue = v
    BY <2>1 DEF IssueReader
  <2>3. j = [r EXCEPT !.at = "comments", !.issue = v]
    BY DEF IssueReader
  <2>4. r.stale => r.at = "returned"
    BY DEF LinearInv, ReadersTrue, ReaderTrue
  <2>5. ThereUntil("issue", v, hour)
    BY NewestIsThere DEF LinearInv
  <2>6. ReaderTrue(j)
    BY <1>1, <2>2, <2>4, <2>5 DEF ReaderTrue
  <2> QED BY <1>1, <1>2, <1>3, <2>2, <2>3, <2>6, ReaderStays DEF SpendsOrNot
<1>4. CASE reader' = [reader EXCEPT ![p] = [r EXCEPT !.at = "fallback"]]
  BY <1>1, <1>2, <1>4, ReaderFails
<1> QED BY <1>2, <1>3, <1>4

LEMMA CommentsFetched ==
    ASSUME LinearInv, env' = env, NEW p \in Process, FetchComments(p)
    PROVE  LinearInv'
<1> PICK r \in IssueReader : r = reader[p]
  BY DEF LinearInv, LinearTyped
<1> PICK v \in Nat : v = issue.comments
  BY DEF LinearInv, LinearTyped, IssueVersions
<1> PICK s : s = [kind |-> "snapshot", issue |-> r.issue, comments |-> v, at |-> hour]
  OBVIOUS
<1>1. r.at = "comments" /\ UNCHANGED <<issue, snapshot, hour>> /\ hour \in Nat /\ r.issue \in Nat
  BY DEF FetchComments, LinearInv, LinearTyped, IssueReader
<1>2. /\ Spends(p)
      /\ \/ reader' = [reader EXCEPT ![p] = [r EXCEPT !.at = "save", !.result = s]]
         \/ reader' = [reader EXCEPT ![p] = [r EXCEPT !.at = "fallback"]]
  BY DEF FetchComments, Executes, Spends, Read
<1>3. CASE reader' = [reader EXCEPT ![p] = [r EXCEPT !.at = "save", !.result = s]]
  <2> PICK k : k = [r EXCEPT !.at = "save"]
    OBVIOUS
  <2> PICK j : j = [k EXCEPT !.result = s]
    OBVIOUS
  <2>1. s \in IssueSnapshot /\ s.issue = r.issue /\ s.comments = v /\ s.at = hour
    BY <1>1 DEF IssueSnapshot
  <2>2. k \in IssueReader /\ k.at = "save" /\ k.stale = r.stale
    BY DEF IssueReader
  <2>3. j \in IssueReader /\ j.at = "save" /\ j.stale = r.stale /\ j.result = s
    BY <2>1, <2>2 DEF IssueReader
  <2>4. j = [r EXCEPT !.at = "save", !.result = s]
    BY DEF IssueReader
  <2>5. ReaderTrue(r)
    BY DEF LinearInv, ReadersTrue
  <2>6. ThereUntil("comments", v, hour)
    BY NewestIsThere DEF LinearInv
  <2>7. "slow" \notin env.events => FetchedThen(s) /\ hour - s.at < Ttl
    <3>1. "slow" \notin env.events => ThereUntil("issue", r.issue, hour)
      BY <1>1, <2>5 DEF ReaderTrue
    <3>2. hour - s.at < Ttl /\ s.at <= hour
      BY <1>1, <2>1, LinearAssumption
    <3> QED BY <2>1, <2>6, <3>1, <3>2 DEF FetchedThen
  <2>8. ReaderTrue(j)
    BY <1>1, <2>1, <2>3, <2>5, <2>7 DEF ReaderTrue
  <2> QED BY <1>1, <1>2, <1>3, <2>3, <2>4, <2>8, ReaderStays DEF SpendsOrNot
<1>4. CASE reader' = [reader EXCEPT ![p] = [r EXCEPT !.at = "fallback"]]
  BY <1>1, <1>2, <1>4, ReaderFails
<1> QED BY <1>2, <1>3, <1>4

LEMMA SnapshotSaved ==
    ASSUME LinearInv, env' = env, NEW p \in Process, SaveSnapshot(p)
    PROVE  LinearInv'
<1> PICK r \in IssueReader : r = reader[p]
  BY DEF LinearInv, LinearTyped
<1>1. r.at \in {"save", "saving"} /\ UNCHANGED <<issue, sent, requests, hour>>
  BY DEF SaveSnapshot
<1>2. \/ snapshot' = TornSnapshot /\ reader' = [reader EXCEPT ![p] = [r EXCEPT !.at = "saving"]]
      \/ snapshot' = r.result /\ reader' = [reader EXCEPT ![p] = [r EXCEPT !.at = "returned"]]
      \/ snapshot' = snapshot /\ reader' = [reader EXCEPT ![p] = [r EXCEPT !.at = "returned"]]
  BY DEF SaveSnapshot, Read
<1>3. ReaderTrue(r)
  BY DEF LinearInv, ReadersTrue
<1>4. ASSUME NEW at \in {"saving", "returned"}, NEW j, j = [r EXCEPT !.at = at]
      PROVE  j \in IssueReader /\ j.at = at /\ j.result = r.result /\ j.stale = FALSE /\ ReaderTrue(j)
  <2>1. j \in IssueReader /\ j.at = at /\ j.result = r.result /\ j.stale = r.stale
    BY <1>4 DEF IssueReader
  <2>2. r.stale = FALSE
    BY <1>1, <1>3 DEF ReaderTrue, IssueReader
  <2> QED BY <1>1, <1>3, <2>1, <2>2 DEF ReaderTrue
<1> PICK i : i = [r EXCEPT !.at = "saving"]
  OBVIOUS
<1> PICK j : j = [r EXCEPT !.at = "returned"]
  OBVIOUS
<1>5. i \in IssueReader /\ ReaderTrue(i)
  BY <1>4
<1>6. j \in IssueReader /\ ReaderTrue(j) /\ j.at = "returned" /\ ~j.stale /\ j.result = r.result
  BY <1>4
<1>7. CASE snapshot' = TornSnapshot /\ reader' = [reader EXCEPT ![p] = i]
  <2>1. CacheMoves(i) /\ SpendsOrNot(p)
    BY <1>1, <1>7 DEF CacheMoves, SpendsOrNot
  <2> QED BY <1>1, <1>5, <1>7, <2>1, ReaderMoves
<1>8. CASE (snapshot' = j.result \/ snapshot' = snapshot) /\ reader' = [reader EXCEPT ![p] = j]
  <2>1. CacheMoves(j) /\ SpendsOrNot(p)
    BY <1>1, <1>6, <1>8 DEF CacheMoves, SpendsOrNot
  <2> QED BY <1>1, <1>6, <1>8, <2>1, ReaderMoves
<1> QED BY <1>2, <1>6, <1>7, <1>8

LEMMA FellBack ==
    ASSUME LinearInv, env' = env, NEW p \in Process, Fallback(p)
    PROVE  LinearInv'
<1> PICK r \in IssueReader : r = reader[p]
  BY DEF LinearInv, LinearTyped
<1>1. r.at = "fallback" /\ UNCHANGED <<issue, snapshot, sent, requests, hour>>
  BY DEF Fallback
<1>2. ReaderTrue(r)
  BY DEF LinearInv, ReadersTrue
<1>3. CASE r.mode # "noCache" /\ Cached # NoSnapshot
  <2> PICK k : k = [r EXCEPT !.at = "returned"]
    OBVIOUS
  <2> PICK l : l = [k EXCEPT !.result = Cached]
    OBVIOUS
  <2> PICK j : j = [l EXCEPT !.stale = TRUE]
    OBVIOUS
  <2>1. Cached \in IssueSnapshot
    BY <1>3, CachedIs
  <2>2. k \in IssueReader /\ k.at = "returned" /\ k.mode = r.mode
    BY DEF IssueReader
  <2>3. l \in IssueReader /\ l.at = "returned" /\ l.mode = r.mode /\ l.result = Cached
    BY <2>1, <2>2 DEF IssueReader
  <2>4. j \in IssueReader /\ j.at = "returned" /\ j.mode = r.mode /\ j.result = Cached /\ j.stale = TRUE
    BY <2>3 DEF IssueReader
  <2>5. ReaderTrue(j)
    BY <1>3, <2>1, <2>4 DEF ReaderTrue
  <2>6. reader' = [reader EXCEPT ![p] = j]
    <3>1. j = [r EXCEPT !.at = "returned", !.result = Cached, !.stale = TRUE]
      BY DEF IssueReader
    <3> QED BY <1>3, <3>1 DEF Fallback, Read
  <2> QED BY <1>1, <2>4, <2>5, <2>6, ReaderStays DEF SpendsOrNot
<1>4. CASE ~(r.mode # "noCache" /\ Cached # NoSnapshot)
  <2> PICK j : j = [r EXCEPT !.at = "failed"]
    OBVIOUS
  <2>1. j \in IssueReader /\ j.at = "failed" /\ j.stale = r.stale
    BY DEF IssueReader
  <2>2. ReaderTrue(j)
    BY <1>1, <1>2, <2>1 DEF ReaderTrue
  <2>3. reader' = [reader EXCEPT ![p] = j]
    BY <1>4 DEF Fallback, Read
  <2> QED BY <1>1, <2>1, <2>2, <2>3, ReaderStays DEF SpendsOrNot
<1> QED BY <1>3, <1>4

\* The issue changes, by a write of the adapter or by people.
LEMMA IssueMoves ==
    ASSUME LinearInv, env' = env, NEW part \in {"issue", "comments"}, issue' = issue \/ issue' = Changed(part),
           UNCHANGED <<snapshot, reader, hour>>, UNCHANGED <<sent, requests>> \/ \E p \in Process : Spends(p)
    PROVE  LinearInv'
<1>1. LinearTyped /\ RequestsCounted /\ OlderReplaced /\ SnapshotTrue /\ ReadersTrue
  BY DEF LinearInv
<1>2. sent' \in Seq(SentRequest) /\ requests' \in [Process -> SUBSET Nat] /\ RequestsCounted'
  <2>1. ASSUME NEW p \in Process, Spends(p) PROVE sent' \in Seq(SentRequest) /\ requests' \in [Process -> SUBSET Nat] /\ RequestsCounted'
    BY <1>1, <2>1, RequestsSpent
  <2>2. CASE UNCHANGED <<sent, requests>>
    <3>1. \A q \in Process : Trimmed(q)' = Trimmed(q)
      BY <2>2 DEF Trimmed
    <3>2. \A q \in Process : Cardinality(Trimmed(q))' = Cardinality(Trimmed(q))
      BY <3>1
    <3> QED BY <1>1, <2>2, <3>2 DEF LinearTyped, RequestsCounted
  <2> QED BY <2>1, <2>2
<1>3. hour' = hour
  OBVIOUS
<1>4. issue' \in IssueVersions /\ OlderReplaced'
  BY <1>1, <1>3, IssueChanged
<1>5. /\ \A s \in IssueSnapshot : FetchedThen(s) => FetchedThen(s)'
      /\ \A r \in IssueReader : ReaderTrue(r) => ReaderTrue(r)'
  BY <1>1, <1>3, FetchesStay
<1>6. SnapshotTrue'
  <2>1. snapshot.kind = "snapshot" => snapshot \in IssueSnapshot
    BY <1>1, SnapshotKinds DEF LinearTyped
  <2>2. snapshot.kind = "snapshot" /\ "slow" \notin env.events => FetchedThen(snapshot)'
    BY <1>1, <1>5, <2>1 DEF SnapshotTrue
  <2> QED BY <2>2 DEF SnapshotTrue, FetchedThen, ThereUntil
<1>7. ReadersTrue'
  <2>1. \A q \in Process : \A r \in IssueReader : r = reader[q] => ReaderTrue(r)'
    BY <1>1, <1>5 DEF ReadersTrue
  <2>2. \A q \in Process : reader[q] \in IssueReader /\ reader'[q] = reader[q]
    BY <1>1 DEF LinearTyped
  <2>3. \A q \in Process : \A r : r = reader'[q] => ReaderTrue(r)'
    BY <2>1, <2>2
  <2> QED BY <2>3 DEF ReadersTrue, ReaderTrue, FetchedThen, ThereUntil
<1> QED BY <1>1, <1>2, <1>4, <1>6, <1>7 DEF LinearInv, LinearTyped

LEMMA IssueWritten ==
    ASSUME LinearInv, env' = env, NEW p \in Process, NEW part \in {"issue", "comments"}, WriteIssue(p, part)
    PROVE  LinearInv'
<1>1. UNCHANGED <<snapshot, hour>>
  BY DEF WriteIssue
<1>2. PICK effect \in {Changed(part)} \cup {issue} :
            Executes(p, issue' = effect /\ reader' = reader, issue' = issue /\ reader' = reader)
  BY DEF WriteIssue
<1>3. Spends(p) /\ reader' = reader /\ (issue' = issue \/ issue' = Changed(part))
  BY <1>2 DEF Executes, Spends
<1> QED BY <1>1, <1>3, IssueMoves

LEMMA ReaderEnds ==
    ASSUME LinearInv, env' = env, NEW p \in Process, Return(p)
    PROVE  LinearInv'
<1>1. reader' = [reader EXCEPT ![p] = IdleReader] /\ UNCHANGED <<issue, snapshot, sent, requests, hour>>
  BY DEF Return, Read
<1>2. ReaderTrue(IdleReader)
  BY IdleReaderIs DEF ReaderTrue
<1> QED BY <1>1, <1>2, IdleReaderIs, ReaderStays DEF SpendsOrNot

LEMMA ReaderDies ==
    ASSUME LinearInv, env' = env, NEW p \in Process, CrashReader(p)
    PROVE  LinearInv'
<1>1. LinearTyped /\ RequestsCounted /\ OlderReplaced /\ SnapshotTrue /\ ReadersTrue
  BY DEF LinearInv
<1>2. /\ reader' = [reader EXCEPT ![p] = IdleReader]
      /\ sent' = [n \in DOMAIN sent |-> IF sent[n].by = p THEN [sent[n] EXCEPT !.by = Nobody] ELSE sent[n]]
      /\ requests' = [requests EXCEPT ![p] = {}]
      /\ UNCHANGED <<issue, snapshot, hour>>
  BY DEF CrashReader, Read
<1>3. ReaderTrue(IdleReader)
  BY IdleReaderIs DEF ReaderTrue
<1>4. DOMAIN sent = 1..Len(sent) /\ Len(sent) \in Nat
  BY <1>1 DEF LinearTyped
<1>5. ASSUME NEW n \in DOMAIN sent
      PROVE  /\ sent'[n] \in SentRequest /\ sent'[n].at = sent[n].at
             /\ sent'[n].by # p /\ \A q \in Process : sent'[n].by = q => sent[n].by = q
  <2> PICK x \in SentRequest : x = sent[n]
    BY <1>1 DEF LinearTyped
  <2> PICK y : y = [x EXCEPT !.by = Nobody]
    OBVIOUS
  <2>1. y \in SentRequest /\ y.at = x.at /\ y.by = Nobody
    BY DEF SentRequest
  <2>2. sent'[n] = IF x.by = p THEN y ELSE x
    BY <1>2
  <2> QED BY <2>1, <2>2, DirectoryAssumption
<1>6. /\ DOMAIN sent' = DOMAIN sent
      /\ sent' \in Seq(SentRequest)
  <2>1. DOMAIN sent' = DOMAIN sent
    BY <1>2
  <2>2. sent' = [n \in 1..Len(sent) |-> sent'[n]]
    BY <1>2, <1>4
  <2>3. \A n \in 1..Len(sent) : sent'[n] \in SentRequest
    BY <1>4, <1>5
  <2> QED BY <1>4, <2>1, <2>2, <2>3
<1>7. requests' \in [Process -> SUBSET Nat] /\ requests'[p] = {} /\ \A q \in Process : q # p => requests'[q] = requests[q]
  BY <1>1, <1>2 DEF LinearTyped
<1>8. RequestsCounted'
  <2>1. ASSUME NEW q \in Process
        PROVE  /\ requests'[q] \subseteq DOMAIN sent'
               /\ \A k \in DOMAIN sent' : sent'[k].by = q /\ sent'[k].at >= hour' - Window => k \in requests'[q]
               /\ Cardinality(Trimmed(q))' <= Budget
    <3>1. CASE q = p
      <4>1. Trimmed(q)' = {}
        BY <1>7, <3>1 DEF Trimmed
      <4>2. Cardinality(Trimmed(q))' = 0
        BY <4>1, FS_EmptySet
      <4> QED BY <1>5, <1>6, <1>7, <3>1, <4>2, LinearAssumption
    <3>2. CASE q # p
      <4>1. requests'[q] = requests[q] /\ requests[q] \subseteq DOMAIN sent
        BY <1>1, <1>7, <3>2 DEF RequestsCounted
      <4>2. \A k : k \in Trimmed(q)' <=> k \in Trimmed(q)
        BY <1>2, <1>5, <4>1 DEF Trimmed
      <4>3. Trimmed(q)' = Trimmed(q)
        BY <4>2
      <4>4. Cardinality(Trimmed(q))' = Cardinality(Trimmed(q))
        BY <4>3
      <4> QED BY <1>1, <1>2, <1>5, <1>6, <4>1, <4>4 DEF RequestsCounted
    <3> QED BY <3>1, <3>2
  <2> QED BY <2>1 DEF RequestsCounted
<1>9. reader' \in [Process -> IssueReader] /\ \A q \in Process : reader'[q] = IF q = p THEN IdleReader ELSE reader[q]
  BY <1>1, <1>2, IdleReaderIs DEF LinearTyped
<1>10. OlderReplaced' /\ SnapshotTrue' /\ ReadersTrue'
  <2>1. OlderReplaced' /\ SnapshotTrue'
    BY <1>1, <1>2 DEF OlderReplaced, SnapshotTrue, FetchedThen, ThereUntil
  <2>2. \A r : ReaderTrue(r) => ReaderTrue(r)'
    BY <1>2 DEF ReaderTrue, FetchedThen, ThereUntil
  <2>3. \A q \in Process : \A r : r = reader'[q] => ReaderTrue(r)'
    BY <1>1, <1>3, <1>9, <2>2 DEF ReadersTrue
  <2> QED BY <2>1, <2>3 DEF ReadersTrue, ReaderTrue, FetchedThen, ThereUntil
<1> QED BY <1>1, <1>2, <1>6, <1>7, <1>8, <1>9, <1>10 DEF LinearInv, LinearTyped

LEMMA HourGoesBy ==
    ASSUME LinearInv, env' = env, PassHour
    PROVE  LinearInv'
<1>1. LinearTyped /\ RequestsCounted /\ OlderReplaced /\ SnapshotTrue /\ ReadersTrue
  BY DEF LinearInv
<1>2. /\ hour' = hour + 1 /\ UNCHANGED <<issue, snapshot, reader, sent, requests>>
      /\ "slow" \in env.events \/ \A p \in Process : reader[p].at \notin {"comments", "save", "saving", "returned"}
  BY DEF PassHour
<1>3. hour \in Nat /\ Window \in Nat /\ Budget \in Nat
  BY <1>1, LinearAssumption DEF LinearTyped
<1>4. ASSUME NEW n \in DOMAIN sent, sent[n].at >= hour' - Window PROVE sent[n].at >= hour - Window
  <2>1. sent[n] \in SentRequest
    BY <1>1 DEF LinearTyped
  <2>2. sent[n].at \in Nat
    BY <2>1 DEF SentRequest
  <2> QED BY <1>2, <1>3, <1>4, <2>2
<1>5. RequestsCounted'
  <2>1. ASSUME NEW q \in Process PROVE Cardinality(Trimmed(q))' <= Budget
    <3>1. \A k \in requests[q] : k \in DOMAIN sent
      BY <1>1 DEF RequestsCounted
    <3>2. Trimmed(q)' \subseteq Trimmed(q)
      BY <1>2, <1>4, <3>1 DEF Trimmed
    <3>3. IsFiniteSet(Trimmed(q)) /\ Cardinality(Trimmed(q)) \in Nat /\ Cardinality(Trimmed(q)) <= Budget
      BY <1>1, TrimmedIs DEF RequestsCounted
    <3> PICK A : A = Trimmed(q)'
      OBVIOUS
    <3>4. A \subseteq Trimmed(q)
      BY <3>2
    <3>5. Cardinality(A) <= Cardinality(Trimmed(q)) /\ Cardinality(A) \in Nat
      BY <3>3, <3>4, FS_Subset, FS_CardinalityType
    <3>6. Cardinality(A) <= Budget
      BY <1>3, <3>3, <3>5
    <3> QED BY <3>6
  <2> QED BY <1>1, <1>2, <1>4, <2>1 DEF RequestsCounted
<1>6. OlderReplaced'
  BY <1>1, <1>2 DEF OlderReplaced
<1>7. SnapshotTrue'
  <2>1. snapshot.kind = "snapshot" => snapshot.at \in Nat
    <3>1. snapshot.kind = "snapshot" => snapshot \in IssueSnapshot
      BY <1>1, SnapshotKinds DEF LinearTyped
    <3> QED BY <3>1 DEF IssueSnapshot
  <2> QED BY <1>1, <1>2, <1>3, <2>1 DEF SnapshotTrue, FetchedThen, ThereUntil
<1>8. ReadersTrue'
  BY <1>1, <1>2 DEF ReadersTrue, ReaderTrue
<1>9. hour' \in Nat
  BY <1>2, <1>3
<1> QED BY <1>1, <1>2, <1>5, <1>6, <1>7, <1>8, <1>9 DEF LinearInv, LinearTyped

LEMMA LinearElsewhere ==
    ASSUME LinearInv, UNCHANGED <<linearVars, env>>
    PROVE  LinearInv'
<1>1. UNCHANGED <<issue, snapshot, reader, sent, requests, hour>>
  BY DEF linearVars
<1>2. \A q \in Process : Trimmed(q)' = Trimmed(q)
  BY <1>1 DEF Trimmed
<1>3. \A q \in Process : Cardinality(Trimmed(q))' = Cardinality(Trimmed(q))
  BY <1>2
<1> QED BY <1>1, <1>3 DEF LinearInv, LinearTyped, RequestsCounted, OlderReplaced, SnapshotTrue, ReadersTrue, ReaderTrue, FetchedThen, ThereUntil

LEMMA LinearStep == LinearInv /\ [Next]_vars => LinearInv'
<1> SUFFICES ASSUME LinearInv, [Next]_vars PROVE LinearInv'
  OBVIOUS
<1>1. CASE LinearNext /\ env' = env
  <2>1. ASSUME NEW p \in Process,
               \/ \E mode \in {"normal", "forceRefresh", "noCache"} : BeginSnapshot(p, mode)
               \/ FetchIssue(p) \/ FetchComments(p) \/ SaveSnapshot(p) \/ Fallback(p) \/ Return(p) \/ CrashReader(p)
               \/ \E part \in {"issue", "comments"} : WriteIssue(p, part)
        PROVE  LinearInv'
    BY <1>1, <2>1, SnapshotBegins, IssueFetched, CommentsFetched, SnapshotSaved, FellBack, ReaderEnds, ReaderDies, IssueWritten
  <2>2. ASSUME NEW part \in {"issue", "comments"}, ChangeIssue(part) PROVE LinearInv'
    <3>1. issue' = Changed(part) /\ UNCHANGED <<snapshot, reader, sent, requests, hour>>
      BY <2>2 DEF ChangeIssue
    <3> QED BY <1>1, <3>1, IssueMoves
  <2> QED BY <1>1, <2>1, <2>2, HourGoesBy DEF LinearNext
<1>2. CASE UNCHANGED <<linearVars, env>>
  BY <1>2, LinearElsewhere
<1> QED BY <1>1, <1>2 DEF Next, vars

LEMMA SnapshotsAreTrue == LinearInv => SnapshotsTrue
<1> SUFFICES ASSUME LinearInv, NEW p \in Process, NEW r, r = reader[p], r.at = "returned"
             PROVE  /\ r.result.kind = "snapshot"
                    /\ r.mode = "noCache" => ~r.stale
                    /\ ~r.stale /\ "slow" \notin env.events =>
                        \A k \in DOMAIN issue.replaced :
                            LET x == issue.replaced[k]
                            IN  /\ ~(x.part = "issue" /\ x.version = r.result.issue /\ hour - x.at >= Ttl)
                                /\ ~(x.part = "comments" /\ x.version = r.result.comments /\ hour - x.at >= Ttl)
  BY DEF SnapshotsTrue
<1>1. ReaderTrue(r) /\ r \in IssueReader /\ hour \in Nat /\ Ttl \in Nat
  BY LinearAssumption DEF LinearInv, LinearTyped, ReadersTrue
<1>2. r.result \in IssueSnapshot
  BY <1>1 DEF ReaderTrue
<1> PICK s \in IssueSnapshot : s = r.result
  BY <1>2
<1>3. s.kind = "snapshot" /\ s.at \in Nat
  BY DEF IssueSnapshot
<1>4. ASSUME ~r.stale, "slow" \notin env.events, NEW k \in DOMAIN issue.replaced, NEW x, x = issue.replaced[k]
      PROVE  /\ ~(x.part = "issue" /\ x.version = s.issue /\ hour - x.at >= Ttl)
             /\ ~(x.part = "comments" /\ x.version = s.comments /\ hour - x.at >= Ttl)
  <2>1. ThereUntil("issue", s.issue, s.at) /\ ThereUntil("comments", s.comments, s.at) /\ hour - s.at < Ttl
    BY <1>1, <1>4 DEF ReaderTrue, FetchedThen
  <2>2. x.at \in Nat
    <3>1. issue.replaced \in Seq(Replacement)
      BY DEF LinearInv, LinearTyped, IssueVersions
    <3>2. x \in Replacement
      BY <1>4, <3>1
    <3> QED BY <3>2 DEF Replacement
  <2>3. (x.part = "issue" /\ x.version = s.issue) \/ (x.part = "comments" /\ x.version = s.comments) => x.at >= s.at
    BY <1>4, <2>1 DEF ThereUntil
  <2>4. x.at >= s.at => ~(hour - x.at >= Ttl)
    BY <1>1, <1>3, <2>1, <2>2
  <2> QED BY <2>3, <2>4
<1>5. r.mode = "noCache" => ~r.stale
  BY <1>1 DEF ReaderTrue
<1> QED BY <1>3, <1>4, <1>5

LEMMA BudgetIsKept == LinearInv => HourlyBudgetKept
<1> SUFFICES ASSUME LinearInv, NEW p \in Process
             PROVE  Cardinality({n \in DOMAIN sent : sent[n].by = p /\ sent[n].at >= hour - Window}) <= Budget
  BY DEF HourlyBudgetKept
<1>1. LinearTyped /\ RequestsCounted
  BY DEF LinearInv
<1> PICK A : A = {n \in DOMAIN sent : sent[n].by = p /\ sent[n].at >= hour - Window}
  OBVIOUS
<1>2. A \subseteq Trimmed(p)
  BY <1>1 DEF RequestsCounted, Trimmed
<1>3. IsFiniteSet(Trimmed(p)) /\ Cardinality(Trimmed(p)) \in Nat /\ Cardinality(Trimmed(p)) <= Budget
  BY <1>1, TrimmedIs DEF RequestsCounted
<1>4. Cardinality(A) <= Cardinality(Trimmed(p)) /\ Cardinality(A) \in Nat
  BY <1>2, <1>3, FS_Subset, FS_CardinalityType
<1> QED BY <1>3, <1>4, LinearAssumption

LEMMA RelationsAreTrue == RelationsTrue
<1> DEFINE forward == {[id |-> x[1], type |-> "blocks", to |-> x[2]] : x \in env.blocks}
           backward == {[id |-> x[2], type |-> "blocked_by", to |-> x[1]] : x \in env.blocks}
           Covered(ns) == UNION {Normalized(n.id, n.type, n.to) : n \in ns}
           edges == {[type |-> "blocks", issue |-> x[1], relatedIssue |-> x[2]] : x \in env.blocks}
<1>1. ASSUME NEW A, NEW B
      PROVE  CycleRelations(<<A>>) = Covered(A) /\ CycleRelations(<<A, B>>) = Covered(A) \cup Covered(B)
  <2>1. UNION {<<A>>[k] : k \in DOMAIN <<A>>} = A
    <3>1. DOMAIN <<A>> = {1} /\ <<A>>[1] = A
      OBVIOUS
    <3> QED BY <3>1
  <2>2. UNION {<<A, B>>[k] : k \in DOMAIN <<A, B>>} = A \cup B
    <3>1. DOMAIN <<A, B>> = {1, 2} /\ <<A, B>>[1] = A /\ <<A, B>>[2] = B
      OBVIOUS
    <3> QED BY <3>1
  <2>3. CycleRelations(<<A>>) = Covered(A)
    BY <2>1 DEF CycleRelations
  <2>4. CycleRelations(<<A, B>>) = Covered(A \cup B)
    BY <2>2 DEF CycleRelations
  <2>5. Covered(A \cup B) = Covered(A) \cup Covered(B)
    OBVIOUS
  <2> QED BY <2>3, <2>4, <2>5
<1>2. \A a, b : /\ Normalized(a, "blocks", b) = {[type |-> "blocks", issue |-> a, relatedIssue |-> b]}
                /\ Normalized(b, "blocked_by", a) = {[type |-> "blocks", issue |-> a, relatedIssue |-> b]}
  BY DEF Normalized
<1>3. Covered(forward) = edges
  <2> DEFINE f(x) == [id |-> x[1], type |-> "blocks", to |-> x[2]]
  <2>0. \A x : f(x).id = x[1] /\ f(x).type = "blocks" /\ f(x).to = x[2]
    OBVIOUS
  <2>1. \A e : e \in Covered(forward) <=> \E x \in env.blocks : e \in Normalized(x[1], "blocks", x[2])
    <3>1. forward = {f(x) : x \in env.blocks}
      OBVIOUS
    <3> HIDE DEF forward, f
    <3> QED BY <2>0, <3>1
  <2>2. \A e : e \in Covered(forward) <=> e \in edges
    BY <1>2, <2>1
  <2> QED BY <2>2
<1>4. Covered(backward) = edges
  <2> DEFINE f(x) == [id |-> x[2], type |-> "blocked_by", to |-> x[1]]
  <2>0. \A x : f(x).id = x[2] /\ f(x).type = "blocked_by" /\ f(x).to = x[1]
    OBVIOUS
  <2>1. \A e : e \in Covered(backward) <=> \E x \in env.blocks : e \in Normalized(x[2], "blocked_by", x[1])
    <3>1. backward = {f(x) : x \in env.blocks}
      OBVIOUS
    <3> HIDE DEF backward, f
    <3> QED BY <2>0, <3>1
  <2>2. \A e : e \in Covered(backward) <=> e \in edges
    BY <1>2, <2>1
  <2> QED BY <2>2
<1>5. /\ CycleRelations(<<forward>>) = CycleRelations(<<backward>>)
      /\ CycleRelations(<<forward, backward>>) = CycleRelations(<<forward>>)
  <2> HIDE DEF forward, backward, Covered, edges
  <2> QED BY <1>1, <1>3, <1>4
<1> QED BY <1>5 DEF RelationsTrue

(***************************************************************************)
(* In every behaviour a snapshot that is returned without an error mark    *)
(* was on Linear within the ttl, an adapter keeps its hourly budget, and a *)
(* cycle has the same relations whichever issue reports them.              *)
(* (LinearAdapter.ts: fetchIssueSnapshot, assertRateLimitHeadroom,         *)
(* normalizeCycleRelation)                                                 *)
(***************************************************************************)
THEOREM LinearTrue == Spec => []LinearAgrees
<1>1. LinearInv => LinearAgrees
  BY SnapshotsAreTrue, BudgetIsKept, RelationsAreTrue DEF LinearAgrees
<1> QED BY <1>1, LinearStart, LinearStep, PTL DEF Spec

-----------------------------------------------------------------------------
(* Validation.tla *)

Attempts == [command : Commands \cup {"none"}, number : Nat, exit : {0, 1, 124}, fix : BOOLEAN]
Turns ==
    [at : {"idle", "next", "run", "record", "done"}, single : BOOLEAN, targets : SUBSET Commands, left : SUBSET Commands,
     number : Nat, attempt : Attempts, results : SUBSET Attempts, exceeded : SUBSET Commands, edited : BOOLEAN]

ValidationTyped ==
    /\ env \in Environment
    /\ ledger \in Seq(Attempts)
    /\ tree \subseteq Commands
    /\ validator \in [Process -> Turns]

Trying(w) == w.at \in {"run", "record"}
\* The attempts of the loop that are in the ledger.
Recorded(w) == IF w.at = "record" THEN w.number - 1 ELSE w.number
Ran(w) == {r.command : r \in w.results}

\* Every target is still to come, has its result, or is over its limit, and only one of these.
Sorted(w) ==
    /\ w.targets = w.left \cup Ran(w) \cup w.exceeded
    /\ w.left \cap (Ran(w) \cup w.exceeded) = {} /\ Ran(w) \cap w.exceeded = {}
    /\ w.at \in {"next", "run", "record"} <=> w.left # {}
    /\ w.at = "idle" => w.targets = {}

\* What the attempts of the loop, the results and the exceeded limits say is in the ledger.
Logged(w) ==
    /\ Trying(w) => w.number <= AttemptLimit(Current(w)) /\ Cardinality(AttemptsOf(Current(w))) >= Recorded(w)
    /\ w.at = "run" => w.number < AttemptLimit(Current(w))
    /\ w.at = "record" => w.attempt.command = Current(w) /\ w.attempt.number = w.number /\ w.number # 0
    /\ \A r \in w.results : r.exit # 0 => Cardinality(AttemptsOf(r.command)) >= AttemptLimit(r.command)
    /\ \A c \in w.exceeded : Exceeded(c)

\* What passed still passes unless an auto-fix breaks it or somebody else works on the tree.
Passing(w) ==
    env.events \cap {"breaks", "overlap"} = {} /\ ~w.edited =>
        /\ \A r \in w.results : r.exit = 0 => r.command \in tree
        /\ w.at = "record" /\ w.attempt.exit = 0 => w.attempt.command \in tree

\* While calls follow one another, the last attempt of a command is the one before the attempt under way.
FollowsLast(w) ==
    "overlap" \notin env.events /\ Trying(w) /\ Recorded(w) > 0 =>
        \E j \in AttemptsOf(Current(w)) :
            /\ \A k \in AttemptsOf(Current(w)) : k <= j
            /\ ledger[j].number = Recorded(w) /\ ledger[j].exit # 0

Fits(w) == Sorted(w) /\ Logged(w) /\ Passing(w) /\ FollowsLast(w)
UnderWay == {validator[p] : p \in Process}

OneCall ==
    "overlap" \notin env.events =>
        \A p, q \in Process : validator[p].at # "idle" /\ validator[q].at # "idle" => p = q

Tries(c) == env.checks[c].retries + 1
Callers == IF "overlap" \in env.events THEN Cardinality(Process) ELSE 1

\* The attempts of c that the calls under way may still add.
Open(c) ==
    {x \in Process \X (1..Tries(c)) :
        Trying(validator[x[1]]) /\ Current(validator[x[1]]) = c /\ x[2] > Recorded(validator[x[1]])}

TriesCounted ==
    env.limited =>
        \A c \in Commands :
            Cardinality(AttemptsOf(c)) + Cardinality(Open(c)) <= env.checks[c].retries + Tries(c) * Callers

\* The attempts of a loop are numbered from one, and none follows a success.
Numbered(c) ==
    \A i \in AttemptsOf(c) : ledger[i].number > 1 =>
        \E j \in AttemptsOf(c) :
            /\ j < i /\ \A k \in AttemptsOf(c) : k <= j \/ k >= i
            /\ ledger[j].number = ledger[i].number - 1 /\ ledger[j].exit # 0

ValidationInv ==
    /\ ValidationTyped /\ OneCall /\ TriesCounted
    /\ \A w \in UnderWay : Fits(w)
    /\ "overlap" \notin env.events => \A c \in Commands : Numbered(c)

-----------------------------------------------------------------------------
LEMMA ValidationSettings ==
    ASSUME env \in Environment, NEW c \in Commands
    PROVE  /\ env.checks[c].retries \in Nat /\ env.checks[c].fixes \in BOOLEAN /\ env.limited \in BOOLEAN
           /\ Tries(c) \in Nat \ {0} /\ AttemptLimit(c) \in Nat \ {0}
           /\ env.limited => AttemptLimit(c) = Tries(c)
<1>1. /\ env.limited \in BOOLEAN /\ env.override \in Nat
      /\ env.checks \in [Commands -> [required : BOOLEAN, retries : Nat, fixes : BOOLEAN]]
  BY ValidationAssumption
<1>2. env.checks[c] \in [required : BOOLEAN, retries : Nat, fixes : BOOLEAN]
  BY <1>1
<1>3. env.checks[c].retries \in Nat /\ env.checks[c].fixes \in BOOLEAN
  BY <1>2
<1> QED BY <1>1, <1>3 DEF Tries, AttemptLimit

\* The attempts of a command are finitely many positions of the ledger.
LEMMA AttemptsFinite ==
    ASSUME ledger \in Seq(Attempts), NEW c
    PROVE  IsFiniteSet(AttemptsOf(c)) /\ Cardinality(AttemptsOf(c)) \in Nat
<1>1. Len(ledger) \in Nat /\ DOMAIN ledger = 1..Len(ledger)
  OBVIOUS
<1>2. IsFiniteSet(1..Len(ledger))
  BY <1>1, FS_Interval
<1>3. AttemptsOf(c) \subseteq 1..Len(ledger)
  BY <1>1 DEF AttemptsOf
<1>4. IsFiniteSet(AttemptsOf(c))
  BY <1>2, <1>3, FS_Subset
<1> QED BY <1>4, FS_CardinalityType

\* There is a first target.
LEMMA CurrentLeft ==
    ASSUME NEW w, w.left \subseteq Commands, w.left # {}
    PROVE  Current(w) \in w.left
<1> DEFINE S == {i \in DOMAIN Command : Command[i] \in w.left}
<1>1. Command \in Seq(Commands) /\ DOMAIN Command = 1..Len(Command) /\ Len(Command) \in Nat
  BY ValidationAssumption
<1>2. S # {} /\ S \subseteq Nat
  BY <1>1 DEF Commands
<1>3. PICK i \in S : \A m \in S : i <= m
  <2> HIDE DEF S
  <2> QED BY <1>2, Lists!Least
<1>4. i \in DOMAIN Command /\ Command[i] \in w.left /\ \A j \in 1..(i - 1) : Command[j] \notin w.left
  BY <1>1, <1>3
<1> QED BY <1>4 DEF Current

LEMMA CurrentSame ==
    ASSUME NEW w, NEW v, w.left = v.left
    PROVE  Current(w) = Current(v)
BY DEF Current

\* Calls under way add no more than each of them may.
LEMMA OpenBound ==
    ASSUME env \in Environment, OneCall, NEW c \in Commands
    PROVE  /\ IsFiniteSet(Open(c)) /\ Cardinality(Open(c)) \in Nat
           /\ Callers \in Nat
           /\ Cardinality(Open(c)) <= Tries(c) * Callers
<1>1. Tries(c) \in Nat
  BY ValidationSettings
<1>2. IsFiniteSet(1..Tries(c)) /\ Cardinality(1..Tries(c)) = Tries(c)
  BY <1>1, FS_Interval
<1>3. \A S : IsFiniteSet(S) => /\ IsFiniteSet(S \X (1..Tries(c)))
                               /\ Cardinality(S \X (1..Tries(c))) = Cardinality(S) * Tries(c)
                               /\ Cardinality(S) \in Nat
  BY <1>2, FS_Product, FS_CardinalityType
<1>4. IsFiniteSet(Process)
  BY ValidationAssumption
<1>5. CASE "overlap" \in env.events
  <2>1. Open(c) \subseteq Process \X (1..Tries(c))
    BY DEF Open
  <2>2. Cardinality(Open(c)) <= Cardinality(Process) * Tries(c) /\ IsFiniteSet(Open(c)) /\ Cardinality(Process) \in Nat
    <3> DEFINE T == Process \X (1..Tries(c))
    <3>1. IsFiniteSet(T) /\ Cardinality(T) = Cardinality(Process) * Tries(c) /\ Cardinality(Process) \in Nat
      BY <1>3, <1>4
    <3> HIDE DEF T
    <3>2. Open(c) \subseteq T
      BY <2>1 DEF T
    <3> QED BY <3>1, <3>2, FS_Subset
  <2>3. Cardinality(Process) * Tries(c) = Tries(c) * Cardinality(Process)
    BY <1>1, <2>2
  <2> QED BY <1>5, <2>2, <2>3, FS_CardinalityType DEF Callers
<1>6. CASE "overlap" \notin env.events
  <2>1. PICK S : IsFiniteSet(S) /\ Cardinality(S) = 1 /\ Open(c) \subseteq S \X (1..Tries(c))
    <3>1. CASE Open(c) = {}
      BY <3>1, FS_Singleton
    <3>2. CASE Open(c) # {}
      <4>1. PICK p \in Process : Trying(validator[p])
        BY <3>2 DEF Open
      <4>2. \A q \in Process : Trying(validator[q]) => q = p
        BY <1>6, <4>1 DEF OneCall, Trying
      <4>3. Open(c) \subseteq {p} \X (1..Tries(c))
        BY <4>2 DEF Open
      <4> QED BY <4>3, FS_Singleton
    <3> QED BY <3>1, <3>2
  <2>2. Cardinality(Open(c)) <= 1 * Tries(c) /\ IsFiniteSet(Open(c))
    <3> DEFINE T == S \X (1..Tries(c))
    <3>1. IsFiniteSet(T) /\ Cardinality(T) = 1 * Tries(c)
      BY <1>3, <2>1
    <3> HIDE DEF T
    <3>2. Open(c) \subseteq T
      BY <2>1 DEF T
    <3> QED BY <3>1, <3>2, FS_Subset
  <2> QED BY <1>1, <1>6, <2>2, FS_CardinalityType DEF Callers
<1> QED BY <1>5, <1>6

OpenBounded ==
    \A c \in Commands :
        IsFiniteSet(Open(c)) /\ Cardinality(Open(c)) \in Nat /\ Cardinality(Open(c)) <= Tries(c) * Callers

LEMMA OpenBounds == env \in Environment /\ OneCall => OpenBounded
BY OpenBound DEF OpenBounded

\* While no attempt is recorded, what the ledger says stays.
LEMMA LedgerStays ==
    ASSUME UNCHANGED <<env, ledger>>, NEW c
    PROVE  /\ AttemptsOf(c)' = AttemptsOf(c) /\ Cardinality(AttemptsOf(c))' = Cardinality(AttemptsOf(c))
           /\ Exceeded(c)' = Exceeded(c) /\ AttemptLimit(c)' = AttemptLimit(c) /\ Tries(c)' = Tries(c)
           /\ Numbered(c) => Numbered(c)' 
           /\ Callers' = Callers
<1>1. AttemptsOf(c)' = AttemptsOf(c)
  BY DEF AttemptsOf
<1> QED BY <1>1 DEF Exceeded, AttemptLimit, Tries, Numbered, Callers

-----------------------------------------------------------------------------
LEMMA ValidationStart == Init => ValidationInv
<1> SUFFICES ASSUME Init PROVE ValidationInv
  OBVIOUS
<1>1. env \in Environment /\ ledger = <<>> /\ tree = env.passing /\ validator = [p \in Process |-> Waiting]
  BY DEF Init, ValidationInit
<1>2. \A p \in Process : validator[p] = Waiting
  BY <1>1
<1>3. Waiting \in Turns /\ Waiting.at = "idle" /\ Waiting.results = {} /\ Waiting.exceeded = {} /\ Waiting.left = {}
      /\ Waiting.targets = {}
  BY DEF Waiting, Turns, NoAttempt, Attempts
<1>4. tree \subseteq Commands
  BY <1>1, ValidationAssumption
<1>5. ValidationTyped /\ OneCall
  BY <1>1, <1>2, <1>3, <1>4 DEF ValidationTyped, OneCall
<1>6. \A c : AttemptsOf(c) = {}
  BY <1>1 DEF AttemptsOf
<1>7. Fits(Waiting)
  BY <1>3 DEF Fits, Sorted, Logged, Passing, FollowsLast, Ran, Trying
<1>8. TriesCounted
  <2> SUFFICES ASSUME env.limited, NEW c \in Commands
               PROVE  Cardinality(AttemptsOf(c)) + Cardinality(Open(c)) <= env.checks[c].retries + Tries(c) * Callers
    BY DEF TriesCounted
  <2>1. env.checks[c].retries \in Nat /\ Tries(c) \in Nat
    BY <1>1, ValidationSettings
  <2>2. Cardinality(Open(c)) <= Tries(c) * Callers /\ Cardinality(Open(c)) \in Nat /\ Callers \in Nat
    BY <1>1, <1>5, OpenBound
  <2>3. Cardinality(AttemptsOf(c)) = 0
    BY <1>6, FS_EmptySet
  <2>4. Tries(c) * Callers \in Nat
    BY <2>1, <2>2
  <2> QED BY <2>1, <2>2, <2>3, <2>4
<1>9. \A c : Numbered(c)
  BY <1>6 DEF Numbered
<1>10. \A w \in UnderWay : Fits(w)
  BY <1>2, <1>7 DEF UnderWay
<1> QED BY <1>5, <1>8, <1>9, <1>10 DEF ValidationInv

-----------------------------------------------------------------------------
\* What a process knows stays true while no attempt is recorded and the tree only gets better.
LEMMA FitsStays ==
    ASSUME UNCHANGED <<env, ledger>>, NEW w, Fits(w),
           env.events \cap {"breaks", "overlap"} = {} => tree \subseteq tree'
    PROVE  Fits(w)'
<1>1. \A c : /\ Cardinality(AttemptsOf(c))' = Cardinality(AttemptsOf(c)) /\ AttemptsOf(c)' = AttemptsOf(c)
             /\ Exceeded(c)' = Exceeded(c) /\ AttemptLimit(c)' = AttemptLimit(c)
  BY LedgerStays
<1>2. Sorted(w)'
  BY DEF Fits, Sorted, Ran
<1>3. Logged(w)'
  BY <1>1 DEF Fits, Logged, Trying, Recorded, Current
<1>4. Passing(w)'
  BY DEF Fits, Passing
<1>5. FollowsLast(w)'
  BY <1>1 DEF Fits, FollowsLast, Trying, Recorded, Current
<1> QED BY <1>2, <1>3, <1>4, <1>5 DEF Fits

\* A process goes on, and the ledger stays as it is.
LEMMA TurnStep ==
    ASSUME ValidationInv, UNCHANGED <<env, ledger>>, tree' \subseteq Commands,
           env.events \cap {"breaks", "overlap"} = {} => tree \subseteq tree',
           NEW p \in Process, NEW w \in Turns, Turn(p, w), Fits(w)',
           w.at = "idle" \/ validator[p].at # "idle" \/ "overlap" \in env.events
              \/ \A q \in Process : validator[q].at = "idle",
           Trying(w) => \/ ~Exceeded(Current(w))
                        \/ /\ Trying(validator[p]) /\ Current(w) = Current(validator[p])
                           /\ Recorded(w) = Recorded(validator[p])
    PROVE  ValidationInv'
<1>1. /\ ValidationTyped /\ OneCall /\ TriesCounted /\ \A v \in UnderWay : Fits(v)
      /\ "overlap" \notin env.events => \A c \in Commands : Numbered(c)
  BY DEF ValidationInv
<1>2. validator' \in [Process -> Turns] /\ validator'[p] = w /\ \A q \in Process : q # p => validator'[q] = validator[q]
  BY <1>1 DEF ValidationTyped, Turn
<1>3. ValidationTyped'
  BY <1>1, <1>2 DEF ValidationTyped
<1>4. OneCall'
  BY <1>1, <1>2 DEF OneCall
<1>5. (\A v \in UnderWay : Fits(v))'
  <2> SUFFICES ASSUME NEW v \in UnderWay' PROVE Fits(v)'
    OBVIOUS
  <2>1. v = w \/ v \in UnderWay
    BY <1>2 DEF UnderWay
  <2>2. \A u : Fits(u) => Fits(u)'
    BY FitsStays
  <2> QED BY <1>1, <2>1, <2>2
<1>6. ("overlap" \notin env.events => \A c \in Commands : Numbered(c))'
  BY <1>1, LedgerStays
<1>7. TriesCounted'
  <2> SUFFICES ASSUME env.limited, NEW c \in Commands
               PROVE  (Cardinality(AttemptsOf(c)) + Cardinality(Open(c)) <= env.checks[c].retries + Tries(c) * Callers)'
    BY DEF TriesCounted, Commands
  <2>1. /\ Cardinality(AttemptsOf(c))' = Cardinality(AttemptsOf(c)) /\ Tries(c)' = Tries(c) /\ Callers' = Callers
        /\ Exceeded(c)' = Exceeded(c)
    BY LedgerStays
  <2>2. env.checks[c].retries \in Nat /\ Tries(c) \in Nat /\ Cardinality(AttemptsOf(c)) \in Nat
    BY <1>1, ValidationSettings, AttemptsFinite DEF ValidationTyped
  <2>3. /\ Cardinality(Open(c))' <= Tries(c) * Callers /\ Cardinality(Open(c))' \in Nat /\ Callers \in Nat
        /\ IsFiniteSet(Open(c)) /\ Cardinality(Open(c)) \in Nat
    <3>1. (env \in Environment /\ OneCall)'
      BY <1>3, <1>4 DEF ValidationTyped
    <3>2. /\ IsFiniteSet(Open(c)) /\ Cardinality(Open(c)) \in Nat /\ Callers \in Nat
      BY <1>1, OpenBound DEF ValidationTyped
    <3>3. OpenBounded'
      BY <3>1, OpenBounds, PTL
    <3>4. Cardinality(Open(c))' <= Tries(c)' * Callers' /\ Cardinality(Open(c))' \in Nat
      BY <3>3 DEF OpenBounded, Commands
    <3> QED BY <2>1, <3>2, <3>4
  <2>4. CASE ~Exceeded(c)
    <3>1. Cardinality(AttemptsOf(c)) <= env.checks[c].retries
      BY <2>2, <2>4 DEF Exceeded
    <3>2. Tries(c) * Callers \in Nat
      BY <2>2, <2>3
    <3> QED BY <2>1, <2>2, <2>3, <3>1, <3>2
  <2>5. CASE Exceeded(c)
    <3>1. Open(c)' \subseteq Open(c)
      <4> SUFFICES ASSUME NEW x \in Open(c)' PROVE x \in Open(c)
        OBVIOUS
      <4>1. /\ x \in Process \X (1..Tries(c)) /\ Trying(validator'[x[1]]) /\ Current(validator'[x[1]]) = c
            /\ x[2] > Recorded(validator'[x[1]])
        BY <2>1 DEF Open, Trying, Recorded, Current
      <4>2. Trying(validator[x[1]]) /\ Current(validator[x[1]]) = c /\ Recorded(validator[x[1]]) = Recorded(validator'[x[1]])
        BY <1>2, <2>5, <4>1
      <4> QED BY <4>1, <4>2 DEF Open
    <3>2. Cardinality(Open(c)') <= Cardinality(Open(c))
      BY <2>3, <3>1, FS_Subset
    <3>3. Cardinality(AttemptsOf(c)) + Cardinality(Open(c)) <= env.checks[c].retries + Tries(c) * Callers
      BY <1>1 DEF TriesCounted
    <3>4. Cardinality(Open(c))' <= Cardinality(Open(c)) /\ Cardinality(Open(c))' \in Nat /\ Tries(c) * Callers \in Nat
      BY <2>2, <2>3, <3>2
    <3> QED BY <2>1, <2>2, <2>3, <3>3, <3>4
  <2> QED BY <2>4, <2>5
<1> QED BY <1>3, <1>4, <1>5, <1>6, <1>7 DEF ValidationInv

LEMMA WaitingFits == Waiting \in Turns /\ Waiting.at = "idle" /\ Fits(Waiting)
<1>1. /\ Waiting.at = "idle" /\ Waiting.results = {} /\ Waiting.exceeded = {} /\ Waiting.left = {}
      /\ Waiting.targets = {}
  BY DEF Waiting
<1> QED BY <1>1 DEF Waiting, Turns, NoAttempt, Attempts, Fits, Sorted, Logged, Passing, FollowsLast, Ran, Trying

LEMMA BeginValidateStep ==
    ASSUME ValidationInv, UNCHANGED env, NEW p \in Process, NEW single \in BOOLEAN,
           NEW targets \in SUBSET Commands, BeginValidate(p, single, targets)
    PROVE  ValidationInv'
<1>0. PICK w : w = [Waiting EXCEPT !.at = IF targets = {} THEN "done" ELSE "next",
                                !.single = single, !.targets = targets, !.left = targets]
  OBVIOUS
<1>1. /\ w \in Turns /\ w.at = (IF targets = {} THEN "done" ELSE "next") /\ w.targets = targets /\ w.left = targets
      /\ w.results = {} /\ w.exceeded = {}
  BY <1>0, WaitingFits DEF Waiting, Turns
<1>2. /\ validator[p].at = "idle" /\ Turn(p, w) /\ UNCHANGED <<ledger, tree>>
      /\ "overlap" \in env.events \/ \A q \in Process : validator[q].at = "idle"
  BY <1>0 DEF BeginValidate
<1>3. Fits(w)
  BY <1>1 DEF Fits, Sorted, Logged, Passing, FollowsLast, Ran, Trying
<1>4. Fits(w)' /\ ~Trying(w)
  BY <1>1, <1>2, <1>3, FitsStays DEF Trying
<1>5. tree' \subseteq Commands
  BY <1>2 DEF ValidationInv, ValidationTyped
<1> QED BY <1>1, <1>2, <1>4, <1>5, TurnStep

LEMMA StopStep ==
    ASSUME ValidationInv, UNCHANGED <<env, ledger, tree>>, NEW p \in Process, Turn(p, Waiting)
    PROVE  ValidationInv'
<1>1. Fits(Waiting)' /\ ~Trying(Waiting)
  BY WaitingFits, FitsStays DEF Trying
<1>2. tree' \subseteq Commands
  BY DEF ValidationInv, ValidationTyped
<1> QED BY <1>1, <1>2, WaitingFits, TurnStep

\* The next target, with what is known of it.
LEMMA TargetLeft ==
    ASSUME ValidationInv, NEW p \in Process, validator[p].at \in {"next", "run", "record"}
    PROVE  /\ validator[p] \in Turns /\ Fits(validator[p])
           /\ Current(validator[p]) \in validator[p].left /\ Current(validator[p]) \in Commands
<1>1. validator[p] \in Turns /\ Fits(validator[p])
  BY DEF ValidationInv, ValidationTyped, UnderWay
<1>2. validator[p].left # {} /\ validator[p].left \subseteq Commands
  BY <1>1 DEF Fits, Sorted, Turns
<1> QED BY <1>1, <1>2, CurrentLeft

LEMMA NextCommandStep ==
    ASSUME ValidationInv, UNCHANGED env, NEW p \in Process, NextCommand(p)
    PROVE  ValidationInv'
<1>0. PICK v, c : v = validator[p] /\ c = Current(v)
  OBVIOUS
<1>1. v.at = "next" /\ UNCHANGED <<ledger, tree>>
  BY <1>0 DEF NextCommand
<1>2. v \in Turns /\ Fits(v) /\ c \in v.left /\ c \in Commands
  BY <1>0, <1>1, TargetLeft
<1>3. env \in Environment /\ ledger \in Seq(Attempts) /\ tree' \subseteq Commands
  BY <1>1 DEF ValidationInv, ValidationTyped
<1>4. CASE Exceeded(c)
  <2>0. PICK w : w = [NextTarget(v, c) EXCEPT !.exceeded = @ \cup {c}]
    OBVIOUS
  <2>1. Turn(p, w)
    BY <1>0, <1>4, <2>0 DEF NextCommand
  <2>2. /\ w \in Turns /\ w.at = (IF v.left = {c} THEN "done" ELSE "next") /\ w.left = v.left \ {c}
        /\ w.targets = v.targets /\ w.results = v.results /\ w.exceeded = v.exceeded \cup {c} /\ w.edited = v.edited
    BY <1>2, <2>0 DEF NextTarget, Turns
  <2>3. Sorted(w)
    BY <1>1, <1>2, <2>2 DEF Fits, Sorted, Ran
  <2>4. ~Trying(w) /\ w.at \notin {"run", "record", "idle"}
    BY <2>2 DEF Trying
  <2>5. Logged(w)
    BY <1>2, <1>4, <2>2, <2>4 DEF Fits, Logged
  <2>6. Passing(w) /\ FollowsLast(w)
    BY <1>2, <2>2, <2>4 DEF Fits, Passing, FollowsLast
  <2>7. Fits(w)'
    BY <1>1, <2>3, <2>5, <2>6, FitsStays DEF Fits
  <2> QED BY <1>0, <1>1, <1>3, <2>1, <2>2, <2>4, <2>7, TurnStep
<1>5. CASE ~Exceeded(c)
  <2>0. PICK w : w = [v EXCEPT !.at = "run", !.number = 0]
    OBVIOUS
  <2>1. Turn(p, w)
    BY <1>0, <1>5, <2>0 DEF NextCommand
  <2>2. /\ w \in Turns /\ w.at = "run" /\ w.left = v.left /\ w.number = 0
        /\ w.targets = v.targets /\ w.results = v.results /\ w.exceeded = v.exceeded /\ w.edited = v.edited
    BY <1>2, <2>0 DEF Turns
  <2>3. Sorted(w)
    BY <1>1, <1>2, <2>2 DEF Fits, Sorted, Ran
  <2>4. Current(w) = c /\ Recorded(w) = 0
    BY <1>0, <2>2, CurrentSame DEF Recorded
  <2>5. Logged(w)
    <3>1. AttemptLimit(c) \in Nat \ {0} /\ Cardinality(AttemptsOf(c)) \in Nat
      BY <1>2, <1>3, ValidationSettings, AttemptsFinite
    <3>2. Cardinality(AttemptsOf(c)) >= 0 /\ 0 < AttemptLimit(c) /\ 0 <= AttemptLimit(c)
      BY <3>1
    <3> QED BY <1>2, <2>2, <2>4, <3>2 DEF Fits, Logged
  <2>6. Passing(w) /\ FollowsLast(w)
    BY <1>2, <2>2, <2>4 DEF Fits, Passing, FollowsLast
  <2>7. Fits(w)'
    BY <1>1, <2>3, <2>5, <2>6, FitsStays DEF Fits
  <2> QED BY <1>0, <1>1, <1>3, <1>5, <2>1, <2>2, <2>4, <2>7, TurnStep
<1> QED BY <1>4, <1>5

LEMMA RunCommandStep ==
    ASSUME ValidationInv, UNCHANGED env, NEW p \in Process, RunCommand(p)
    PROVE  ValidationInv'
<1>0. PICK v, c, fix : v = validator[p] /\ c = Current(v) /\ fix = (v.number > 0 /\ env.checks[c].fixes)
  OBVIOUS
<1>1. v.at = "run" /\ UNCHANGED ledger
  BY <1>0 DEF RunCommand
<1>2. v \in Turns /\ Fits(v) /\ c \in v.left /\ c \in Commands
  BY <1>0, <1>1, TargetLeft
<1>3. env \in Environment /\ ledger \in Seq(Attempts) /\ tree \subseteq Commands
  BY DEF ValidationInv, ValidationTyped
<1>4. CASE Turn(p, Waiting) /\ UNCHANGED tree
  BY <1>1, <1>4, StopStep
<1>5. ASSUME NEW after \in IF fix THEN AfterFix(c) ELSE {tree}, NEW exit \in ExitCodes(c, after), tree' = after,
             Turn(p, [v EXCEPT !.at = "record", !.number = @ + 1,
                               !.attempt = [command |-> c, number |-> v.number + 1, exit |-> exit, fix |-> fix]])
      PROVE  ValidationInv'
  <2>0. PICK a, w : /\ a = [command |-> c, number |-> v.number + 1, exit |-> exit, fix |-> fix]
                    /\ w = [v EXCEPT !.at = "record", !.number = @ + 1, !.attempt = a]
    OBVIOUS
  <2>1. Turn(p, w)
    BY <1>5, <2>0
  <2>2. v.number \in Nat /\ env.checks[c].fixes \in BOOLEAN /\ AttemptLimit(c) \in Nat
    BY <1>2, <1>3, ValidationSettings DEF Turns
  <2>3. a \in Attempts /\ a.command = c /\ a.number = v.number + 1 /\ a.exit = exit
    <3>1. exit \in {0, 1, 124}
      BY <1>5 DEF ExitCodes
    <3>2. fix \in BOOLEAN
      BY <1>0, <2>2
    <3> QED BY <1>2, <2>0, <2>2, <3>1, <3>2 DEF Attempts
  <2>4. /\ w \in Turns /\ w.at = "record" /\ w.left = v.left /\ w.number = v.number + 1 /\ w.attempt = a
        /\ w.targets = v.targets /\ w.results = v.results /\ w.exceeded = v.exceeded /\ w.edited = v.edited
    <3>1. w = [v EXCEPT !.at = "record", !.number = @ + 1, !.attempt = a] /\ a \in Attempts /\ v.number + 1 \in Nat
      BY <2>0, <2>2, <2>3
    <3> QED BY <1>2, <3>1 DEF Turns
  <2>5. /\ tree' \subseteq Commands
        /\ env.events \cap {"breaks", "overlap"} = {} => tree \subseteq tree'
        /\ exit = 0 => c \in tree'
    <3>1. tree' \subseteq Commands /\ (env.events \cap {"breaks", "overlap"} = {} => tree \subseteq tree')
      BY <1>2, <1>3, <1>5 DEF AfterFix
    <3>2. exit = 0 => c \in tree'
      BY <1>5 DEF ExitCodes
    <3> QED BY <3>1, <3>2
  <2>6. Current(w) = c /\ Recorded(w) = v.number /\ Recorded(v) = v.number /\ Trying(v) /\ Trying(w)
    BY <1>0, <1>1, <2>2, <2>4, CurrentSame DEF Recorded, Trying
  <2>7. Fits(v)'
    BY <1>1, <1>2, <2>5, FitsStays
  <2>8. Current(v)' = c
    BY <1>0 DEF Current
  <2>9. Sorted(w)'
    BY <1>1, <1>2, <2>4 DEF Fits, Sorted, Ran
  <2>10. Logged(w)'
    <3>1. AttemptLimit(c)' = AttemptLimit(c) /\ Cardinality(AttemptsOf(c))' = Cardinality(AttemptsOf(c))
      BY <1>1, LedgerStays
    <3>2. v.number < AttemptLimit(c) /\ Cardinality(AttemptsOf(c)) >= v.number
      BY <1>0, <1>1, <1>2, <2>6 DEF Fits, Logged
    <3>3. \A r \in v.results : r.exit # 0 => Cardinality(AttemptsOf(r.command))' >= AttemptLimit(r.command)'
      BY <2>7 DEF Fits, Logged
    <3>4. \A d \in v.exceeded : Exceeded(d)'
      BY <2>7 DEF Fits, Logged
    <3>5. v.number + 1 <= AttemptLimit(c) /\ v.number + 1 # 0
      BY <2>2, <3>2
    <3>6. Current(w)' = c /\ Trying(w)' /\ Recorded(w)' = v.number
      BY <2>6 DEF Current, Trying, Recorded
    <3> QED BY <2>3, <2>4, <3>1, <3>2, <3>3, <3>4, <3>5, <3>6 DEF Logged
  <2>11. Passing(w)'
    BY <2>3, <2>4, <2>5, <2>7 DEF Fits, Passing
  <2>12. FollowsLast(w)'
    <3>1. Current(w)' = c /\ Trying(w)' /\ Recorded(w)' = v.number /\ Trying(v)' /\ Recorded(v)' = v.number
      BY <2>6 DEF Current, Trying, Recorded
    <3> QED BY <2>7, <2>8, <3>1 DEF Fits, FollowsLast
  <2> QED BY <1>0, <1>1, <2>1, <2>4, <2>5, <2>6, <2>9, <2>10, <2>11, <2>12, TurnStep DEF Fits
<1> QED BY <1>0, <1>4, <1>5 DEF RunCommand

LEMMA EditTreeStep ==
    ASSUME ValidationInv, UNCHANGED env, EditTree
    PROVE  ValidationInv'
<1>1. /\ UNCHANGED ledger /\ tree' \subseteq Commands
      /\ validator' = [p \in Process |-> [validator[p] EXCEPT !.edited = @ \/ validator[p].at # "idle"]]
  BY DEF EditTree
<1>2. /\ ValidationTyped /\ OneCall /\ TriesCounted /\ \A v \in UnderWay : Fits(v)
      /\ "overlap" \notin env.events => \A c \in Commands : Numbered(c)
  BY DEF ValidationInv
<1>3. ASSUME NEW p \in Process
      PROVE  LET v == validator[p]
                 w == validator'[p]
             IN  /\ w \in Turns /\ w.at = v.at /\ w.targets = v.targets /\ w.left = v.left /\ w.number = v.number
                 /\ w.attempt = v.attempt /\ w.results = v.results /\ w.exceeded = v.exceeded
                 /\ v.at # "idle" => w.edited
  <2>1. validator[p] \in Turns
    BY <1>2 DEF ValidationTyped
  <2>2. validator'[p] = [validator[p] EXCEPT !.edited = @ \/ validator[p].at # "idle"]
    BY <1>1
  <2> QED BY <2>1, <2>2 DEF Turns
<1>4. ValidationTyped'
  <2>1. validator' \in [Process -> Turns]
    BY <1>1, <1>3
  <2> QED BY <1>1, <1>2, <2>1 DEF ValidationTyped
<1>5. OneCall'
  BY <1>2, <1>3 DEF OneCall
<1>6. \A c : /\ Cardinality(AttemptsOf(c))' = Cardinality(AttemptsOf(c)) /\ AttemptsOf(c)' = AttemptsOf(c)
             /\ Exceeded(c)' = Exceeded(c) /\ AttemptLimit(c)' = AttemptLimit(c) /\ Tries(c)' = Tries(c)
             /\ (Numbered(c) => Numbered(c)') /\ Callers' = Callers
  BY <1>1, LedgerStays
<1>7. (\A w \in UnderWay : Fits(w))'
  <2> SUFFICES ASSUME NEW w \in UnderWay' PROVE Fits(w)'
    OBVIOUS
  <2>1. PICK p \in Process : w = validator'[p]
    BY DEF UnderWay
  <2>0. PICK v : v = validator[p]
    OBVIOUS
  <2>2. Fits(v)
    BY <1>2, <2>0 DEF UnderWay
  <2>3. /\ w.at = v.at /\ w.targets = v.targets /\ w.left = v.left /\ w.number = v.number
        /\ w.attempt = v.attempt /\ w.results = v.results /\ w.exceeded = v.exceeded
        /\ v.at # "idle" => w.edited
    BY <1>3, <2>0, <2>1
  <2>4. Current(w) = Current(v) /\ Recorded(w) = Recorded(v) /\ Trying(w) = Trying(v) /\ Ran(w) = Ran(v)
    BY <2>3, CurrentSame DEF Recorded, Trying, Ran
  <2>5. Current(w)' = Current(w) /\ Recorded(w)' = Recorded(w) /\ Trying(w)' = Trying(w) /\ Ran(w)' = Ran(w)
    BY DEF Current, Recorded, Trying, Ran
  <2>6. Sorted(w)'
    BY <2>2, <2>3, <2>4, <2>5 DEF Fits, Sorted
  <2>7. Logged(w)'
    BY <1>6, <2>2, <2>3, <2>4, <2>5 DEF Fits, Logged
  <2>8. Passing(w)'
    <3>1. CASE v.at # "idle"
      BY <2>3, <3>1 DEF Passing
    <3>2. CASE v.at = "idle"
      <4>1. w.results = {} /\ w.at = "idle"
        BY <2>2, <2>3, <3>2 DEF Fits, Sorted, Ran
      <4> QED BY <4>1 DEF Passing
    <3> QED BY <3>1, <3>2
  <2>9. FollowsLast(w)'
    BY <1>1, <1>6, <2>2, <2>3, <2>4, <2>5 DEF Fits, FollowsLast
  <2> QED BY <2>6, <2>7, <2>8, <2>9 DEF Fits
<1>8. \A c : Open(c)' = Open(c)
  <2>1. \A p \in Process : /\ Trying(validator[p])' = Trying(validator[p]) /\ Current(validator[p])' = Current(validator[p])
                           /\ Recorded(validator[p])' = Recorded(validator[p])
    BY <1>3 DEF Trying, Current, Recorded
  <2> QED BY <1>6, <2>1 DEF Open
<1>9. TriesCounted'
  <2>1. \A c : Cardinality(Open(c))' = Cardinality(Open(c))
    BY <1>8
  <2> QED BY <1>2, <1>6, <2>1 DEF TriesCounted, Commands
<1>10. ("overlap" \notin env.events => \A c \in Commands : Numbered(c))'
  BY <1>2, <1>6
<1> QED BY <1>4, <1>5, <1>7, <1>9, <1>10 DEF ValidationInv

-----------------------------------------------------------------------------
\* recordValidationAttempt adds an attempt of one command.
LEMMA AttemptAdded ==
    ASSUME env \in Environment, ledger \in Seq(Attempts), env' = env, NEW a \in Attempts, ledger' = Append(ledger, a)
    PROVE  /\ ledger' \in Seq(Attempts) /\ Len(ledger) \in Nat
           /\ ledger'[Len(ledger) + 1] = a
           /\ \A i \in 1..Len(ledger) : ledger'[i] = ledger[i]
           /\ \A c : /\ AttemptsOf(c) \subseteq 1..Len(ledger)
                     /\ AttemptsOf(c)' = AttemptsOf(c) \cup (IF c = a.command THEN {Len(ledger) + 1} ELSE {})
                     /\ Cardinality(AttemptsOf(c))' = Cardinality(AttemptsOf(c)) + (IF c = a.command THEN 1 ELSE 0)
                     /\ Cardinality(AttemptsOf(c)) \in Nat
                     /\ AttemptLimit(c)' = AttemptLimit(c) /\ Tries(c)' = Tries(c)
           /\ \A c \in Commands : Exceeded(c) => Exceeded(c)'
           /\ Callers' = Callers
<1>1. /\ ledger' \in Seq(Attempts) /\ Len(ledger) \in Nat /\ Len(ledger') = Len(ledger) + 1
      /\ DOMAIN ledger = 1..Len(ledger) /\ DOMAIN ledger' = 1..(Len(ledger) + 1)
      /\ ledger'[Len(ledger) + 1] = a
      /\ \A i \in 1..Len(ledger) : ledger'[i] = ledger[i]
  OBVIOUS
<1>2. \A c : AttemptsOf(c) \subseteq 1..Len(ledger)
  BY <1>1 DEF AttemptsOf
<1>3. ASSUME NEW c PROVE AttemptsOf(c)' = AttemptsOf(c) \cup (IF c = a.command THEN {Len(ledger) + 1} ELSE {})
  <2>1. AttemptsOf(c)' = {i \in 1..(Len(ledger) + 1) : ledger'[i].command = c}
    BY <1>1 DEF AttemptsOf
  <2>2. AttemptsOf(c) = {i \in 1..Len(ledger) : ledger[i].command = c}
    BY <1>1 DEF AttemptsOf
  <2>3. \A i \in 1..(Len(ledger) + 1) : i \in 1..Len(ledger) \/ i = Len(ledger) + 1
    BY <1>1
  <2>4. 1..Len(ledger) \subseteq 1..(Len(ledger) + 1) /\ Len(ledger) + 1 \in 1..(Len(ledger) + 1)
    BY <1>1
  <2> QED BY <1>1, <2>1, <2>2, <2>3, <2>4
<1>4. ASSUME NEW c
      PROVE  /\ Cardinality(AttemptsOf(c))' = Cardinality(AttemptsOf(c)) + (IF c = a.command THEN 1 ELSE 0)
             /\ Cardinality(AttemptsOf(c)) \in Nat
  <2>1. IsFiniteSet(AttemptsOf(c)) /\ Cardinality(AttemptsOf(c)) \in Nat
    BY AttemptsFinite
  <2>2. CASE c = a.command
    <3>1. Len(ledger) + 1 \notin AttemptsOf(c)
      BY <1>1, <1>2
    <3>2. Cardinality(AttemptsOf(c) \cup {Len(ledger) + 1}) = Cardinality(AttemptsOf(c)) + 1
      BY <2>1, <3>1, FS_AddElement
    <3>3. AttemptsOf(c)' = AttemptsOf(c) \cup {Len(ledger) + 1}
      BY <1>3, <2>2
    <3> QED BY <2>1, <2>2, <3>2, <3>3
  <2>3. CASE c # a.command
    <3>1. AttemptsOf(c)' = AttemptsOf(c)
      BY <1>3, <2>3
    <3> QED BY <2>1, <2>3, <3>1
  <2> QED BY <2>2, <2>3
<1>5. ASSUME NEW c \in Commands, Exceeded(c) PROVE Exceeded(c)'
  <2>1. env.checks[c].retries \in Nat
    BY ValidationSettings
  <2> QED BY <1>4, <1>5, <2>1 DEF Exceeded
<1>6. \A c : AttemptLimit(c)' = AttemptLimit(c) /\ Tries(c)' = Tries(c)
  BY DEF AttemptLimit, Tries
<1>7. Callers' = Callers
  BY DEF Callers
<1> QED BY <1>1, <1>2, <1>3, <1>4, <1>5, <1>6, <1>7

LEMMA RecordAttemptStep ==
    ASSUME ValidationInv, UNCHANGED env, NEW p \in Process, RecordAttempt(p)
    PROVE  ValidationInv'
<1>0. PICK v, c : v = validator[p] /\ c = Current(v)
  OBVIOUS
<1>1. v.at = "record" /\ UNCHANGED tree
  BY <1>0 DEF RecordAttempt
<1>2. v \in Turns /\ Fits(v) /\ c \in v.left /\ c \in Commands
  BY <1>0, <1>1, TargetLeft
<1>3. /\ ValidationTyped /\ OneCall /\ TriesCounted /\ \A u \in UnderWay : Fits(u)
      /\ "overlap" \notin env.events => \A d \in Commands : Numbered(d)
  BY DEF ValidationInv
<1>4. PICK a : a = v.attempt
  OBVIOUS
<1>5. /\ a \in Attempts /\ a.command = c /\ a.number = v.number /\ v.number # 0 /\ v.number \in Nat
      /\ v.number <= AttemptLimit(c) /\ Cardinality(AttemptsOf(c)) >= v.number - 1
      /\ Trying(v) /\ Recorded(v) = v.number - 1
  BY <1>0, <1>1, <1>2, <1>4 DEF Fits, Logged, Turns, Trying, Recorded
<1>6. env \in Environment /\ ledger \in Seq(Attempts) /\ ledger' = Append(ledger, a)
  BY <1>0, <1>3, <1>4 DEF ValidationTyped, RecordAttempt
<1>7. PICK n \in Nat : n = Len(ledger)
  BY <1>6
<1>8. /\ ledger' \in Seq(Attempts) /\ ledger'[n + 1] = a
      /\ \A i \in 1..n : ledger'[i] = ledger[i]
      /\ \A d : /\ AttemptsOf(d) \subseteq 1..n
                /\ AttemptsOf(d)' = AttemptsOf(d) \cup (IF d = c THEN {n + 1} ELSE {})
                /\ Cardinality(AttemptsOf(d))' = Cardinality(AttemptsOf(d)) + (IF d = c THEN 1 ELSE 0)
                /\ Cardinality(AttemptsOf(d)) \in Nat
                /\ AttemptLimit(d)' = AttemptLimit(d) /\ Tries(d)' = Tries(d)
      /\ \A d \in Commands : Exceeded(d) => Exceeded(d)'
      /\ Callers' = Callers
  BY <1>5, <1>6, <1>7, AttemptAdded
<1>9. PICK w : w = IF SettledAttempt(v) THEN [NextTarget(v, c) EXCEPT !.results = @ \cup {a}] ELSE [v EXCEPT !.at = "run"]
  OBVIOUS
<1>10. Turn(p, w)
  BY <1>0, <1>4, <1>5, <1>9 DEF RecordAttempt
<1>11. SettledAttempt(v) <=> a.exit = 0 \/ v.number >= AttemptLimit(c)
  BY <1>4, <1>5 DEF SettledAttempt
<1>12. /\ w \in Turns /\ w.targets = v.targets /\ w.exceeded = v.exceeded /\ w.edited = v.edited /\ w.number = v.number
       /\ SettledAttempt(v) => /\ w.at = (IF v.left = {c} THEN "done" ELSE "next") /\ w.left = v.left \ {c}
                               /\ w.results = v.results \cup {a}
       /\ ~SettledAttempt(v) => w.at = "run" /\ w.left = v.left /\ w.results = v.results
  <2>1. CASE SettledAttempt(v)
    <3>1. w = [NextTarget(v, c) EXCEPT !.results = @ \cup {a}]
      BY <1>9, <2>1
    <3> QED BY <1>2, <1>5, <2>1, <3>1 DEF NextTarget, Turns
  <2>2. CASE ~SettledAttempt(v)
    <3>1. w = [v EXCEPT !.at = "run"]
      BY <1>9, <2>2
    <3> QED BY <1>2, <2>2, <3>1 DEF Turns
  <2> QED BY <2>1, <2>2
<1>13. validator' \in [Process -> Turns] /\ validator'[p] = w /\ \A q \in Process : q # p => validator'[q] = validator[q]
  BY <1>3, <1>10, <1>12 DEF ValidationTyped, Turn
<1>14. ValidationTyped'
  BY <1>1, <1>3, <1>8, <1>13 DEF ValidationTyped
<1>15. OneCall'
  BY <1>0, <1>1, <1>3, <1>13 DEF OneCall
<1>16. AttemptLimit(c) \in Nat \ {0} /\ Tries(c) \in Nat \ {0} /\ (env.limited => AttemptLimit(c) = Tries(c))
  BY <1>2, <1>6, ValidationSettings
\* What the other calls know stays true.
<1>17. ASSUME NEW u \in UnderWay, u # v \/ "overlap" \in env.events PROVE Fits(u)'
  <2>1. Fits(u) /\ u \in Turns
    BY <1>3 DEF UnderWay, ValidationTyped
  <2>2. Sorted(u)'
    BY <2>1 DEF Fits, Sorted, Ran
  <2>3. \A d : Cardinality(AttemptsOf(d))' \in Nat /\ Cardinality(AttemptsOf(d))' >= Cardinality(AttemptsOf(d))
    BY <1>8
  <2>4. Logged(u)'
    <3>1. Current(u)' = Current(u) /\ Trying(u)' = Trying(u) /\ Recorded(u)' = Recorded(u)
      BY DEF Current, Trying, Recorded
    <3>2. Trying(u) => /\ u.number <= AttemptLimit(Current(u)) /\ Cardinality(AttemptsOf(Current(u))) >= Recorded(u)
                       /\ Recorded(u) \in Int
      BY <2>1 DEF Fits, Logged, Recorded, Turns
    <3>3. Trying(u) => Cardinality(AttemptsOf(Current(u)))' >= Recorded(u)
      BY <1>8, <2>3, <3>2
    <3>4. \A r \in u.results : r.exit # 0 => Cardinality(AttemptsOf(r.command))' >= AttemptLimit(r.command)'
      <4> SUFFICES ASSUME NEW r \in u.results, r.exit # 0
                   PROVE  Cardinality(AttemptsOf(r.command))' >= AttemptLimit(r.command)'
        OBVIOUS
      <4>1. Cardinality(AttemptsOf(r.command)) >= AttemptLimit(r.command)
        BY <2>1 DEF Fits, Logged
      <4>2. r.command \in Commands
        BY <2>1 DEF Fits, Sorted, Ran, Turns
      <4>3. AttemptLimit(r.command) \in Nat
        BY <1>6, <4>2, ValidationSettings
      <4> QED BY <1>8, <2>3, <4>1, <4>3
    <3>5. \A d \in u.exceeded : Exceeded(d)'
      BY <1>8, <2>1 DEF Fits, Logged, Turns
    <3>6. u.at = "run" => u.number < AttemptLimit(Current(u))'
      BY <1>8, <2>1 DEF Fits, Logged
    <3>7. u.at = "record" => u.attempt.command = Current(u) /\ u.attempt.number = u.number /\ u.number # 0
      BY <2>1 DEF Fits, Logged
    <3> QED BY <1>8, <3>1, <3>2, <3>3, <3>4, <3>5, <3>6, <3>7 DEF Logged
  <2>5. Passing(u)'
    BY <1>1, <2>1 DEF Fits, Passing
  <2>6. FollowsLast(u)'
    <3>1. CASE "overlap" \in env.events
      BY <3>1 DEF FollowsLast
    <3>2. CASE "overlap" \notin env.events
      <4>1. u.at = "idle"
        BY <1>0, <1>1, <1>3, <1>17, <3>2 DEF OneCall, UnderWay
      <4> QED BY <4>1 DEF FollowsLast, Trying
    <3> QED BY <3>1, <3>2
  <2> QED BY <2>2, <2>4, <2>5, <2>6 DEF Fits
<1>18. Fits(w)'
  <2>1. Sorted(w)'
    <3>1. CASE SettledAttempt(v)
      <4>1. Ran(w) = Ran(v) \cup {c}
        BY <1>5, <1>12, <3>1 DEF Ran
      <4>2. Sorted(w)
        BY <1>1, <1>2, <1>12, <3>1, <4>1 DEF Fits, Sorted
      <4> QED BY <4>2 DEF Sorted, Ran
    <3>2. CASE ~SettledAttempt(v)
      <4>1. Sorted(w)
        BY <1>1, <1>2, <1>12, <3>2 DEF Fits, Sorted, Ran
      <4> QED BY <4>1 DEF Sorted, Ran
    <3> QED BY <3>1, <3>2
  <2>2. Cardinality(AttemptsOf(c))' \in Nat /\ Cardinality(AttemptsOf(c))' >= v.number
    BY <1>5, <1>8
  <2>3. \A r \in v.results \cup {a} : r.exit # 0 /\ (r = a => v.number >= AttemptLimit(c)) =>
            Cardinality(AttemptsOf(r.command))' >= AttemptLimit(r.command)'
    <3> SUFFICES ASSUME NEW r \in v.results \cup {a}, r.exit # 0, r = a => v.number >= AttemptLimit(c)
                 PROVE  Cardinality(AttemptsOf(r.command))' >= AttemptLimit(r.command)'
      OBVIOUS
    <3>1. CASE r = a
      BY <1>5, <1>8, <1>16, <2>2, <3>1
    <3>2. CASE r \in v.results
      <4>1. Cardinality(AttemptsOf(r.command)) >= AttemptLimit(r.command)
        BY <1>2, <3>2 DEF Fits, Logged
      <4>2. r.command \in Commands
        BY <1>2, <3>2 DEF Fits, Sorted, Ran, Turns
      <4>3. AttemptLimit(r.command) \in Nat
        BY <1>6, <4>2, ValidationSettings
      <4> QED BY <1>8, <4>1, <4>3
    <3> QED BY <3>1, <3>2
  <2>4. \A d \in v.exceeded : Exceeded(d)'
    BY <1>2, <1>8 DEF Fits, Logged, Turns
  <2>5. Logged(w)'
    <3>1. CASE SettledAttempt(v)
      <4>1. ~Trying(w)' /\ w.at \notin {"run", "record"}
        BY <1>12, <3>1 DEF Trying
      <4> QED BY <1>11, <1>12, <2>3, <2>4, <3>1, <4>1 DEF Logged
    <3>2. CASE ~SettledAttempt(v)
      <4>1. Current(w)' = c /\ Recorded(w)' = v.number
        BY <1>0, <1>12, <3>2 DEF Current, Recorded
      <4>2. v.number < AttemptLimit(c)
        BY <1>5, <1>11, <1>16, <3>2
      <4>3. \A r \in v.results : r.exit # 0 => Cardinality(AttemptsOf(r.command))' >= AttemptLimit(r.command)'
        <5> SUFFICES ASSUME NEW r \in v.results, r.exit # 0
                     PROVE  Cardinality(AttemptsOf(r.command))' >= AttemptLimit(r.command)'
          OBVIOUS
        <5>1. r.command # c
          BY <1>2 DEF Fits, Sorted, Ran
        <5> QED BY <1>5, <2>3, <5>1
      <4> QED BY <1>5, <1>8, <1>12, <2>2, <2>4, <3>2, <4>1, <4>2, <4>3 DEF Logged
    <3> QED BY <3>1, <3>2
  <2>6. Passing(w)'
    <3>1. env.events \cap {"breaks", "overlap"} = {} /\ ~v.edited /\ a.exit = 0 => c \in tree
      BY <1>1, <1>2, <1>4, <1>5 DEF Fits, Passing
    <3> QED BY <1>1, <1>2, <1>5, <1>12, <3>1 DEF Fits, Passing
  <2>7. FollowsLast(w)'
    <3>1. CASE SettledAttempt(v)
      BY <1>12, <3>1 DEF FollowsLast, Trying
    <3>2. CASE ~SettledAttempt(v)
      <4>1. Current(w)' = c /\ Recorded(w)' = v.number
        BY <1>0, <1>12, <3>2 DEF Current, Recorded
      <4>2. n + 1 \in AttemptsOf(c)' /\ \A k \in AttemptsOf(c)' : k <= n + 1
        BY <1>8
      <4>3. ledger'[n + 1].number = v.number /\ ledger'[n + 1].exit # 0
        BY <1>5, <1>8, <1>11, <3>2
      <4> QED BY <4>1, <4>2, <4>3 DEF FollowsLast
    <3> QED BY <3>1, <3>2
  <2> QED BY <2>1, <2>5, <2>6, <2>7 DEF Fits
<1>19. (\A u \in UnderWay : Fits(u))'
  <2> SUFFICES ASSUME NEW u \in UnderWay' PROVE Fits(u)'
    OBVIOUS
  <2>1. u = w \/ u \in UnderWay
    BY <1>13 DEF UnderWay
  <2>2. CASE u = w
    BY <1>18, <2>2
  <2>3. CASE u \in UnderWay /\ u # v
    BY <1>17, <2>3
  <2>4. CASE u = v /\ u # w
    <3>1. PICK q \in Process : u = validator'[q]
      BY DEF UnderWay
    <3>2. q # p /\ validator[q] = v
      BY <1>13, <2>4, <3>1
    <3>3. "overlap" \in env.events
      BY <1>0, <1>1, <1>3, <3>2 DEF OneCall
    <3>4. v \in UnderWay
      BY <1>0 DEF UnderWay
    <3> QED BY <1>17, <2>4, <3>3, <3>4
  <2> QED BY <2>1, <2>2, <2>3, <2>4
\* One attempt more in the ledger, one less to come.
<1>20. TriesCounted'
  <2> SUFFICES ASSUME env.limited, NEW d \in Commands
               PROVE  (Cardinality(AttemptsOf(d)) + Cardinality(Open(d)) <= env.checks[d].retries + Tries(d) * Callers)'
    BY DEF TriesCounted, Commands
  <2>1. /\ env.checks[d].retries \in Nat /\ Tries(d) \in Nat
        /\ IsFiniteSet(Open(d)) /\ Cardinality(Open(d)) \in Nat /\ Callers \in Nat
    BY <1>3, <1>6, ValidationSettings, OpenBound
  <2>2. Tries(d) * Callers \in Nat
    BY <2>1
  <2>3. OpenBounded'
    <3>1. (env \in Environment /\ OneCall)'
      BY <1>14, <1>15 DEF ValidationTyped
    <3> QED BY <3>1, OpenBounds, PTL
  <2>4. Cardinality(Open(d))' \in Nat /\ IsFiniteSet(Open(d))'
    BY <2>3 DEF OpenBounded, Commands
  <2>5. Cardinality(AttemptsOf(d)) + Cardinality(Open(d)) <= env.checks[d].retries + Tries(d) * Callers
    BY <1>3 DEF TriesCounted
  <2>6. Open(d)' \subseteq Open(d) \ (IF d = c THEN {<<p, v.number>>} ELSE {})
    <3> SUFFICES ASSUME NEW x \in Open(d)' PROVE x \in Open(d) /\ (d = c => x # <<p, v.number>>)
      OBVIOUS
    <3>1. /\ x \in Process \X (1..Tries(d)) /\ Trying(validator'[x[1]]) /\ Current(validator'[x[1]]) = d
          /\ x[2] > Recorded(validator'[x[1]])
      BY <1>8 DEF Open, Trying, Recorded, Current
    <3>2. CASE x[1] # p
      BY <1>13, <3>1, <3>2 DEF Open
    <3>3. CASE x[1] = p
      <4>1. ~SettledAttempt(v) /\ w.at = "run" /\ w.left = v.left /\ validator'[p] = w
        BY <1>12, <1>13, <3>1, <3>3 DEF Trying
      <4>2. Current(w) = c /\ Recorded(w) = v.number
        BY <1>0, <1>12, <4>1, CurrentSame DEF Recorded
      <4>3. d = c /\ x[2] > v.number /\ x[2] > v.number - 1
        BY <1>5, <2>1, <3>1, <3>3, <4>1, <4>2
      <4>4. x # <<p, v.number>>
        BY <1>5, <2>1, <3>1, <4>3
      <4> QED BY <1>0, <1>5, <3>1, <3>3, <4>3, <4>4 DEF Open
    <3> QED BY <3>2, <3>3
  <2>7. CASE d = c
    <3>1. <<p, v.number>> \in Open(c)
      <4>1. v.number \in 1..Tries(c) /\ v.number > v.number - 1
        BY <1>5, <1>16
      <4> QED BY <1>0, <1>5, <4>1 DEF Open
    <3>2. Cardinality(Open(c) \ {<<p, v.number>>}) = Cardinality(Open(c)) - 1 /\ IsFiniteSet(Open(c) \ {<<p, v.number>>})
      BY <2>1, <2>7, <3>1, FS_RemoveElement
    <3>3. Cardinality(Open(c)') <= Cardinality(Open(c) \ {<<p, v.number>>})
      BY <2>6, <2>7, <3>2, FS_Subset
    <3>4. Cardinality(Open(c))' <= Cardinality(Open(c)) - 1 /\ Cardinality(AttemptsOf(c))' = Cardinality(AttemptsOf(c)) + 1
      BY <1>8, <3>2, <3>3
    <3> QED BY <1>8, <2>1, <2>2, <2>4, <2>5, <2>7, <3>4
  <2>8. CASE d # c
    <3>1. Cardinality(Open(d)') <= Cardinality(Open(d))
      BY <2>1, <2>6, <2>8, FS_Subset
    <3>2. Cardinality(Open(d))' <= Cardinality(Open(d)) /\ Cardinality(AttemptsOf(d))' = Cardinality(AttemptsOf(d))
      BY <1>8, <2>8, <3>1
    <3> QED BY <1>8, <2>1, <2>2, <2>4, <2>5, <3>2
  <2> QED BY <2>7, <2>8
<1>21. ("overlap" \notin env.events => \A d \in Commands : Numbered(d))'
  <2> SUFFICES ASSUME "overlap" \notin env.events, NEW d \in Commands PROVE Numbered(d)'
    BY DEF Commands
  <2>1. Numbered(d)
    BY <1>3
  <2> SUFFICES ASSUME NEW i \in AttemptsOf(d)', ledger'[i].number > 1
               PROVE  \E j \in AttemptsOf(d)' :
                        /\ j < i /\ \A k \in AttemptsOf(d)' : k <= j \/ k >= i
                        /\ ledger'[j].number = ledger'[i].number - 1 /\ ledger'[j].exit # 0
    BY DEF Numbered
  <2>2. CASE i \in AttemptsOf(d)
    <3>1. i \in 1..n /\ ledger'[i] = ledger[i]
      BY <1>8, <2>2
    <3>2. PICK j \in AttemptsOf(d) :
            /\ j < i /\ \A k \in AttemptsOf(d) : k <= j \/ k >= i
            /\ ledger[j].number = ledger[i].number - 1 /\ ledger[j].exit # 0
      BY <2>1, <2>2, <3>1 DEF Numbered
    <3>3. j \in AttemptsOf(d)' /\ ledger'[j] = ledger[j]
      BY <1>8
    <3>4. \A k \in AttemptsOf(d)' : k <= j \/ k >= i
      BY <1>8, <3>1, <3>2
    <3> QED BY <3>1, <3>2, <3>3, <3>4
  <2>3. CASE i \notin AttemptsOf(d)
    <3>1. d = c /\ i = n + 1 /\ ledger'[i] = a
      BY <1>8, <2>3
    <3>2. Recorded(v) > 0
      BY <1>5, <3>1
    <3>3. PICK j \in AttemptsOf(c) :
            /\ \A k \in AttemptsOf(c) : k <= j
            /\ ledger[j].number = v.number - 1 /\ ledger[j].exit # 0
      BY <1>0, <1>2, <1>5, <3>2 DEF Fits, FollowsLast
    <3>4. j \in AttemptsOf(c)' /\ ledger'[j] = ledger[j] /\ j < n + 1
      BY <1>8
    <3>5. \A k \in AttemptsOf(c)' : k <= j \/ k >= n + 1
      BY <1>8, <3>3
    <3> QED BY <1>5, <3>1, <3>3, <3>4, <3>5
  <2> QED BY <2>2, <2>3
<1> QED BY <1>14, <1>15, <1>19, <1>20, <1>21 DEF ValidationInv

-----------------------------------------------------------------------------
LEMMA ValidationStep == ValidationInv /\ [Next]_vars => ValidationInv'
<1> SUFFICES ASSUME ValidationInv, [Next]_vars PROVE ValidationInv'
  OBVIOUS
\* Nothing of it changes.
<1>1. ASSUME UNCHANGED <<env, ledger, tree, validator>> PROVE ValidationInv'
  <2>1. UnderWay' = UnderWay /\ ValidationTyped' /\ OneCall'
    BY <1>1 DEF ValidationInv, UnderWay, ValidationTyped, OneCall
  <2>2. \A w \in UnderWay : Fits(w)'
    BY <1>1, FitsStays DEF ValidationInv
  <2>3. \A c : Cardinality(AttemptsOf(c))' = Cardinality(AttemptsOf(c)) /\ (Numbered(c) => Numbered(c)')
               /\ Tries(c)' = Tries(c) /\ Callers' = Callers
    BY <1>1, LedgerStays
  <2>4. \A c : Open(c)' = Open(c)
    BY <1>1, <2>3 DEF Open, Trying, Recorded, Current
  <2>5. \A c : Cardinality(Open(c))' = Cardinality(Open(c))
    BY <2>4
  <2>6. TriesCounted'
    BY <1>1, <2>3, <2>5 DEF ValidationInv, TriesCounted, Commands
  <2> QED BY <1>1, <2>1, <2>2, <2>3, <2>6 DEF ValidationInv
<1>2. CASE UNCHANGED vars
  BY <1>1, <1>2 DEF vars, validationVars
<1>3. CASE Next
  <2>1. UNCHANGED env
    BY <1>3 DEF Next
  <2>2. CASE UNCHANGED validationVars
    BY <1>1, <2>1, <2>2 DEF validationVars
  <2>3. CASE ValidationNext
    <3>1. CASE InitializeRegistry
      BY <1>1, <2>1, <3>1 DEF InitializeRegistry
    <3>2. CASE EditTree
      BY <2>1, <3>2, EditTreeStep
    <3>3. ASSUME NEW p \in Process, NEW c \in Commands, BeginValidate(p, TRUE, {c}) PROVE ValidationInv'
      BY <2>1, <3>3, BeginValidateStep
    <3>4. ASSUME NEW p \in Process, BeginValidate(p, FALSE, Required) PROVE ValidationInv'
      <4>1. Required \in SUBSET Commands
        BY DEF Required
      <4> QED BY <2>1, <3>4, <4>1, BeginValidateStep
    <3>5. ASSUME NEW p \in Process, NextCommand(p) PROVE ValidationInv'
      BY <2>1, <3>5, NextCommandStep
    <3>6. ASSUME NEW p \in Process, RunCommand(p) PROVE ValidationInv'
      BY <2>1, <3>6, RunCommandStep
    <3>7. ASSUME NEW p \in Process, RecordAttempt(p) PROVE ValidationInv'
      BY <2>1, <3>7, RecordAttemptStep
    <3>8. ASSUME NEW p \in Process, EndValidation(p) \/ CrashValidator(p) PROVE ValidationInv'
      BY <2>1, <3>8, StopStep DEF EndValidation, CrashValidator
    <3> QED BY <2>3, <3>1, <3>2, <3>3, <3>4, <3>5, <3>6, <3>7, <3>8 DEF ValidationNext
  <2> QED BY <1>3, <2>2, <2>3 DEF Next
<1> QED BY <1>2, <1>3

LEMMA ValidationAgrees == ValidationInv => ValidationSound
<1> SUFFICES ASSUME ValidationInv PROVE ValidationSound
  OBVIOUS
<1>1. /\ ValidationTyped /\ OneCall /\ TriesCounted /\ \A w \in UnderWay : Fits(w)
      /\ "overlap" \notin env.events => \A c \in Commands : Numbered(c)
  BY DEF ValidationInv
<1>2. SuccessMeansPassing
  <2> SUFFICES ASSUME NEW p \in Process, NEW v, v = validator[p], v.at = "done",
                      NEW passed, passed = {r.command : r \in {r \in v.results : r.exit = 0}}
               PROVE  /\ ExitOf(v) = 0 =>
                            /\ v.exceeded = {}
                            /\ env.events \cap {"breaks", "overlap"} = {} /\ ~v.edited => v.targets \subseteq tree
                      /\ ExitOf(v) = 10 =>
                            /\ Ran(v) = v.targets
                            /\ \E c \in Ran(v) \ passed : Cardinality(AttemptsOf(c)) >= AttemptLimit(c)
                      /\ ExitOf(v) \in {1, 11} =>
                            \E c \in v.targets \ Ran(v) : Cardinality(AttemptsOf(c)) >= env.checks[c].retries + 1
    BY DEF SuccessMeansPassing, Ran
  <2>1. Fits(v) /\ v \in Turns
    BY <1>1 DEF UnderWay, ValidationTyped
  <2>2. v.targets = Ran(v) \cup v.exceeded /\ Ran(v) \cap v.exceeded = {}
    BY <2>1 DEF Fits, Sorted
  <2>3. ASSUME ExitOf(v) = 0
        PROVE  /\ v.exceeded = {}
               /\ env.events \cap {"breaks", "overlap"} = {} /\ ~v.edited => v.targets \subseteq tree
    <3>1. Success(v)
      BY <2>3 DEF ExitOf
    <3>2. \A c \in v.targets : \E r \in v.results : r.command = c /\ r.exit = 0
      BY <3>1 DEF Success
    <3>3. v.exceeded = {}
      BY <2>2, <3>2 DEF Ran
    <3> QED BY <2>1, <3>2, <3>3 DEF Fits, Passing
  <2>4. ASSUME ExitOf(v) = 10
        PROVE  /\ Ran(v) = v.targets
               /\ \E c \in Ran(v) \ passed : Cardinality(AttemptsOf(c)) >= AttemptLimit(c)
    <3>1. ~Success(v) /\ v.exceeded = {}
      BY <2>4 DEF ExitOf
    <3>2. PICK c \in v.targets : \A r \in v.results : r.command = c => r.exit # 0
      BY <3>1 DEF Success
    <3>3. Ran(v) = v.targets
      BY <2>2, <3>1
    <3>4. PICK r \in v.results : r.command = c
      BY <3>2, <3>3 DEF Ran
    <3>5. Cardinality(AttemptsOf(c)) >= AttemptLimit(c)
      BY <2>1, <3>2, <3>4 DEF Fits, Logged
    <3> QED BY <3>2, <3>3, <3>5
  <2>5. ASSUME ExitOf(v) \in {1, 11}
        PROVE  \E c \in v.targets \ Ran(v) : Cardinality(AttemptsOf(c)) >= env.checks[c].retries + 1
    <3>1. PICK c : c \in v.exceeded
      BY <2>5 DEF ExitOf
    <3> QED BY <2>1, <2>2, <3>1 DEF Fits, Logged, Exceeded
  <2> QED BY <2>3, <2>4, <2>5
<1>3. AttemptsBounded
  <2>1. ASSUME env.limited, NEW c \in Commands
        PROVE  Cardinality(AttemptsOf(c)) <=
                env.checks[c].retries
                    + (env.checks[c].retries + 1) * (IF "overlap" \in env.events THEN Cardinality(Process) ELSE 1)
    <3>1. Cardinality(AttemptsOf(c)) + Cardinality(Open(c)) <= env.checks[c].retries + Tries(c) * Callers
      BY <1>1, <2>1 DEF TriesCounted
    <3>2. /\ Cardinality(AttemptsOf(c)) \in Nat /\ Cardinality(Open(c)) \in Nat /\ Callers \in Nat
          /\ env.checks[c].retries \in Nat /\ Tries(c) \in Nat
      BY <1>1, AttemptsFinite, OpenBound, ValidationSettings DEF ValidationTyped
    <3>3. Tries(c) * Callers \in Nat
      BY <3>2
    <3>4. Cardinality(AttemptsOf(c)) <= env.checks[c].retries + Tries(c) * Callers
      BY <3>1, <3>2, <3>3
    <3> QED BY <3>4 DEF Tries, Callers
  <2>2. env.events \cap {"overlap"} = {} => \A c \in Commands : Numbered(c)
    BY <1>1
  <2> QED BY <2>1, <2>2 DEF AttemptsBounded, Numbered
<1> QED BY <1>2, <1>3 DEF ValidationSound

(***************************************************************************)
(* For any commands, limits and processes: success means that everything   *)
(* required passes, the exit code tells what happened, and the attempts of *)
(* a command are bounded and numbered without a gap.                       *)
(* (executeAllValidations, executeValidationWithAutoFix)                   *)
(***************************************************************************)
THEOREM ValidationTrue == Spec => []ValidationSound
<1>1. Init => ValidationInv
  BY ValidationStart
<1>2. ValidationInv /\ [Next]_vars => ValidationInv'
  BY ValidationStep
<1>3. ValidationInv => ValidationSound
  BY ValidationAgrees
<1> QED BY <1>1, <1>2, <1>3, PTL DEF Spec
=============================================================================
