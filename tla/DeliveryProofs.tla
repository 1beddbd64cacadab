--------------------------- MODULE DeliveryProofs ---------------------------
(***************************************************************************)
(* Theorems about Delivery.tla, for all processes and environments.        *)
(*                                                                         *)
(* Patches and branches: a worker checks the allow list, the tree and the  *)
(* branch at one step and relies on them at a later one.  The invariant    *)
(* says what it may rely on at each place, for overlapping workers and,    *)
(* more of it, for operations that follow one another.                     *)
(*                                                                         *)
(* Requests: one may take effect at once, later, or never, and its caller  *)
(* may have given it up by then.  The invariant therefore counts: what     *)
(* took effect, what may still arrive and what the caller may still send   *)
(* are together no more than what its calls allow, for any number of       *)
(* retries and any backoff.                                                *)
(*                                                                         *)
(* Pull requests: a process reads GitHub over several requests and judges  *)
(* afterwards.  What it has in its hands stays true because GitHub takes   *)
(* nothing of it back as long as the pull request is calm; of commands     *)
(* that follow one another the records say so, and a merge is kept under   *)
(* the lock of the run.                                                    *)
(*                                                                         *)
(* Agents: a session that is to call a provider has a manifest of it at    *)
(* hand, the registered one unless it was edited meanwhile, and has not    *)
(* called it before; it is open only while its process is at work, and a   *)
(* process remembers the sessions of the last hour.  What is counted was   *)
(* charged and answered, once; between processes that follow one another   *)
(* the file of the costs is what the log adds up to.                       *)
(***************************************************************************)
EXTENDS Delivery, FiniteSetTheorems, TLAPS

-----------------------------------------------------------------------------
(* Patching.tla *)

Content == Patch \cup NotThere
Place == {"idle", "clean", "check", "snapshot", "apply", "summary", "manifest", "release", "pause", "applied", "failed",
          "base", "branch", "save", "push", "pushed", "commit", "committed"}
Hand ==
    [at : Place, patch : Patch \cup {"none"}, branch : Branch \cup {"none"}, base : SUBSET Content,
     result : {"none", "blocked", "applied", "paused"}]

PatchTyped ==
    /\ env \in Environment
    /\ repo \in [branch : Branch, tips : [Branch -> SUBSET Content], edits : SUBSET Patch, staged : BOOLEAN]
    /\ origin \in [Branch -> SUBSET Content]
    /\ snapshots \in Seq([patch : Patch, tip : SUBSET Content, clean : BOOLEAN])
    /\ patchRun \in [paused : BOOLEAN, last : Patch \cup {"none"}, recorded : SUBSET Patch, summaries : SUBSET Patch]
    /\ worker \in [Process -> Hand]

InTree(patch) == patch \in repo.edits \/ \E b \in Branch : patch \in repo.tips[b]

\* A patch under way is one that is allowed; once applied it is in the tree or on a branch.
Carried ==
    \A p \in Process :
        LET w == worker[p]
        IN  /\ w.at \in {"clean", "check", "snapshot", "apply", "summary", "manifest"} =>
                    w.patch \in Patch /\ env.patches[w.patch].allowed
            /\ w.at = "summary" => InTree(w.patch)
            /\ w.at = "manifest" => w.patch \in patchRun.summaries
            /\ w.at \in {"base", "branch", "save", "push"} => w.branch \in Branch

\* Only allowed patches are on disk, and the summaries and the manifest name none that is not.
Landed ==
    /\ patchRun.recorded \subseteq patchRun.summaries
    /\ \A patch \in patchRun.summaries : InTree(patch)
    /\ \A patch \in repo.edits \cup patchRun.recorded : env.patches[patch].allowed

\* A branch that was pushed is not protected, and what GitHub has of it is there locally.
Pushed == \A b \in Branch : origin[b] # NotThere => ~Protected(b) /\ origin[b] \subseteq repo.tips[b]

\* While operations follow one another, what was checked still holds when it is relied on.
OneAtATime ==
    "overlap" \notin env.events =>
        /\ \A p, q \in Process : worker[p].at # "idle" /\ worker[q].at # "idle" => p = q
        /\ \A p \in Process :
            /\ worker[p].at \in {"check", "snapshot", "apply"} => repo.edits = {}
            /\ worker[p].at = "apply" =>
                    snapshots[Len(snapshots)].patch = worker[p].patch /\ snapshots[Len(snapshots)].clean
            /\ worker[p].at = "commit" => ~Protected(repo.branch)
        /\ repo.edits # {} =>
                repo.edits = {snapshots[Len(snapshots)].patch} /\ snapshots[Len(snapshots)].clean
        /\ repo.tips["main"] = {}

PatchInv == PatchTyped /\ Carried /\ Landed /\ Pushed /\ OneAtATime

-----------------------------------------------------------------------------
LEMMA PatchStart == Init => PatchInv
<1> SUFFICES ASSUME Init PROVE PatchInv
  OBVIOUS
<1>1. /\ env \in Environment /\ origin = [b \in Branch |-> NotThere] /\ snapshots = <<>>
      /\ repo = [branch |-> env.branch, tips |-> [b \in Branch |-> IF b \in {"main", env.branch} THEN {} ELSE NotThere],
                 edits |-> {}, staged |-> FALSE]
      /\ patchRun = [paused |-> FALSE, last |-> "none", recorded |-> {}, summaries |-> {}]
      /\ worker = [p \in Process |-> Rested]
  BY DEF Init, PatchingInit
<1>2. env.branch \in Branch
  BY <1>1, PatchAssumption
<1>3. Rested \in Hand /\ Rested.at = "idle"
  BY DEF Rested, Hand, Content, Place
<1>4. /\ repo.branch = env.branch /\ repo.edits = {} /\ repo.staged = FALSE
      /\ repo.tips = [b \in Branch |-> IF b \in {"main", env.branch} THEN {} ELSE NotThere]
  BY <1>1
<1>5. repo.tips \in [Branch -> SUBSET Content]
  BY <1>4 DEF Content
<1>6. \A p \in Process : worker[p] = Rested
  BY <1>1
<1>7. PatchTyped
  <2>1. repo \in [branch : Branch, tips : [Branch -> SUBSET Content], edits : SUBSET Patch, staged : BOOLEAN]
    <3> DEFINE t == [b \in Branch |-> IF b \in {"main", env.branch} THEN {} ELSE NotThere]
    <3>1. repo = [branch |-> env.branch, tips |-> t, edits |-> {}, staged |-> FALSE] /\ t \in [Branch -> SUBSET Content]
      BY <1>1, <1>4, <1>5
    <3> HIDE DEF t
    <3> QED BY <1>2, <3>1
  <2>2. origin \in [Branch -> SUBSET Content]
    BY <1>1 DEF Content
  <2>3. patchRun \in [paused : BOOLEAN, last : Patch \cup {"none"}, recorded : SUBSET Patch, summaries : SUBSET Patch]
    BY <1>1
  <2>4. snapshots \in Seq([patch : Patch, tip : SUBSET Content, clean : BOOLEAN])
    BY <1>1
  <2>5. worker \in [Process -> Hand]
    BY <1>1, <1>3
  <2> QED BY <1>1, <2>1, <2>2, <2>3, <2>4, <2>5 DEF PatchTyped
<1>8. Carried
  BY <1>3, <1>6 DEF Carried
<1>9. Landed
  BY <1>1, <1>4 DEF Landed
<1>10. Pushed
  BY <1>1 DEF Pushed
<1>11. OneAtATime
  BY <1>3, <1>4, <1>6 DEF OneAtATime, Branch
<1> QED BY <1>7, <1>8, <1>9, <1>10, <1>11 DEF PatchInv

-----------------------------------------------------------------------------
LEMMA HandMoves ==
    ASSUME PatchTyped, NEW p \in Process, NEW w \in Hand, Do(p, w)
    PROVE  worker' \in [Process -> Hand] /\ worker'[p] = w /\ \A q \in Process : q # p => worker'[q] = worker[q]
BY DEF PatchTyped, Do

\* A process goes on, and neither the tree nor the branches nor what is recorded of patches change.
LEMMA HandStep ==
    ASSUME PatchInv, UNCHANGED <<env, repo, origin, snapshots>>,
           patchRun' \in [paused : BOOLEAN, last : Patch \cup {"none"}, recorded : SUBSET Patch, summaries : SUBSET Patch],
           patchRun'.recorded = patchRun.recorded, patchRun'.summaries = patchRun.summaries,
           NEW p \in Process, NEW w \in Hand, Do(p, w),
           w.at \notin {"apply", "summary", "manifest"},
           w.at \in {"clean", "check", "snapshot"} => w.patch \in Patch /\ env.patches[w.patch].allowed,
           w.at \in {"base", "branch", "save", "push"} => w.branch \in Branch,
           "overlap" \notin env.events =>
                /\ worker[p].at # "idle" \/ \A q \in Process : worker[q].at = "idle"
                /\ w.at \in {"check", "snapshot"} => repo.edits = {}
                /\ w.at = "commit" => ~Protected(repo.branch)
    PROVE  PatchInv'
<1>1. PatchTyped /\ Carried /\ Landed /\ Pushed /\ OneAtATime
  BY DEF PatchInv
<1>2. worker' \in [Process -> Hand] /\ worker'[p] = w /\ \A q \in Process : q # p => worker'[q] = worker[q]
  BY <1>1, HandMoves
<1>3. \A patch : InTree(patch)' <=> InTree(patch)
  BY DEF InTree
<1>4. PatchTyped'
  BY <1>1, <1>2 DEF PatchTyped, Hand, Content, Patch
<1>5. Carried'
  BY <1>1, <1>2, <1>3 DEF Carried, Patch
<1>6. Landed' /\ Pushed'
  BY <1>1, <1>3 DEF Landed, Pushed
<1>7. OneAtATime'
  BY <1>1, <1>2 DEF OneAtATime
<1> QED BY <1>4, <1>5, <1>6, <1>7 DEF PatchInv

LEMMA PatchWaits ==
    ASSUME PatchInv, env' = env, NEW p \in Process,
           \/ \E patch \in Patch : BeginPatch(p, patch)
           \/ CheckClean(p) \/ CheckApplies(p) \/ ReleaseFailed(p) \/ PauseRun(p) \/ Leave(p)
    PROVE  PatchInv'
<1> DEFINE w == worker[p]
<1>1. PatchTyped /\ Carried /\ OneAtATime
  BY DEF PatchInv
<1>2. w \in Hand /\ Rested \in Hand /\ Rested.at = "idle"
  BY <1>1 DEF PatchTyped, Hand, Rested, Content, Place
<1>3. patchRun \in [paused : BOOLEAN, last : Patch \cup {"none"}, recorded : SUBSET Patch, summaries : SUBSET Patch]
  BY <1>1 DEF PatchTyped
<1>4. ASSUME NEW patch \in Patch, BeginPatch(p, patch) PROVE PatchInv'
  <2> DEFINE h == [Rested EXCEPT !.at = IF env.patches[patch].allowed THEN "clean" ELSE "failed", !.patch = patch, !.result = "blocked"]
  <2>1. UNCHANGED <<repo, origin, snapshots, patchRun>> /\ Do(p, h) /\ w.at = "idle"
    BY <1>4 DEF BeginPatch, Begins
  <2>2. "overlap" \notin env.events => \A q \in Process : worker[q].at = "idle"
    BY <1>4 DEF BeginPatch, Begins
  <2>3. h \in Hand /\ h.patch = patch /\ h.at \in {"clean", "failed"} /\ (h.at = "clean" => env.patches[patch].allowed)
    BY <1>2 DEF Hand, Place
  <2> HIDE DEF h
  <2> QED BY <1>3, <2>1, <2>2, <2>3, HandStep
<1>5. CASE CheckClean(p)
  <2> DEFINE h == [w EXCEPT !.at = IF repo.edits = {} THEN "check" ELSE "pause"]
  <2>1. UNCHANGED <<repo, origin, snapshots, patchRun>> /\ Do(p, h) /\ w.at = "clean"
    BY <1>5 DEF CheckClean, At, Elsewhere
  <2>2. h \in Hand /\ h.patch = w.patch /\ h.at \in {"check", "pause"} /\ (h.at = "check" => repo.edits = {})
    BY <1>2 DEF Hand, Place
  <2>3. w.patch \in Patch /\ env.patches[w.patch].allowed
    BY <1>1, <2>1 DEF Carried
  <2> HIDE DEF h
  <2> QED BY <1>3, <2>1, <2>2, <2>3, HandStep
<1>6. CASE CheckApplies(p)
  <2> DEFINE h == [w EXCEPT !.at = IF Applies(w.patch) THEN "snapshot" ELSE "pause"]
  <2>1. UNCHANGED <<repo, origin, snapshots, patchRun>> /\ Do(p, h) /\ w.at = "check"
    BY <1>6 DEF CheckApplies, At, Elsewhere
  <2>2. h \in Hand /\ h.patch = w.patch /\ h.at \in {"snapshot", "pause"}
    BY <1>2 DEF Hand, Place
  <2>3. w.patch \in Patch /\ env.patches[w.patch].allowed
    BY <1>1, <2>1 DEF Carried
  <2>4. "overlap" \notin env.events => repo.edits = {}
    BY <1>1, <2>1 DEF OneAtATime
  <2> HIDE DEF h
  <2> QED BY <1>3, <2>1, <2>2, <2>3, <2>4, HandStep
<1>7. CASE ReleaseFailed(p)
  <2> DEFINE h == [w EXCEPT !.at = "pause"]
  <2>1. UNCHANGED <<repo, origin, snapshots, patchRun>> /\ Do(p, h) /\ w.at = "release"
    BY <1>7 DEF ReleaseFailed, At, Elsewhere
  <2>2. h \in Hand /\ h.at = "pause"
    BY <1>2 DEF Hand, Place
  <2> HIDE DEF h
  <2> QED BY <1>3, <2>1, <2>2, HandStep
<1>8. CASE PauseRun(p)
  <2> DEFINE h == [w EXCEPT !.at = "failed", !.result = "paused"]
  <2>1. UNCHANGED <<repo, origin, snapshots>> /\ Do(p, h) /\ w.at = "pause" /\ patchRun' = [patchRun EXCEPT !.paused = TRUE]
    BY <1>8 DEF PauseRun, Elsewhere
  <2>2. h \in Hand /\ h.at = "failed"
    BY <1>2 DEF Hand, Place
  <2>3. patchRun' \in [paused : BOOLEAN, last : Patch \cup {"none"}, recorded : SUBSET Patch, summaries : SUBSET Patch]
    BY <1>3, <2>1
  <2>4. patchRun'.recorded = patchRun.recorded /\ patchRun'.summaries = patchRun.summaries
    BY <1>3, <2>1
  <2> HIDE DEF h
  <2> QED BY <2>1, <2>2, <2>3, <2>4, HandStep
<1>9. CASE Leave(p)
  <2>1. UNCHANGED <<repo, origin, snapshots, patchRun>> /\ Do(p, Rested) /\ w.at # "idle"
    BY <1>9 DEF Leave, Elsewhere
  <2> QED BY <1>2, <1>3, <2>1, HandStep
<1> QED BY <1>4, <1>5, <1>6, <1>7, <1>8, <1>9

\* From here on the tree and the records change.
LEMMA TakeSnapshotStep ==
    ASSUME PatchInv, env' = env, NEW p \in Process, TakeSnapshot(p)
    PROVE  PatchInv'
<1> DEFINE w == worker[p]
           h == [w EXCEPT !.at = "apply"]
           s == [patch |-> w.patch, tip |-> CurrentTip, clean |-> repo.edits = {}]
<1>1. PatchTyped /\ Carried /\ Landed /\ Pushed /\ OneAtATime
  BY DEF PatchInv
<1>2. /\ w.at = "snapshot" /\ UNCHANGED <<repo, origin, patchRun>> /\ Do(p, h) /\ snapshots' = Append(snapshots, s)
  BY DEF TakeSnapshot, At, Elsewhere
<1>3. w \in Hand /\ w.patch \in Patch /\ env.patches[w.patch].allowed
  BY <1>1, <1>2 DEF PatchTyped, Carried
<1>4. h \in Hand /\ h.at = "apply" /\ h.patch = w.patch
  BY <1>3 DEF Hand, Place
<1>5. /\ CurrentTip \in SUBSET Content
      /\ snapshots \in Seq([patch : Patch, tip : SUBSET Content, clean : BOOLEAN])
  BY <1>1 DEF PatchTyped, CurrentTip
<1>6. /\ s \in [patch : Patch, tip : SUBSET Content, clean : BOOLEAN] /\ s.patch = w.patch
      /\ s.clean = (repo.edits = {})
  <2> HIDE DEF w
  <2> QED BY <1>3, <1>5
<1> HIDE DEF h, s
<1>7. /\ snapshots' \in Seq([patch : Patch, tip : SUBSET Content, clean : BOOLEAN])
      /\ snapshots'[Len(snapshots')] = s
  BY <1>2, <1>5, <1>6
<1>8. worker' \in [Process -> Hand] /\ worker'[p] = h /\ \A q \in Process : q # p => worker'[q] = worker[q]
  BY <1>1, <1>2, <1>4, HandMoves
<1>9. \A patch : InTree(patch)' <=> InTree(patch)
  BY <1>2 DEF InTree
<1>10. PatchTyped'
  BY <1>1, <1>2, <1>7, <1>8 DEF PatchTyped, Hand, Content, Patch
<1>11. Carried'
  BY <1>1, <1>2, <1>3, <1>4, <1>8, <1>9 DEF Carried, Patch
<1>12. Landed' /\ Pushed'
  BY <1>1, <1>2, <1>9 DEF Landed, Pushed
<1>13. OneAtATime'
  <2> SUFFICES ASSUME "overlap" \notin env.events PROVE OneAtATime'
    BY DEF OneAtATime
  <2>1. \A q \in Process : q # p => worker[q].at = "idle"
    BY <1>1, <1>2 DEF OneAtATime
  <2>2. repo.edits = {} /\ s.clean
    BY <1>1, <1>2, <1>6 DEF OneAtATime
  <2> QED BY <1>1, <1>2, <1>4, <1>6, <1>7, <1>8, <2>1, <2>2 DEF OneAtATime
<1> QED BY <1>10, <1>11, <1>12, <1>13 DEF PatchInv

LEMMA ApplyPatchStep ==
    ASSUME PatchInv, env' = env, NEW p \in Process, ApplyPatch(p)
    PROVE  PatchInv'
<1> DEFINE w == worker[p]
<1>1. PatchTyped /\ Carried /\ Landed /\ Pushed /\ OneAtATime
  BY DEF PatchInv
<1>2. w.at = "apply" /\ UNCHANGED <<origin, snapshots, patchRun>>
  BY DEF ApplyPatch, Elsewhere
<1>3. w \in Hand /\ w.patch \in Patch /\ env.patches[w.patch].allowed
  BY <1>1, <1>2 DEF PatchTyped, Carried
<1>4. /\ repo \in [branch : Branch, tips : [Branch -> SUBSET Content], edits : SUBSET Patch, staged : BOOLEAN]
      /\ patchRun \in [paused : BOOLEAN, last : Patch \cup {"none"}, recorded : SUBSET Patch, summaries : SUBSET Patch]
  BY <1>1 DEF PatchTyped
<1>5. CASE ~Applies(w.patch)
  <2> DEFINE h == [w EXCEPT !.at = "release"]
  <2>1. repo' = repo /\ Do(p, h)
    BY <1>5 DEF ApplyPatch, At
  <2>2. h \in Hand /\ h.at = "release"
    BY <1>3 DEF Hand, Place
  <2> HIDE DEF h
  <2> QED BY <1>2, <1>4, <2>1, <2>2, HandStep
<1>6. CASE Applies(w.patch)
  <2> DEFINE h == [w EXCEPT !.at = "summary"]
             edits == repo.edits \cup {w.patch}
  <2>1. repo' = [repo EXCEPT !.edits = edits] /\ Do(p, h)
    BY <1>6 DEF ApplyPatch, At
  <2>2. h \in Hand /\ h.at = "summary" /\ h.patch = w.patch
    BY <1>3 DEF Hand, Place
  <2>3. edits \subseteq Patch
    BY <1>3, <1>4
  <2> HIDE DEF h, edits
  <2>4. /\ repo' \in [branch : Branch, tips : [Branch -> SUBSET Content], edits : SUBSET Patch, staged : BOOLEAN]
        /\ repo'.branch = repo.branch /\ repo'.tips = repo.tips /\ repo'.edits = edits
    BY <1>4, <2>1, <2>3
  <2>5. worker' \in [Process -> Hand] /\ worker'[p] = h /\ \A q \in Process : q # p => worker'[q] = worker[q]
    BY <1>1, <2>1, <2>2, HandMoves
  <2>6. \A patch : InTree(patch)' <=> InTree(patch) \/ patch = w.patch
    BY <2>4 DEF InTree, edits
  <2>7. PatchTyped'
    BY <1>1, <1>2, <2>4, <2>5 DEF PatchTyped, Hand, Content, Patch
  <2>8. Carried'
    BY <1>1, <1>2, <1>3, <2>2, <2>5, <2>6 DEF Carried, Patch
  <2>9. Landed'
    BY <1>1, <1>2, <1>3, <2>4, <2>6 DEF Landed, edits
  <2>10. Pushed'
    BY <1>1, <1>2, <2>4 DEF Pushed
  <2>11. OneAtATime'
    <3> SUFFICES ASSUME "overlap" \notin env.events PROVE OneAtATime'
      BY DEF OneAtATime
    <3>1. \A q \in Process : q # p => worker[q].at = "idle"
      BY <1>1, <1>2 DEF OneAtATime
    <3>2. /\ snapshots[Len(snapshots)].patch = w.patch /\ snapshots[Len(snapshots)].clean
          /\ repo.edits = {} /\ repo.tips["main"] = {}
      BY <1>1, <1>2 DEF OneAtATime
    <3>3. edits = {w.patch}
      BY <3>2 DEF edits
    <3> QED BY <1>2, <2>2, <2>4, <2>5, <3>1, <3>2, <3>3 DEF OneAtATime
  <2> QED BY <2>7, <2>8, <2>9, <2>10, <2>11 DEF PatchInv
<1> QED BY <1>5, <1>6

LEMMA WriteSummaryStep ==
    ASSUME PatchInv, env' = env, NEW p \in Process, WriteSummary(p)
    PROVE  PatchInv'
<1> DEFINE w == worker[p]
<1>1. PatchTyped /\ Carried /\ Landed /\ Pushed /\ OneAtATime
  BY DEF PatchInv
<1>2. w.at = "summary" /\ UNCHANGED <<repo, origin, snapshots>>
  BY DEF WriteSummary, Elsewhere
<1>3. w \in Hand /\ w.patch \in Patch /\ env.patches[w.patch].allowed /\ InTree(w.patch)
  BY <1>1, <1>2 DEF PatchTyped, Carried
<1>4. patchRun \in [paused : BOOLEAN, last : Patch \cup {"none"}, recorded : SUBSET Patch, summaries : SUBSET Patch]
  BY <1>1 DEF PatchTyped
<1>5. CASE At(p, "release") /\ UNCHANGED patchRun
  <2> DEFINE h == [w EXCEPT !.at = "release"]
  <2>1. h \in Hand /\ h.at = "release" /\ Do(p, h)
    BY <1>3, <1>5 DEF Hand, Place, At
  <2> HIDE DEF h
  <2> QED BY <1>2, <1>4, <1>5, <2>1, HandStep
<1>6. CASE patchRun' = [patchRun EXCEPT !.summaries = @ \cup {worker[p].patch}] /\ At(p, "manifest")
  <2> DEFINE h == [w EXCEPT !.at = "manifest"]
             summaries == patchRun.summaries \cup {w.patch}
  <2>1. h \in Hand /\ h.at = "manifest" /\ h.patch = w.patch /\ Do(p, h)
    BY <1>3, <1>6 DEF Hand, Place, At
  <2>2. patchRun' = [patchRun EXCEPT !.summaries = summaries] /\ summaries \subseteq Patch
    BY <1>3, <1>4, <1>6
  <2> HIDE DEF h, summaries
  <2>3. /\ patchRun' \in [paused : BOOLEAN, last : Patch \cup {"none"}, recorded : SUBSET Patch, summaries : SUBSET Patch]
        /\ patchRun'.recorded = patchRun.recorded /\ patchRun'.summaries = summaries
    BY <1>4, <2>2
  <2>4. worker' \in [Process -> Hand] /\ worker'[p] = h /\ \A q \in Process : q # p => worker'[q] = worker[q]
    BY <1>1, <2>1, HandMoves
  <2>5. \A patch : InTree(patch)' <=> InTree(patch)
    BY <1>2 DEF InTree
  <2>6. PatchTyped'
    BY <1>1, <1>2, <2>3, <2>4 DEF PatchTyped, Hand, Content, Patch
  <2>7. Carried'
    BY <1>1, <1>2, <1>3, <2>1, <2>3, <2>4, <2>5 DEF Carried, Patch, summaries
  <2>8. Landed'
    BY <1>1, <1>2, <1>3, <2>3, <2>5 DEF Landed, summaries
  <2>9. Pushed'
    BY <1>1, <1>2 DEF Pushed
  <2>10. OneAtATime'
    BY <1>1, <1>2, <2>1, <2>4 DEF OneAtATime
  <2> QED BY <2>6, <2>7, <2>8, <2>9, <2>10 DEF PatchInv
<1> QED BY <1>5, <1>6 DEF WriteSummary

LEMMA RecordPatchStep ==
    ASSUME PatchInv, env' = env, NEW p \in Process, RecordPatch(p)
    PROVE  PatchInv'
<1> DEFINE w == worker[p]
<1>1. PatchTyped /\ Carried /\ Landed /\ Pushed /\ OneAtATime
  BY DEF PatchInv
<1>2. w.at = "manifest" /\ UNCHANGED <<repo, origin, snapshots>>
  BY DEF RecordPatch, Elsewhere
<1>3. w \in Hand /\ w.patch \in Patch /\ env.patches[w.patch].allowed /\ w.patch \in patchRun.summaries
  BY <1>1, <1>2 DEF PatchTyped, Carried
<1>4. patchRun \in [paused : BOOLEAN, last : Patch \cup {"none"}, recorded : SUBSET Patch, summaries : SUBSET Patch]
  BY <1>1 DEF PatchTyped
<1>5. CASE At(p, "release") /\ UNCHANGED patchRun
  <2> DEFINE h == [w EXCEPT !.at = "release"]
  <2>1. h \in Hand /\ h.at = "release" /\ Do(p, h)
    BY <1>3, <1>5 DEF Hand, Place, At
  <2> HIDE DEF h
  <2> QED BY <1>2, <1>4, <1>5, <2>1, HandStep
<1>6. CASE /\ patchRun' = [patchRun EXCEPT !.recorded = @ \cup {worker[p].patch}, !.last = worker[p].patch]
           /\ Do(p, [worker[p] EXCEPT !.at = "applied", !.result = "applied"])
  <2> DEFINE h == [w EXCEPT !.at = "applied", !.result = "applied"]
             recorded == patchRun.recorded \cup {w.patch}
  <2>1. h \in Hand /\ h.at = "applied" /\ Do(p, h)
    BY <1>3, <1>6 DEF Hand, Place
  <2>2. patchRun' = [patchRun EXCEPT !.recorded = recorded, !.last = w.patch] /\ recorded \subseteq Patch
    BY <1>3, <1>4, <1>6
  <2> HIDE DEF h, recorded
  <2>3. /\ patchRun' \in [paused : BOOLEAN, last : Patch \cup {"none"}, recorded : SUBSET Patch, summaries : SUBSET Patch]
        /\ patchRun'.recorded = recorded /\ patchRun'.summaries = patchRun.summaries
    BY <1>3, <1>4, <2>2
  <2>4. worker' \in [Process -> Hand] /\ worker'[p] = h /\ \A q \in Process : q # p => worker'[q] = worker[q]
    BY <1>1, <2>1, HandMoves
  <2>5. \A patch : InTree(patch)' <=> InTree(patch)
    BY <1>2 DEF InTree
  <2>6. PatchTyped'
    BY <1>1, <1>2, <2>3, <2>4 DEF PatchTyped, Hand, Content, Patch
  <2>7. Carried'
    BY <1>1, <1>2, <2>1, <2>3, <2>4, <2>5 DEF Carried, Patch
  <2>8. Landed'
    BY <1>1, <1>2, <1>3, <2>3, <2>5 DEF Landed, recorded
  <2>9. Pushed'
    BY <1>1, <1>2 DEF Pushed
  <2>10. OneAtATime'
    BY <1>1, <1>2, <2>1, <2>4 DEF OneAtATime
  <2> QED BY <2>6, <2>7, <2>8, <2>9, <2>10 DEF PatchInv
<1> QED BY <1>5, <1>6 DEF RecordPatch

LEMMA BranchWaits ==
    ASSUME PatchInv, env' = env, NEW p \in Process,
           \/ \E b \in Branch : BeginBranch(p, b) \/ BeginPush(p, b)
           \/ SaveBranch(p) \/ BeginCommit(p) \/ UpdateBranch(p) \/ CrashPatching(p)
    PROVE  PatchInv'
<1> DEFINE w == worker[p]
<1>1. PatchTyped /\ Carried /\ OneAtATime
  BY DEF PatchInv
<1>2. w \in Hand /\ Rested \in Hand /\ Rested.at = "idle"
  BY <1>1 DEF PatchTyped, Hand, Rested, Content, Place
<1>3. /\ patchRun \in [paused : BOOLEAN, last : Patch \cup {"none"}, recorded : SUBSET Patch, summaries : SUBSET Patch]
      /\ repo.branch \in Branch
  BY <1>1 DEF PatchTyped
<1>4. ASSUME NEW b \in Branch, BeginBranch(p, b) PROVE PatchInv'
  <2> DEFINE h == [Rested EXCEPT !.at = "base", !.branch = b]
  <2>1. UNCHANGED <<repo, origin, snapshots, patchRun>> /\ Do(p, h)
    BY <1>4 DEF BeginBranch, Begins
  <2>2. "overlap" \notin env.events => \A q \in Process : worker[q].at = "idle"
    BY <1>4 DEF BeginBranch, Begins
  <2>3. h \in Hand /\ h.branch = b /\ h.at = "base"
    BY <1>2 DEF Hand, Place
  <2> HIDE DEF h
  <2> QED BY <1>3, <2>1, <2>2, <2>3, HandStep
<1>5. ASSUME NEW b \in Branch, BeginPush(p, b) PROVE PatchInv'
  <2> DEFINE h == [Rested EXCEPT !.at = "push", !.branch = b]
  <2>1. UNCHANGED <<repo, origin, snapshots, patchRun>> /\ Do(p, h)
    BY <1>5 DEF BeginPush, Begins
  <2>2. "overlap" \notin env.events => \A q \in Process : worker[q].at = "idle"
    BY <1>5 DEF BeginPush, Begins
  <2>3. h \in Hand /\ h.branch = b /\ h.at = "push"
    BY <1>2 DEF Hand, Place
  <2> HIDE DEF h
  <2> QED BY <1>3, <2>1, <2>2, <2>3, HandStep
<1>6. CASE SaveBranch(p)
  <2>1. PICK at \in {"push", "applied"} : At(p, at)
    BY <1>6 DEF SaveBranch
  <2> DEFINE h == [w EXCEPT !.at = at]
  <2>2. UNCHANGED <<repo, origin, snapshots, patchRun>> /\ Do(p, h) /\ w.at = "save"
    BY <1>6, <2>1 DEF SaveBranch, At, Tree
  <2>3. h \in Hand /\ h.at = at /\ h.branch = w.branch
    BY <1>2 DEF Hand, Place
  <2>4. w.branch \in Branch
    BY <1>1, <2>2 DEF Carried
  <2> HIDE DEF h
  <2> QED BY <1>3, <2>2, <2>3, <2>4, HandStep
<1>7. CASE BeginCommit(p)
  <2> DEFINE h == [Rested EXCEPT !.at = IF Protected(repo.branch) THEN "failed" ELSE "commit", !.branch = repo.branch]
  <2>1. UNCHANGED <<repo, origin, snapshots, patchRun>> /\ Do(p, h)
    BY <1>7 DEF BeginCommit, Begins
  <2>2. "overlap" \notin env.events => \A q \in Process : worker[q].at = "idle"
    BY <1>7 DEF BeginCommit, Begins
  <2>3. h \in Hand /\ h.at \in {"failed", "commit"} /\ (h.at = "commit" => ~Protected(repo.branch))
    BY <1>2, <1>3 DEF Hand, Place
  <2> HIDE DEF h
  <2> QED BY <1>3, <2>1, <2>2, <2>3, HandStep
<1>8. CASE UpdateBranch(p)
  <2> DEFINE h == [w EXCEPT !.at = "applied"]
  <2>1. UNCHANGED <<repo, origin, snapshots, patchRun>> /\ Do(p, h) /\ w.at \in {"pushed", "committed"}
    BY <1>8 DEF UpdateBranch, At, Tree
  <2>2. h \in Hand /\ h.at = "applied"
    BY <1>2 DEF Hand, Place
  <2> HIDE DEF h
  <2> QED BY <1>3, <2>1, <2>2, HandStep
<1>9. CASE CrashPatching(p)
  <2>1. UNCHANGED <<repo, origin, snapshots, patchRun>> /\ Do(p, Rested) /\ w.at # "idle"
    BY <1>9 DEF CrashPatching, Tree
  <2> QED BY <1>2, <1>3, <2>1, HandStep
<1> QED BY <1>4, <1>5, <1>6, <1>7, <1>8, <1>9

LEMMA CheckoutBaseStep ==
    ASSUME PatchInv, env' = env, NEW p \in Process, CheckoutBase(p)
    PROVE  PatchInv'
<1> DEFINE w == worker[p]
<1>1. PatchTyped /\ Carried /\ Landed /\ Pushed /\ OneAtATime
  BY DEF PatchInv
<1>2. w.at = "base" /\ UNCHANGED <<origin, snapshots, patchRun>>
  BY DEF CheckoutBase, Tree
<1>3. w \in Hand /\ w.branch \in Branch
  BY <1>1, <1>2 DEF PatchTyped, Carried
<1>4. /\ repo \in [branch : Branch, tips : [Branch -> SUBSET Content], edits : SUBSET Patch, staged : BOOLEAN]
      /\ patchRun \in [paused : BOOLEAN, last : Patch \cup {"none"}, recorded : SUBSET Patch, summaries : SUBSET Patch]
      /\ "main" \in Branch
  BY <1>1 DEF PatchTyped, Branch
<1>5. CASE At(p, "failed") /\ UNCHANGED repo
  <2> DEFINE h == [w EXCEPT !.at = "failed"]
  <2>1. h \in Hand /\ h.at = "failed" /\ Do(p, h)
    BY <1>3, <1>5 DEF Hand, Place, At
  <2> HIDE DEF h
  <2> QED BY <1>2, <1>4, <1>5, <2>1, HandStep
<1>6. CASE repo' = [repo EXCEPT !.branch = "main"] /\ Do(p, [worker[p] EXCEPT !.at = "branch", !.base = repo.tips["main"]])
  <2> DEFINE h == [w EXCEPT !.at = "branch", !.base = repo.tips["main"]]
  <2>1. h \in Hand /\ h.at = "branch" /\ h.branch = w.branch /\ Do(p, h)
    BY <1>3, <1>4, <1>6 DEF Hand, Place
  <2> HIDE DEF h
  <2>2. /\ repo' \in [branch : Branch, tips : [Branch -> SUBSET Content], edits : SUBSET Patch, staged : BOOLEAN]
        /\ repo'.tips = repo.tips /\ repo'.edits = repo.edits
    BY <1>4, <1>6
  <2>3. worker' \in [Process -> Hand] /\ worker'[p] = h /\ \A q \in Process : q # p => worker'[q] = worker[q]
    BY <1>1, <2>1, HandMoves
  <2>4. \A patch : InTree(patch)' <=> InTree(patch)
    BY <2>2 DEF InTree
  <2>5. PatchTyped'
    BY <1>1, <1>2, <2>2, <2>3 DEF PatchTyped, Hand, Content, Patch
  <2>6. Carried'
    BY <1>1, <1>2, <1>3, <2>1, <2>3, <2>4 DEF Carried, Patch
  <2>7. Landed' /\ Pushed'
    BY <1>1, <1>2, <2>2, <2>4 DEF Landed, Pushed
  <2>8. OneAtATime'
    <3> SUFFICES ASSUME "overlap" \notin env.events PROVE OneAtATime'
      BY DEF OneAtATime
    <3>1. \A q \in Process : q # p => worker[q].at = "idle"
      BY <1>1, <1>2 DEF OneAtATime
    <3> QED BY <1>1, <1>2, <2>1, <2>2, <2>3, <3>1 DEF OneAtATime
  <2> QED BY <2>5, <2>6, <2>7, <2>8 DEF PatchInv
<1> QED BY <1>5, <1>6 DEF CheckoutBase

\* A new branch takes the place of none: what was committed and pushed stays.
LEMMA NewBranchStep ==
    ASSUME PatchInv, env' = env, NEW p \in Process, NewBranch(p)
    PROVE  PatchInv'
<1> DEFINE w == worker[p]
<1>1. PatchTyped /\ Carried /\ Landed /\ Pushed /\ OneAtATime
  BY DEF PatchInv
<1>2. w.at = "branch" /\ UNCHANGED <<origin, snapshots, patchRun>>
  BY DEF NewBranch, Tree
<1>3. w \in Hand /\ w.branch \in Branch
  BY <1>1, <1>2 DEF PatchTyped, Carried
<1>4. /\ repo \in [branch : Branch, tips : [Branch -> SUBSET Content], edits : SUBSET Patch, staged : BOOLEAN]
      /\ patchRun \in [paused : BOOLEAN, last : Patch \cup {"none"}, recorded : SUBSET Patch, summaries : SUBSET Patch]
      /\ "main" \in Branch
  BY <1>1 DEF PatchTyped, Branch
<1>5. CASE repo.tips[w.branch] # NotThere
  <2> DEFINE h == [w EXCEPT !.at = "failed"]
  <2>1. h \in Hand /\ h.at = "failed" /\ Do(p, h) /\ UNCHANGED repo
    BY <1>3, <1>5 DEF Hand, Place, At, NewBranch
  <2> HIDE DEF h
  <2> QED BY <1>2, <1>4, <1>5, <2>1, HandStep
<1>6. CASE repo.tips[w.branch] = NotThere
  <2> DEFINE h == [w EXCEPT !.at = "save"]
             tips == [repo.tips EXCEPT ![w.branch] = CurrentTip]
  <2>1. h \in Hand /\ h.at = "save" /\ h.branch = w.branch
    BY <1>3 DEF Hand, Place
  <2>2. repo' = [repo EXCEPT !.tips = tips, !.branch = w.branch] /\ Do(p, h)
    BY <1>6 DEF NewBranch, At
  <2>3. CurrentTip \in SUBSET Content
    BY <1>4 DEF CurrentTip
  <2>4. tips \in [Branch -> SUBSET Content] /\ \A b \in Branch : b # w.branch => tips[b] = repo.tips[b]
    BY <1>3, <1>4, <2>3
  <2> HIDE DEF h, tips
  <2>5. /\ repo' \in [branch : Branch, tips : [Branch -> SUBSET Content], edits : SUBSET Patch, staged : BOOLEAN]
        /\ repo'.tips = tips /\ repo'.edits = repo.edits
    BY <1>3, <1>4, <2>2, <2>4
  <2>6. worker' \in [Process -> Hand] /\ worker'[p] = h /\ \A q \in Process : q # p => worker'[q] = worker[q]
    BY <1>1, <2>1, <2>2, HandMoves
  <2>7. \A patch \in Patch : patch \notin NotThere
    BY <1>1, PatchAssumption DEF PatchTyped, Patch
  <2>8. \A patch \in Patch : InTree(patch) => InTree(patch)'
    <3> SUFFICES ASSUME NEW patch \in Patch, InTree(patch), patch \notin repo.edits PROVE InTree(patch)'
      BY <2>5 DEF InTree
    <3>1. PICK b \in Branch : patch \in repo.tips[b]
      BY DEF InTree
    <3>2. b # w.branch
      BY <1>6, <2>7, <3>1
    <3> QED BY <2>4, <2>5, <3>1, <3>2 DEF InTree
  <2>9. PatchTyped'
    BY <1>1, <1>2, <2>5, <2>6 DEF PatchTyped, Hand, Content, Patch
  <2>10. Carried'
    <3>1. \A q \in Process : worker[q].at = "summary" => worker[q].patch \in Patch
      BY <1>1 DEF Carried
    <3> QED BY <1>1, <1>2, <1>3, <2>1, <2>6, <2>8, <3>1 DEF Carried, Patch
  <2>11. Landed'
    BY <1>1, <1>2, <1>4, <2>5, <2>8 DEF Landed
  <2>12. Pushed'
    <3> SUFFICES ASSUME NEW b \in Branch, origin[b] # NotThere
                 PROVE  ~Protected(b) /\ origin[b] \subseteq repo'.tips[b]
      BY <1>2 DEF Pushed
    <3>1. ~Protected(b) /\ origin[b] \subseteq repo.tips[b]
      BY <1>1 DEF Pushed
    <3>2. CASE b = w.branch
      <4>1. origin[b] = {}
        BY <1>6, <3>1, <3>2 DEF NotThere
      <4> QED BY <3>1, <4>1
    <3>3. CASE b # w.branch
      BY <2>4, <2>5, <3>1, <3>3
    <3> QED BY <3>2, <3>3
  <2>13. OneAtATime'
    <3> SUFFICES ASSUME "overlap" \notin env.events PROVE OneAtATime'
      BY DEF OneAtATime
    <3>1. \A q \in Process : q # p => worker[q].at = "idle"
      BY <1>1, <1>2 DEF OneAtATime
    <3>2. repo.tips["main"] = {}
      BY <1>1 DEF OneAtATime
    <3>3. w.branch # "main"
      BY <1>6, <3>2 DEF NotThere
    <3>4. tips["main"] = {}
      BY <1>4, <2>4, <3>2, <3>3
    <3> QED BY <1>1, <1>2, <2>1, <2>5, <2>6, <3>1, <3>4 DEF OneAtATime
  <2> QED BY <2>9, <2>10, <2>11, <2>12, <2>13 DEF PatchInv
<1> QED BY <1>5, <1>6

LEMMA PushBranchStep ==
    ASSUME PatchInv, env' = env, NEW p \in Process, PushBranch(p)
    PROVE  PatchInv'
<1> DEFINE w == worker[p]
<1>1. PatchTyped /\ Carried /\ Landed /\ Pushed /\ OneAtATime
  BY DEF PatchInv
<1>2. w.at = "push" /\ UNCHANGED <<repo, snapshots, patchRun>>
  BY DEF PushBranch, Tree
<1>3. w \in Hand /\ w.branch \in Branch
  BY <1>1, <1>2 DEF PatchTyped, Carried
<1>4. /\ repo.tips \in [Branch -> SUBSET Content] /\ origin \in [Branch -> SUBSET Content]
      /\ patchRun \in [paused : BOOLEAN, last : Patch \cup {"none"}, recorded : SUBSET Patch, summaries : SUBSET Patch]
  BY <1>1 DEF PatchTyped
<1>5. CASE Protected(w.branch) \/ repo.tips[w.branch] = NotThere
  <2> DEFINE h == [w EXCEPT !.at = "failed"]
  <2>1. h \in Hand /\ h.at = "failed" /\ Do(p, h) /\ UNCHANGED origin
    BY <1>3, <1>5 DEF Hand, Place, At, PushBranch
  <2> HIDE DEF h
  <2> QED BY <1>2, <1>4, <2>1, HandStep
<1>6. CASE ~(Protected(w.branch) \/ repo.tips[w.branch] = NotThere)
  <2> DEFINE h == [w EXCEPT !.at = "pushed"]
  <2>1. h \in Hand /\ h.at = "pushed" /\ Do(p, h) /\ origin' = [origin EXCEPT ![w.branch] = repo.tips[w.branch]]
    BY <1>3, <1>6 DEF Hand, Place, At, PushBranch
  <2> HIDE DEF h
  <2>2. /\ origin' \in [Branch -> SUBSET Content]
        /\ \A b \in Branch : origin'[b] = IF b = w.branch THEN repo.tips[b] ELSE origin[b]
    BY <1>3, <1>4, <2>1
  <2>3. worker' \in [Process -> Hand] /\ worker'[p] = h /\ \A q \in Process : q # p => worker'[q] = worker[q]
    BY <1>1, <2>1, HandMoves
  <2>4. \A patch : InTree(patch)' <=> InTree(patch)
    BY <1>2 DEF InTree
  <2>5. PatchTyped'
    BY <1>1, <1>2, <2>2, <2>3 DEF PatchTyped, Hand, Content, Patch
  <2>6. Carried'
    BY <1>1, <1>2, <2>1, <2>3, <2>4 DEF Carried, Patch
  <2>7. Landed'
    BY <1>1, <1>2, <2>4 DEF Landed
  <2>8. Pushed'
    BY <1>1, <1>2, <1>6, <2>2 DEF Pushed
  <2>9. OneAtATime'
    BY <1>1, <1>2, <2>1, <2>3 DEF OneAtATime
  <2> QED BY <2>5, <2>6, <2>7, <2>8, <2>9 DEF PatchInv
<1> QED BY <1>5, <1>6

\* Git commits on the branch there is by then, which another process may have changed.
LEMMA CommitStep ==
    ASSUME PatchInv, env' = env, NEW p \in Process, Commit(p)
    PROVE  PatchInv'
<1> DEFINE w == worker[p]
<1>1. PatchTyped /\ Carried /\ Landed /\ Pushed /\ OneAtATime
  BY DEF PatchInv
<1>2. w.at = "commit" /\ UNCHANGED <<origin, snapshots, patchRun>>
  BY DEF Commit, Tree
<1>3. w \in Hand
  BY <1>1 DEF PatchTyped
<1>4. /\ repo \in [branch : Branch, tips : [Branch -> SUBSET Content], edits : SUBSET Patch, staged : BOOLEAN]
      /\ patchRun \in [paused : BOOLEAN, last : Patch \cup {"none"}, recorded : SUBSET Patch, summaries : SUBSET Patch]
      /\ "main" \in Branch /\ Protected("main")
  BY <1>1 DEF PatchTyped, Branch, Protected
<1>5. CASE ~repo.staged
  <2> DEFINE h == [w EXCEPT !.at = "failed"]
  <2>1. h \in Hand /\ h.at = "failed" /\ Do(p, h) /\ UNCHANGED repo
    BY <1>3, <1>5 DEF Hand, Place, At, Commit
  <2> HIDE DEF h
  <2> QED BY <1>2, <1>4, <2>1, HandStep
<1>6. CASE repo.staged
  <2> DEFINE h == [w EXCEPT !.at = "committed"]
             tips == [repo.tips EXCEPT ![repo.branch] = @ \cup repo.edits]
  <2>1. h \in Hand /\ h.at = "committed" /\ Do(p, h)
    BY <1>3, <1>6 DEF Hand, Place, At, Commit
  <2>2. repo' = [repo EXCEPT !.tips = tips, !.edits = {}, !.staged = FALSE]
    BY <1>4, <1>6 DEF Commit
  <2>3. repo.tips[repo.branch] \cup repo.edits \in SUBSET Content
    BY <1>4 DEF Content
  <2>4. /\ tips \in [Branch -> SUBSET Content]
        /\ \A b \in Branch : tips[b] = IF b = repo.branch THEN repo.tips[b] \cup repo.edits ELSE repo.tips[b]
    BY <1>4, <2>3
  <2> HIDE DEF h, tips
  <2>5. /\ repo' \in [branch : Branch, tips : [Branch -> SUBSET Content], edits : SUBSET Patch, staged : BOOLEAN]
        /\ repo'.tips = tips /\ repo'.edits = {} /\ repo'.branch = repo.branch
    BY <1>4, <2>2, <2>4
  <2>6. worker' \in [Process -> Hand] /\ worker'[p] = h /\ \A q \in Process : q # p => worker'[q] = worker[q]
    BY <1>1, <2>1, HandMoves
  <2>7. \A patch : InTree(patch) => InTree(patch)'
    BY <1>4, <2>4, <2>5 DEF InTree
  <2>8. PatchTyped'
    BY <1>1, <1>2, <2>5, <2>6 DEF PatchTyped, Hand, Content, Patch
  <2>9. Carried'
    BY <1>1, <1>2, <2>1, <2>6, <2>7 DEF Carried, Patch
  <2>10. Landed'
    BY <1>1, <1>2, <2>5, <2>7 DEF Landed
  <2>11. Pushed'
    BY <1>1, <1>2, <1>4, <2>4, <2>5 DEF Pushed
  <2>12. OneAtATime'
    <3> SUFFICES ASSUME "overlap" \notin env.events PROVE OneAtATime'
      BY DEF OneAtATime
    <3>1. \A q \in Process : q # p => worker[q].at = "idle"
      BY <1>1, <1>2 DEF OneAtATime
    <3>2. repo.tips["main"] = {} /\ repo.branch # "main"
      BY <1>1, <1>2, <1>4 DEF OneAtATime
    <3>3. tips["main"] = {}
      BY <1>4, <2>4, <3>2
    <3> QED BY <1>1, <1>2, <2>1, <2>5, <2>6, <3>1, <3>3 DEF OneAtATime
  <2> QED BY <2>8, <2>9, <2>10, <2>11, <2>12 DEF PatchInv
<1> QED BY <1>5, <1>6

LEMMA PatchStep == PatchInv /\ [Next]_vars => PatchInv'
<1> SUFFICES ASSUME PatchInv, [Next]_vars PROVE PatchInv'
  OBVIOUS
<1>1. PatchTyped /\ Carried /\ Landed /\ Pushed /\ OneAtATime
  BY DEF PatchInv
<1>2. ASSUME UNCHANGED <<origin, snapshots, patchRun, worker, env>>,
             repo'.branch = repo.branch, repo'.tips = repo.tips, repo'.edits = repo.edits,
             repo' \in [branch : Branch, tips : [Branch -> SUBSET Content], edits : SUBSET Patch, staged : BOOLEAN]
      PROVE  PatchInv'
  <2>1. \A patch : InTree(patch)' <=> InTree(patch)
    BY <1>2 DEF InTree
  <2>2. PatchTyped'
    BY <1>1, <1>2 DEF PatchTyped, Hand, Content, Patch
  <2>3. Carried'
    BY <1>1, <1>2, <2>1 DEF Carried, Patch
  <2>4. Landed' /\ Pushed'
    BY <1>1, <1>2, <2>1 DEF Landed, Pushed
  <2>5. OneAtATime'
    BY <1>1, <1>2 DEF OneAtATime
  <2> QED BY <2>2, <2>3, <2>4, <2>5 DEF PatchInv
<1>3. repo \in [branch : Branch, tips : [Branch -> SUBSET Content], edits : SUBSET Patch, staged : BOOLEAN]
  BY <1>1 DEF PatchTyped
<1>4. CASE UNCHANGED <<patchVars, env>>
  BY <1>2, <1>3, <1>4 DEF patchVars
<1>5. CASE Next /\ PatchingNext
  <2>1. env' = env
    BY <1>5 DEF Next
  <2>2. CASE Stage
    <3>1. repo' = [repo EXCEPT !.staged = TRUE] /\ UNCHANGED <<origin, snapshots, patchRun, worker>>
      BY <2>2 DEF Stage, Tree
    <3> QED BY <1>2, <1>3, <2>1, <3>1
  <2>3. ASSUME NEW p \in Process,
               \/ \E patch \in Patch : BeginPatch(p, patch)
               \/ CheckClean(p) \/ CheckApplies(p) \/ ReleaseFailed(p) \/ PauseRun(p) \/ Leave(p)
        PROVE  PatchInv'
    BY <2>1, <2>3, PatchWaits
  <2>4. ASSUME NEW p \in Process,
               \/ \E b \in Branch : BeginBranch(p, b) \/ BeginPush(p, b)
               \/ SaveBranch(p) \/ BeginCommit(p) \/ UpdateBranch(p) \/ CrashPatching(p)
        PROVE  PatchInv'
    BY <2>1, <2>4, BranchWaits
  <2>5. ASSUME NEW p \in Process, TakeSnapshot(p) \/ ApplyPatch(p) \/ WriteSummary(p) \/ RecordPatch(p)
        PROVE  PatchInv'
    BY <2>1, <2>5, TakeSnapshotStep, ApplyPatchStep, WriteSummaryStep, RecordPatchStep
  <2>6. ASSUME NEW p \in Process, CheckoutBase(p) \/ NewBranch(p) \/ PushBranch(p) \/ Commit(p)
        PROVE  PatchInv'
    BY <2>1, <2>6, CheckoutBaseStep, NewBranchStep, PushBranchStep, CommitStep
  <2> QED BY <1>5, <2>2, <2>3, <2>4, <2>5, <2>6 DEF PatchingNext
<1>6. CASE Next /\ ~PatchingNext
  BY <1>4, <1>6 DEF Next
<1>7. CASE UNCHANGED vars
  BY <1>4, <1>7 DEF vars
<1> QED BY <1>5, <1>6, <1>7

LEMMA TreeFollows == PatchInv => TreeAgrees
<1> SUFFICES ASSUME PatchInv PROVE TreeAgrees
  OBVIOUS
<1>1. Landed /\ Pushed /\ OneAtATime
  BY DEF PatchInv
<1>2. patchRun.summaries \subseteq repo.edits \cup UNION {repo.tips[b] : b \in Branch}
  <2> SUFFICES ASSUME NEW patch \in patchRun.summaries, patch \notin repo.edits
               PROVE  \E b \in Branch : patch \in repo.tips[b]
    OBVIOUS
  <2> QED BY <1>1 DEF Landed, InTree
<1>3. PatchesAgree
  BY <1>1, <1>2 DEF PatchesAgree, Landed, OneAtATime
<1>4. BranchesAgree
  BY <1>1 DEF BranchesAgree, Pushed, OneAtATime
<1> QED BY <1>3, <1>4 DEF TreeAgrees

(***************************************************************************)
(* For any patches, processes and order of operations: what the manifest   *)
(* records was applied, summarised and allowed and is in the tree or on a  *)
(* branch; nothing that origin has is lost, and no protected branch is     *)
(* pushed.  While operations follow one another, the tree never holds two  *)
(* patches, its latest snapshot is of the patch in it and of a clean tree, *)
(* and main is not committed to.  (applyPatch, createSafeCommit,           *)
(* pushBranch)                                                             *)
(***************************************************************************)
THEOREM TreeSafe == Spec => []TreeAgrees
<1>1. Spec => []PatchInv
  BY PatchStart, PatchStep, PTL DEF Spec
<1> QED BY <1>1, TreeFollows, PTL

-----------------------------------------------------------------------------
(* HttpClient.tla *)

Call ==
    [at : {"idle", "send", "wait", "success", "transient", "permanent", "human"}, key : Nat, attempt : Nat,
     until : Nat, told : Nat, times : Nat, refused : BOOLEAN]

\* The keys of a caller's requests that may still arrive, and those that did not take effect yet.
Pending(p) == {k \in 0..keys : [by |-> p, key |-> k] \in underway}
Unapplied(p) == (Pending(p) \cup (IF caller[p].at = "idle" THEN {} ELSE {caller[p].key})) \ Arrived(p)

\* The attempts a call has left, the one under way included.
Left(p) ==
    IF caller[p].at = "idle" THEN 0
    ELSE IF caller[p].at \in {"send", "wait"} THEN MaxAttempts - caller[p].attempt + 1
    ELSE MaxAttempts - caller[p].attempt

HttpTyped ==
    /\ env \in Environment
    /\ caller \in [Process -> Call]
    /\ effects \in [Process -> Seq(Nat)]
    /\ underway \subseteq [by : Process, key : Nat]
    /\ keys \in Nat /\ closed \in Nat /\ now \in Nat

\* A key is drawn once: what arrives under it belongs to the one call that drew it.
KeysDrawn ==
    /\ \A r \in underway : r.key <= keys
    /\ \A p \in Process : Arrived(p) \subseteq 0..keys /\ caller[p].key <= keys
    /\ \A p, q \in Process : p # q /\ caller[p].key = caller[q].key => caller[p].at = "idle"

\* A call that is refused ends; one that waits has an attempt behind it.
Called(p) ==
    /\ caller[p].at = "idle" => caller[p].times = 0
    /\ caller[p].at # "idle" => caller[p].attempt \in 1..MaxAttempts
    /\ caller[p].at = "wait" => caller[p].attempt # 1
    /\ caller[p].refused => caller[p].at \in {"permanent", "human"}

\* With keys each call takes effect once, without them once per attempt.
Charged(p) ==
    /\ env.honours => Len(effects[p]) + Cardinality(Unapplied(p)) <= caller[p].times
    /\ Len(effects[p]) + Cardinality(Pending(p)) + Left(p) <= caller[p].times * MaxAttempts

\* What a caller knows of its request: told ok it arrived; before the first answer it did not.
Told(p) ==
    /\ caller[p].at = "success" => caller[p].key \in Arrived(p)
    /\ (caller[p].at = "send" \/ caller[p].refused) /\ caller[p].attempt = 1 =>
            caller[p].key \notin Arrived(p) /\ \A r \in underway : r.key # caller[p].key

\* A caller waits as long as the server said, and otherwise at most maxBackoff.
Waits(p) ==
    /\ caller[p].at \in {"wait", "send"} => caller[p].until >= caller[p].told
    /\ caller[p].at = "wait" => caller[p].until <= caller[p].told \/ caller[p].until <= now + MaxBackoff

HttpInv ==
    /\ HttpTyped /\ KeysDrawn
    /\ \A p \in Process : Called(p) /\ Charged(p) /\ Told(p) /\ Waits(p)

-----------------------------------------------------------------------------
\* The settings of the environment are numbers, and a call has at least one attempt.
LEMMA HttpSettings ==
    ASSUME env \in Environment
    PROVE  /\ env.retries \in BOOLEAN /\ env.maxRetries \in Nat /\ MaxBackoff \in Nat
           /\ MaxAttempts \in Nat \ {0}
           /\ \A n \in 0..env.maxRetries : 2 ^ n \in Nat
<1>1. /\ env.retries \in BOOLEAN /\ env.maxRetries \in Nat /\ MaxBackoff \in Nat
      /\ \A n \in 0..env.maxRetries : 2 ^ n \in Nat
  BY HttpAssumption
<1> QED BY <1>1 DEF MaxAttempts

LEMMA LeastOfTwo ==
    ASSUME NEW x \in Int, NEW y \in Int
    PROVE  /\ SetOps!Min({x, y}) \in {x, y} /\ SetOps!Min({x, y}) <= x /\ SetOps!Min({x, y}) <= y
<1>1. PICK m \in {x, y} : \A k \in {x, y} : m <= k
  OBVIOUS
<1> QED BY <1>1 DEF SetOps!Min

LEMMA GreatestOfTwo ==
    ASSUME NEW x \in Int, NEW y \in Int
    PROVE  /\ SetOps!Max({x, y}) \in {x, y} /\ SetOps!Max({x, y}) >= x /\ SetOps!Max({x, y}) >= y
<1>1. PICK m \in {x, y} : \A k \in {x, y} : m >= k
  OBVIOUS
<1> QED BY <1>1 DEF SetOps!Max

\* calculateBackoff: a delay, within maxBackoff unless the server said how long to wait.
LEMMA BackoffBounds ==
    ASSUME env \in Environment, now \in Nat,
           NEW attempt \in 1..MaxAttempts, attempt < MaxAttempts,
           NEW e \in [retryAfter : Nat, reset : Nat]
    PROVE  /\ Backoff(attempt, e) \in Nat
           /\ IF e.retryAfter > 0 THEN Backoff(attempt, e) = e.retryAfter
              ELSE Backoff(attempt, e) <= MaxBackoff
<1>1. /\ env.retries \in BOOLEAN /\ env.maxRetries \in Nat /\ MaxBackoff \in Nat
      /\ \A n \in 0..env.maxRetries : 2 ^ n \in Nat
  BY HttpSettings
<1>2. attempt - 1 \in 0..env.maxRetries
  BY <1>1 DEF MaxAttempts
<1>3. e.retryAfter \in Nat /\ e.reset \in Nat
  OBVIOUS
<1>4. CASE e.retryAfter > 0
  BY <1>3, <1>4 DEF Backoff
<1>5. CASE e.retryAfter = 0 /\ e.reset > 0
  <2> DEFINE m == SetOps!Max({0, e.reset - now})
  <2>1. m \in Nat
    <3>1. \A z \in Int : SetOps!Max({0, z}) \in Nat
      <4> TAKE z \in Int
      <4>1. 0 \in Int
        OBVIOUS
      <4>2. SetOps!Max({0, z}) \in {0, z} /\ SetOps!Max({0, z}) >= 0
        BY <4>1, GreatestOfTwo
      <4> QED BY <4>2
    <3>2. e.reset - now \in Int
      BY <1>3
    <3> QED BY <3>1, <3>2
  <2> HIDE DEF m
  <2>2. Backoff(attempt, e) = SetOps!Min({MaxBackoff, m})
    BY <1>5 DEF Backoff, m
  <2>3. MaxBackoff \in Int /\ m \in Int
    BY <1>1, <2>1
  <2>4. SetOps!Min({MaxBackoff, m}) \in {MaxBackoff, m} /\ SetOps!Min({MaxBackoff, m}) <= MaxBackoff
    BY LeastOfTwo, <2>3
  <2> QED BY <1>1, <1>5, <2>1, <2>2, <2>4
<1>6. CASE e.retryAfter = 0 /\ e.reset = 0
  <2> DEFINE m == 2 ^ (attempt - 1)
  <2>1. m \in Nat
    BY <1>1, <1>2
  <2>2. Backoff(attempt, e) = SetOps!Min({m, MaxBackoff})
    BY <1>6 DEF Backoff
  <2> HIDE DEF m
  <2>3. SetOps!Min({m, MaxBackoff}) \in {m, MaxBackoff} /\ SetOps!Min({m, MaxBackoff}) <= MaxBackoff
    <3>1. m \in Int /\ MaxBackoff \in Int
      BY <1>1, <2>1
    <3> QED BY LeastOfTwo, <3>1
  <2> QED BY <1>1, <1>6, <2>1, <2>2, <2>3
<1> QED BY <1>3, <1>4, <1>5, <1>6

\* The call after an attempt.
LEMMA AfterAttempt ==
    ASSUME HttpTyped, NEW p \in Process, Called(p), caller[p].at = "send",
           NEW answer \in {"ok", "limited"} \cup Answer,
           NEW e \in [retryAfter : Nat, reset : Nat],
           NEW d, d = After(p, answer, e)
    PROVE  /\ d \in Call
           /\ d.at \notin {"idle", "send"}
           /\ d.key = caller[p].key /\ d.times = caller[p].times
           /\ d.attempt \in 1..MaxAttempts
           /\ d.attempt = IF d.at = "wait" THEN caller[p].attempt + 1 ELSE caller[p].attempt
           /\ d.at = "success" <=> answer = "ok"
           /\ d.refused <=> answer \in {"refused", "denied"}
           /\ d.refused => d.at \in {"permanent", "human"}
           /\ d.at = "wait" => d.until >= d.told /\ (d.until <= d.told \/ d.until <= now + MaxBackoff)
<1> DEFINE c == caller[p]
<1>1. c \in Call /\ now \in Nat /\ env \in Environment
  BY DEF HttpTyped
<1>2. c.at = "send" /\ c.attempt \in 1..MaxAttempts /\ c.refused = FALSE
  BY <1>1 DEF Called, Call
<1>3. MaxAttempts \in Nat \ {0} /\ MaxBackoff \in Nat
  BY <1>1, HttpSettings
<1>4. Judgement(answer) \in {"success", "transient", "permanent", "human"}
  BY DEF Judgement, Answer
<1>5. /\ Judgement(answer) = "success" <=> answer = "ok"
      /\ answer \in {"refused", "denied"} => Judgement(answer) \in {"permanent", "human"}
  BY DEF Judgement, Answer
<1>6. e.retryAfter \in Nat
  OBVIOUS
<1>7. CASE Judgement(answer) = "transient" /\ c.attempt < MaxAttempts
  <2> DEFINE b == Backoff(c.attempt, e)
             told == IF e.retryAfter > 0 THEN now + e.retryAfter ELSE now
  <2>1. b \in Nat /\ (IF e.retryAfter > 0 THEN b = e.retryAfter ELSE b <= MaxBackoff)
    BY <1>1, <1>2, <1>7, BackoffBounds
  <2>2. d = [c EXCEPT !.at = "wait", !.attempt = @ + 1, !.until = now + b, !.told = told]
    BY <1>7 DEF After
  <2>3. told \in Nat
    BY <1>1, <1>6
  <2>4. IF e.retryAfter > 0 THEN told = now + e.retryAfter ELSE told = now
    OBVIOUS
  <2> HIDE DEF b, c, told
  <2>5. /\ d.at = "wait" /\ d.key = c.key /\ d.times = c.times /\ d.attempt = c.attempt + 1
        /\ d.until = now + b /\ d.told = told /\ d.refused = FALSE
    BY <1>1, <1>2, <2>2 DEF Call
  <2>6. d \in Call
    <3>1. c.attempt + 1 \in Nat /\ now + b \in Nat
      BY <1>1, <1>2, <2>1
    <3> QED BY <1>1, <2>2, <2>3, <3>1, ZenonT(20) DEF Call
  <2>7. d.until >= d.told /\ (d.until <= d.told \/ d.until <= now + MaxBackoff)
    BY <1>1, <1>3, <1>6, <2>1, <2>4, <2>5
  <2>8. c = caller[p]
    BY DEF c
  <2> QED BY <1>2, <1>3, <1>5, <1>7, <2>5, <2>6, <2>7, <2>8
<1>8. CASE ~(Judgement(answer) = "transient" /\ c.attempt < MaxAttempts)
  <2>1. d = [c EXCEPT !.at = Judgement(answer), !.refused = answer \in {"refused", "denied"}]
    BY <1>8 DEF After
  <2> HIDE DEF c
  <2>2. d.at = Judgement(answer) /\ d.key = c.key /\ d.times = c.times /\ d.attempt = c.attempt
    BY <1>1, <2>1 DEF Call
  <2>3. d.refused <=> answer \in {"refused", "denied"}
    BY <1>1, <2>1, Zenon DEF Call
  <2>4. d \in Call
    <3>1. Judgement(answer) \in {"idle", "send", "wait", "success", "transient", "permanent", "human"}
      BY <1>4
    <3>2. (answer \in {"refused", "denied"}) \in BOOLEAN
      OBVIOUS
    <3> QED BY <1>1, <2>1, <3>1, <3>2, ZenonT(20) DEF Call
  <2> QED BY <1>2, <1>4, <1>5, <2>2, <2>3, <2>4 DEF c
<1> QED BY <1>7, <1>8

-----------------------------------------------------------------------------
\* Sets of numbers up to a bound are finite; counting them.
LEMMA NumbersFinite ==
    ASSUME NEW n \in Nat, NEW S, S \subseteq 0..n
    PROVE  IsFiniteSet(S) /\ Cardinality(S) \in Nat
<1>1. IsFiniteSet(0..n)
  BY FS_Interval
<1> QED BY <1>1, FS_Subset, FS_CardinalityType

LEMMA NoMore ==
    ASSUME NEW T, IsFiniteSet(T), NEW S, S \subseteq T
    PROVE  IsFiniteSet(S) /\ Cardinality(S) \in Nat /\ Cardinality(S) <= Cardinality(T)
BY FS_Subset, FS_CardinalityType

LEMMA OneMore ==
    ASSUME NEW T, IsFiniteSet(T), NEW k, NEW S, S \subseteq T \cup {k}
    PROVE  Cardinality(S) \in Nat /\ Cardinality(S) <= Cardinality(T) + 1
<1>1. IsFiniteSet(T \cup {k}) /\ Cardinality(T \cup {k}) \in {Cardinality(T), Cardinality(T) + 1}
  BY FS_AddElement
<1>2. Cardinality(T) \in Nat
  BY FS_CardinalityType
<1> QED BY <1>1, <1>2, NoMore

LEMMA OneLess ==
    ASSUME NEW T, IsFiniteSet(T), NEW k \in T, NEW S, S \subseteq T \ {k}
    PROVE  Cardinality(S) \in Nat /\ Cardinality(S) + 1 <= Cardinality(T)
<1>1. IsFiniteSet(T \ {k}) /\ Cardinality(T \ {k}) = Cardinality(T) - 1
  BY FS_RemoveElement
<1>2. Cardinality(T) \in Nat
  BY FS_CardinalityType
<1> QED BY <1>1, <1>2, NoMore

LEMMA KeySets ==
    ASSUME HttpTyped, KeysDrawn, NEW p \in Process
    PROVE  /\ IsFiniteSet(Pending(p)) /\ Cardinality(Pending(p)) \in Nat
           /\ IsFiniteSet(Unapplied(p)) /\ Cardinality(Unapplied(p)) \in Nat
           /\ effects[p] \in Seq(Nat) /\ Len(effects[p]) \in Nat
           /\ caller[p] \in Call
<1>1. caller[p] \in Call /\ effects[p] \in Seq(Nat) /\ keys \in Nat
  BY DEF HttpTyped
<1>2. caller[p].key \in 0..keys
  BY <1>1 DEF KeysDrawn, Call
<1>3. Pending(p) \subseteq 0..keys
  BY DEF Pending
<1>4. Unapplied(p) \subseteq 0..keys
  BY <1>2, <1>3 DEF Unapplied
<1> QED BY <1>1, <1>3, <1>4, NumbersFinite

\* The keys that arrived once another did.
KeysOf(s) == {s[i] : i \in DOMAIN s}

LEMMA ArrivedMore ==
    ASSUME NEW s \in Seq(Nat), NEW k \in Nat, NEW t, t = Append(s, k)
    PROVE  /\ t \in Seq(Nat) /\ Len(t) = Len(s) + 1
           /\ KeysOf(t) = KeysOf(s) \cup {k}
<1>1. t \in Seq(Nat) /\ Len(t) = Len(s) + 1 /\ Len(s) \in Nat
  OBVIOUS
<1>2. /\ \A i \in 1..Len(s) : t[i] = s[i]
      /\ t[Len(s) + 1] = k
  OBVIOUS
<1>3. DOMAIN t = 1..(Len(s) + 1) /\ DOMAIN s = 1..Len(s)
  BY <1>1
<1>4. 1..(Len(s) + 1) = (1..Len(s)) \cup {Len(s) + 1}
  BY <1>1
<1> QED BY <1>1, <1>2, <1>3, <1>4 DEF KeysOf

\* What a step that leaves a caller alone keeps of it.
LEMMA OtherCaller ==
    ASSUME HttpTyped, KeysDrawn, NEW q \in Process, Called(q), Charged(q), Told(q), Waits(q),
           caller'[q] = caller[q], effects'[q] = effects[q], env' = env,
           keys' \in Nat, keys <= keys', now' \in Nat, now <= now',
           \A k : [by |-> q, key |-> k] \in underway' <=> [by |-> q, key |-> k] \in underway,
           caller[q].at # "idle" => \A r \in underway' : r \in underway \/ r.key # caller[q].key
    PROVE  (Called(q) /\ Charged(q) /\ Told(q) /\ Waits(q))'
<1>1. MaxAttempts' = MaxAttempts
  BY DEF MaxAttempts
<1>2. Arrived(q)' = Arrived(q)
  BY DEF Arrived
<1>3. Pending(q)' = Pending(q)
  <2>1. keys \in Nat
    BY DEF HttpTyped
  <2>2. \A k : [by |-> q, key |-> k] \in underway => k \in 0..keys
    <3> TAKE k
    <3> HAVE [by |-> q, key |-> k] \in underway
    <3> DEFINE r == [by |-> q, key |-> k]
    <3>1. r \in [by : Process, key : Nat] /\ r.key = k /\ r.key <= keys
      BY DEF HttpTyped, KeysDrawn
    <3>2. r.key \in Nat
      BY <3>1
    <3> QED BY <2>1, <3>1, <3>2
  <2> QED BY <2>1, <2>2 DEF Pending
<1>4. Unapplied(q)' = Unapplied(q)
  BY <1>2, <1>3 DEF Unapplied
<1>5. Left(q)' = Left(q)
  BY <1>1 DEF Left
<1>6. Called(q)'
  BY <1>1 DEF Called
<1>7. Charged(q)'
  BY <1>1, <1>3, <1>4, <1>5 DEF Charged
<1>8. Told(q)'
  <2>1. caller[q].at = "send" \/ caller[q].refused => caller[q].at # "idle"
    BY DEF Called
  <2> QED BY <1>2, <2>1 DEF Told
<1>9. Waits(q)'
  <2>1. caller[q].until \in Nat /\ caller[q].told \in Nat /\ now \in Nat /\ MaxBackoff \in Nat
    BY HttpAssumption DEF HttpTyped, Call
  <2> QED BY <2>1 DEF Waits
<1> QED BY <1>6, <1>7, <1>8, <1>9

\* An attempt and what the client makes of it: the request took effect, or it is given up and
\* may arrive later, or neither.
LEMMA JudgedStep ==
    ASSUME HttpInv, env' = env, keys' = keys, now' = now, closed' = closed,
           NEW p \in Process, caller[p].at = "send",
           NEW answer \in {"ok", "limited"} \cup Answer,
           NEW e \in [retryAfter : Nat, reset : Nat],
           caller' = [caller EXCEPT ![p] = After(p, answer, e)],
           effects' \in {effects, Applied(p, caller[p].key)},
           underway' \in {underway, underway \cup {[by |-> p, key |-> caller[p].key]}},
           effects' = effects \/ underway' = underway,
           answer = "ok" => effects' = Applied(p, caller[p].key),
           answer \in {"refused", "denied"} => effects' = effects /\ underway' = underway
    PROVE  HttpInv'
<1> DEFINE key == caller[p].key
           d == After(p, answer, e)
<1>1. HttpTyped /\ KeysDrawn /\ Called(p) /\ Charged(p) /\ Told(p) /\ Waits(p)
  BY DEF HttpInv
<1>2. /\ d \in Call
      /\ d.at \notin {"idle", "send"}
      /\ d.key = key /\ d.times = caller[p].times
      /\ d.attempt \in 1..MaxAttempts
      /\ d.attempt = IF d.at = "wait" THEN caller[p].attempt + 1 ELSE caller[p].attempt
      /\ d.at = "success" <=> answer = "ok"
      /\ d.refused <=> answer \in {"refused", "denied"}
      /\ d.refused => d.at \in {"permanent", "human"}
      /\ d.at = "wait" => d.until >= d.told /\ (d.until <= d.told \/ d.until <= now + MaxBackoff)
  BY <1>1, AfterAttempt, Zenon
<1>3. caller' = [caller EXCEPT ![p] = d]
  OBVIOUS
<1> HIDE DEF d
<1>4. caller'[p] = d /\ caller' \in [Process -> Call] /\ \A q \in Process : q # p => caller'[q] = caller[q]
  BY <1>1, <1>2, <1>3 DEF HttpTyped
<1>5. key \in Nat /\ key <= keys /\ effects \in [Process -> Seq(Nat)] /\ effects[p] \in Seq(Nat)
  BY <1>1 DEF HttpTyped, KeysDrawn, Call
<1>6. MaxAttempts \in Nat \ {0} /\ MaxAttempts' = MaxAttempts
  BY <1>1, HttpSettings DEF HttpTyped, MaxAttempts
<1> HIDE DEF key
\* The request took effect with a key it had not, or nothing changed.
<1>7. \/ effects' = effects
      \/ /\ env.honours => key \notin Arrived(p)
         /\ effects' = [effects EXCEPT ![p] = Append(@, key)]
         /\ underway' = underway
  BY DEF Applied, key
<1>8. /\ effects' \in [Process -> Seq(Nat)]
      /\ \A q \in Process : q # p => effects'[q] = effects[q]
  <2>1. Append(effects[p], key) \in Seq(Nat)
    BY <1>5
  <2> QED BY <1>5, <1>7, <2>1
<1>9. \/ effects'[p] = effects[p] /\ Arrived(p)' = Arrived(p)
      \/ /\ env.honours => key \notin Arrived(p)
         /\ Len(effects'[p]) = Len(effects[p]) + 1
         /\ Arrived(p)' = Arrived(p) \cup {key}
         /\ underway' = underway
  <2>1. CASE effects' = effects
    BY <2>1 DEF Arrived
  <2>2. CASE effects' = [effects EXCEPT ![p] = Append(@, key)]
    <3>1. effects'[p] = Append(effects[p], key)
      BY <1>5, <2>2
    <3>2. /\ Len(effects'[p]) = Len(effects[p]) + 1
          /\ KeysOf(effects'[p]) = KeysOf(effects[p]) \cup {key}
      <4>1. effects[p] \in Seq(Nat) /\ key \in Nat
        BY <1>5
      <4> QED BY <3>1, <4>1, ArrivedMore
    <3>3. Arrived(p)' = Arrived(p) \cup {key}
      BY <3>2 DEF Arrived, KeysOf
    <3>4. effects' # effects
      BY <1>5, <3>2
    <3> QED BY <1>7, <3>2, <3>3, <3>4
  <2> QED BY <1>7, <2>1, <2>2
<1>10. answer = "ok" => key \in Arrived(p)'
  <2> HAVE answer = "ok"
  <2>1. effects' = Applied(p, key)
    BY DEF key
  <2>2. CASE env.honours /\ key \in Arrived(p)
    BY <2>1, <2>2 DEF Applied, Arrived
  <2>3. CASE ~(env.honours /\ key \in Arrived(p))
    <3>1. effects'[p] = Append(effects[p], key)
      BY <1>5, <2>1, <2>3 DEF Applied
    <3>2. KeysOf(effects'[p]) = KeysOf(effects[p]) \cup {key}
      <4>1. effects[p] \in Seq(Nat) /\ key \in Nat
        BY <1>5
      <4> QED BY <3>1, <4>1, ArrivedMore
    <3>3. Arrived(p)' = Arrived(p) \cup {key}
      BY <3>2 DEF Arrived, KeysOf
    <3> QED BY <3>3
  <2> QED BY <2>2, <2>3
<1>11. \A r \in underway' : r \in underway \/ (r.by = p /\ r.key = key)
  BY DEF key
<1>12. HttpTyped'
  BY <1>1, <1>4, <1>5, <1>8 DEF HttpTyped, key
<1>13. KeysDrawn'
  <2>1. \A r \in underway' : r.key <= keys'
    BY <1>1, <1>5, <1>11 DEF KeysDrawn
  <2>2. \A q \in Process : Arrived(q)' \subseteq 0..keys'
    <3> TAKE q \in Process
    <3>1. CASE q = p
      <4>1. key \in 0..keys
        BY <1>1, <1>5 DEF HttpTyped
      <4> QED BY <1>1, <1>9, <3>1, <4>1 DEF KeysDrawn
    <3>2. CASE q # p
      BY <1>1, <1>8, <3>2 DEF KeysDrawn, Arrived
    <3> QED BY <3>1, <3>2
  <2>3. \A q \in Process : caller'[q].key = caller[q].key
    BY <1>2, <1>4 DEF key
  <2>4. \A q \in Process : caller'[q].at = "idle" <=> caller[q].at = "idle"
    BY <1>2, <1>4
  <2> QED BY <1>1, <2>1, <2>2, <2>3, <2>4 DEF KeysDrawn
<1>14. ASSUME NEW q \in Process, q # p
       PROVE  (Called(q) /\ Charged(q) /\ Told(q) /\ Waits(q))'
  <2>1. Called(q) /\ Charged(q) /\ Told(q) /\ Waits(q)
    BY DEF HttpInv
  <2>2. caller'[q] = caller[q] /\ effects'[q] = effects[q]
    BY <1>4, <1>8, <1>14
  <2>3. \A k : [by |-> q, key |-> k] \in underway' <=> [by |-> q, key |-> k] \in underway
    BY <1>14
  <2>4. caller[q].at # "idle" => \A r \in underway' : r \in underway \/ r.key # caller[q].key
    BY <1>1, <1>11, <1>14 DEF KeysDrawn, key
  <2>5. keys' \in Nat /\ keys <= keys' /\ now' \in Nat /\ now <= now'
    BY <1>1 DEF HttpTyped
  <2> QED BY <1>1, <2>1, <2>2, <2>3, <2>4, <2>5, OtherCaller
<1>15. Called(p)'
  <2>1. caller[p].attempt \in 1..MaxAttempts
    BY <1>1 DEF Called
  <2> QED BY <1>2, <1>4, <1>6, <2>1 DEF Called
<1>16. Charged(p)'
  <2>1. /\ IsFiniteSet(Pending(p)) /\ Cardinality(Pending(p)) \in Nat
        /\ IsFiniteSet(Unapplied(p)) /\ Cardinality(Unapplied(p)) \in Nat
        /\ Len(effects[p]) \in Nat /\ caller[p] \in Call
    BY <1>1, KeySets
  <2>2. caller[p].times \in Nat /\ caller[p].attempt \in 1..MaxAttempts
    BY <1>1, <2>1 DEF Call, Called
  <2>3. Left(p) \in Nat /\ Left(p)' \in Nat /\ Left(p)' + 1 <= Left(p)
    BY <1>2, <1>4, <1>6, <2>2 DEF Left
  <2>4. Len(effects[p]) + Cardinality(Pending(p)) + Left(p) <= caller[p].times * MaxAttempts
    BY <1>1 DEF Charged
  <2>5. /\ caller'[p].times = caller[p].times
        /\ caller'[p].times * MaxAttempts' = caller[p].times * MaxAttempts
        /\ caller[p].times * MaxAttempts \in Nat
    <3>1. caller'[p].times = caller[p].times
      BY <1>2, <1>4, <1>6, <2>2
    <3>2. caller[p].times * MaxAttempts \in Nat
      BY <1>6, <2>2
    <3> QED BY <1>6, <3>1, <3>2
  <2>8. PICK most \in Nat : most = caller[p].times * MaxAttempts
    BY <2>5
  <2>9. Len(effects[p]) + Cardinality(Pending(p)) + Left(p) <= most
    BY <2>4, <2>8
  <2>6. CASE effects'[p] = effects[p] /\ Arrived(p)' = Arrived(p)
    <3>1. Pending(p)' \subseteq Pending(p) \cup {key}
      BY <1>11 DEF Pending
    <3>2. Unapplied(p)' \subseteq Unapplied(p)
      BY <1>2, <1>4, <2>6, <3>1 DEF Unapplied, key
    <3>3. Cardinality(Pending(p)') \in Nat /\ Cardinality(Pending(p)') <= Cardinality(Pending(p)) + 1
      BY <2>1, <3>1, OneMore
    <3>4. Cardinality(Unapplied(p)') \in Nat /\ Cardinality(Unapplied(p)') <= Cardinality(Unapplied(p))
      BY <2>1, <3>2, NoMore
    <3>5. env.honours => Len(effects[p]) + Cardinality(Unapplied(p)) <= caller[p].times
      BY <1>1 DEF Charged
    <3>6. Len(effects'[p]) + Cardinality(Pending(p)') + Left(p)' <= caller'[p].times * MaxAttempts'
      <4>1. Len(effects'[p]) + Cardinality(Pending(p)') + Left(p)' <= most
        BY <2>1, <2>3, <2>6, <2>9, <3>3
      <4> QED BY <2>5, <2>8, <4>1
    <3>7. env'.honours => Len(effects'[p]) + Cardinality(Unapplied(p)') <= caller'[p].times
      BY <2>1, <2>2, <2>5, <2>6, <3>4, <3>5
    <3> QED BY <3>6, <3>7 DEF Charged
  <2>7. CASE /\ env.honours => key \notin Arrived(p)
             /\ Len(effects'[p]) = Len(effects[p]) + 1
             /\ Arrived(p)' = Arrived(p) \cup {key}
             /\ underway' = underway
    <3>1. Pending(p)' = Pending(p)
      BY <2>7 DEF Pending
    <3>2. Len(effects'[p]) + Cardinality(Pending(p)') + Left(p)' <= caller'[p].times * MaxAttempts'
      <4>1. Len(effects'[p]) + Cardinality(Pending(p)') + Left(p)' <= most
        BY <2>1, <2>3, <2>7, <2>9, <3>1
      <4> QED BY <2>5, <2>8, <4>1
    <3>3. env'.honours => Len(effects'[p]) + Cardinality(Unapplied(p)') <= caller'[p].times
      <4> HAVE env'.honours
      <4>1. key \in Unapplied(p)
        BY <2>7 DEF Unapplied, key
      <4>2. Unapplied(p)' \subseteq Unapplied(p) \ {key}
        BY <1>2, <1>4, <2>7, <3>1 DEF Unapplied, key
      <4>3. Cardinality(Unapplied(p)') \in Nat /\ Cardinality(Unapplied(p)') + 1 <= Cardinality(Unapplied(p))
        BY <2>1, <4>1, <4>2, OneLess
      <4>4. Len(effects[p]) + Cardinality(Unapplied(p)) <= caller[p].times
        BY <1>1 DEF Charged
      <4> QED BY <2>1, <2>2, <2>5, <2>7, <4>3, <4>4
    <3> QED BY <3>2, <3>3 DEF Charged
  <2> QED BY <1>9, <2>6, <2>7
<1>17. Told(p)'
  <2>1. d.refused /\ d.attempt = 1 => key \notin Arrived(p)' /\ \A r \in underway' : r.key # key
    <3> HAVE d.refused /\ d.attempt = 1
    <3>1. answer \in {"refused", "denied"} /\ d.at # "wait"
      BY <1>2
    <3>2. caller[p].attempt = 1 /\ effects' = effects /\ underway' = underway
      BY <1>2, <3>1
    <3> QED BY <1>1, <3>2 DEF Told, Arrived, key
  <2> QED BY <1>2, <1>4, <1>10, <2>1 DEF Told
<1>18. Waits(p)'
  BY <1>2, <1>4 DEF Waits
<1> QED
  <2>1. \A q \in Process : (Called(q) /\ Charged(q) /\ Told(q) /\ Waits(q))'
    BY <1>14, <1>15, <1>16, <1>17, <1>18
  <2> QED BY <1>12, <1>13, <2>1 DEF HttpInv

\* Steps that change no call: time passes, the server closes, another part works.
LEMMA QuietStep ==
    ASSUME HttpInv, UNCHANGED <<caller, effects, underway, keys, env>>,
           closed' \in Nat, now' \in Nat, now <= now'
    PROVE  HttpInv'
<1>1. HttpTyped /\ KeysDrawn
  BY DEF HttpInv
<1>2. HttpTyped'
  BY <1>1 DEF HttpTyped
<1>3. KeysDrawn'
  BY <1>1 DEF KeysDrawn, Arrived
<1>4. ASSUME NEW q \in Process PROVE (Called(q) /\ Charged(q) /\ Told(q) /\ Waits(q))'
  <2>1. Called(q) /\ Charged(q) /\ Told(q) /\ Waits(q)
    BY DEF HttpInv
  <2>2. keys' \in Nat /\ keys <= keys'
    BY <1>1 DEF HttpTyped
  <2> QED BY <1>1, <2>1, <2>2, OtherCaller
<1> QED BY <1>2, <1>3, <1>4 DEF HttpInv

LEMMA WakeStep ==
    ASSUME HttpInv, env' = env, NEW p \in Process, Wake(p)
    PROVE  HttpInv'
<1> DEFINE d == [caller[p] EXCEPT !.at = "send"]
<1>1. HttpTyped /\ KeysDrawn /\ Called(p) /\ Charged(p) /\ Told(p) /\ Waits(p)
  BY DEF HttpInv
<1>2. caller[p] \in Call /\ caller[p].at = "wait" /\ caller' = [caller EXCEPT ![p] = d]
  BY <1>1 DEF Wake, HttpTyped
<1>3. UNCHANGED <<effects, underway, keys, closed, now>>
  BY DEF Wake
<1>4. d \in Call
  BY <1>2, ZenonT(20) DEF Call
<1>5. /\ d.at = "send" /\ d.key = caller[p].key /\ d.times = caller[p].times
      /\ d.attempt = caller[p].attempt /\ d.until = caller[p].until /\ d.told = caller[p].told
      /\ d.refused = caller[p].refused
  BY <1>2 DEF Call
<1> HIDE DEF d
<1>6. caller'[p] = d /\ caller' \in [Process -> Call] /\ \A q \in Process : q # p => caller'[q] = caller[q]
  BY <1>1, <1>2, <1>4 DEF HttpTyped
<1>7. HttpTyped'
  BY <1>1, <1>3, <1>6 DEF HttpTyped
<1>8. \A q \in Process : caller'[q].key = caller[q].key /\ (caller'[q].at = "idle" <=> caller[q].at = "idle")
  BY <1>2, <1>5, <1>6
<1>9. KeysDrawn'
  BY <1>1, <1>3, <1>8 DEF KeysDrawn, Arrived
<1>10. ASSUME NEW q \in Process, q # p PROVE (Called(q) /\ Charged(q) /\ Told(q) /\ Waits(q))'
  <2>1. Called(q) /\ Charged(q) /\ Told(q) /\ Waits(q)
    BY DEF HttpInv
  <2>2. keys' \in Nat /\ keys <= keys' /\ now' \in Nat /\ now <= now'
    BY <1>1, <1>3 DEF HttpTyped
  <2>3. caller'[q] = caller[q] /\ effects'[q] = effects[q]
    BY <1>3, <1>6, <1>10
  <2> QED BY <1>1, <1>3, <2>1, <2>2, <2>3, OtherCaller
<1>11. MaxAttempts' = MaxAttempts /\ Arrived(p)' = Arrived(p) /\ Pending(p)' = Pending(p)
  BY <1>3 DEF MaxAttempts, Arrived, Pending
<1>12. Unapplied(p)' = Unapplied(p) /\ Left(p)' = Left(p)
  BY <1>2, <1>5, <1>6, <1>11 DEF Unapplied, Left
<1>13. caller[p].refused = FALSE
  BY <1>1, <1>2 DEF Called, Call
<1>14. Called(p)'
  BY <1>1, <1>2, <1>5, <1>6, <1>11, <1>13 DEF Called
<1>15. Charged(p)'
  BY <1>1, <1>3, <1>5, <1>6, <1>11, <1>12 DEF Charged
<1>16. Told(p)' /\ Waits(p)'
  <2>1. Waits(p)'
    BY <1>1, <1>2, <1>5, <1>6 DEF Waits
  <2>2. caller[p].attempt # 1
    BY <1>1, <1>2 DEF Called
  <2> QED BY <1>5, <1>6, <2>1, <2>2 DEF Told
<1> QED
  <2>1. \A q \in Process : (Called(q) /\ Charged(q) /\ Told(q) /\ Waits(q))'
    BY <1>10, <1>14, <1>15, <1>16
  <2> QED BY <1>7, <1>9, <2>1 DEF HttpInv

\* A call draws a key nobody has.
LEMMA BeginStep ==
    ASSUME HttpInv, env' = env, NEW p \in Process, BeginRequest(p)
    PROVE  HttpInv'
<1> DEFINE c == caller[p]
           d == [NotCalled EXCEPT !.at = "send", !.key = keys + 1, !.attempt = 1, !.times = c.times + 1]
<1>1. HttpTyped /\ KeysDrawn /\ Called(p) /\ Charged(p) /\ Told(p) /\ Waits(p)
  BY DEF HttpInv
<1>2. /\ c.at \in {"idle", "transient"} /\ keys' = keys + 1
      /\ caller' = [caller EXCEPT ![p] = d]
      /\ UNCHANGED <<effects, underway, closed, now>>
  BY DEF BeginRequest
<1>3. c \in Call /\ c.times \in Nat /\ c.key \in Nat /\ keys \in Nat /\ now \in Nat
  BY <1>1 DEF HttpTyped, Call
<1>4. NotCalled \in Call
  <2>1. 0 \in Nat
    OBVIOUS
  <2> QED BY <2>1, ZenonT(20) DEF NotCalled, Call
<1>5. d \in Call
  <2>1. keys + 1 \in Nat /\ 1 \in Nat /\ c.times + 1 \in Nat
    BY <1>3
  <2> QED BY <1>4, <2>1, ZenonT(20) DEF Call
<1>6. /\ d.at = "send" /\ d.key = keys + 1 /\ d.attempt = 1 /\ d.until = 0 /\ d.told = 0
      /\ d.times = c.times + 1 /\ d.refused = FALSE
  BY DEF NotCalled
<1> HIDE DEF d
<1>7. caller'[p] = d /\ caller' \in [Process -> Call] /\ \A q \in Process : q # p => caller'[q] = caller[q]
  BY <1>1, <1>2, <1>5 DEF HttpTyped
<1>8. HttpTyped'
  BY <1>1, <1>2, <1>7 DEF HttpTyped
<1>9. MaxAttempts \in Nat \ {0} /\ MaxAttempts' = MaxAttempts
  BY <1>1, HttpSettings DEF HttpTyped, MaxAttempts
\* The key is new to the server and to every other call.
<1>10. /\ \A q \in Process : Arrived(q)' = Arrived(q) /\ Arrived(q) \subseteq 0..keys
       /\ \A r \in underway : r.key \in Nat /\ r.key <= keys
       /\ \A q \in Process : caller[q].key \in Nat /\ caller[q].key <= keys
  BY <1>1, <1>2 DEF HttpTyped, KeysDrawn, Arrived, Call
<1>11. KeysDrawn'
  <2>1. \A r \in underway' : r.key <= keys'
    BY <1>2, <1>3, <1>10
  <2>2. \A q \in Process : Arrived(q)' \subseteq 0..keys' /\ caller'[q].key <= keys'
    BY <1>2, <1>3, <1>6, <1>7, <1>10
  <2>3. ASSUME NEW q \in Process, NEW r \in Process, q # r, caller'[q].key = caller'[r].key
        PROVE  caller'[q].at = "idle"
    <3>1. q # p /\ r # p
      BY <1>3, <1>6, <1>7, <1>10, <2>3
    <3> QED BY <1>1, <1>7, <2>3, <3>1 DEF KeysDrawn
  <2> QED BY <2>1, <2>2, <2>3 DEF KeysDrawn
<1>12. ASSUME NEW q \in Process, q # p PROVE (Called(q) /\ Charged(q) /\ Told(q) /\ Waits(q))'
  <2>1. Called(q) /\ Charged(q) /\ Told(q) /\ Waits(q)
    BY DEF HttpInv
  <2>2. keys' \in Nat /\ keys <= keys' /\ now' \in Nat /\ now <= now'
    BY <1>2, <1>3
  <2>3. caller'[q] = caller[q] /\ effects'[q] = effects[q] /\ underway' = underway
    BY <1>2, <1>7, <1>12
  <2> QED BY <1>1, <2>1, <2>2, <2>3, OtherCaller
<1>13. Called(p)'
  BY <1>6, <1>7, <1>9 DEF Called
<1>14. Told(p)'
  <2>1. keys + 1 \notin Arrived(p)' /\ \A r \in underway' : r.key # keys + 1
    BY <1>2, <1>3, <1>10
  <2> QED BY <1>6, <1>7, <2>1 DEF Told
<1>15. Waits(p)'
  BY <1>6, <1>7 DEF Waits
<1>16. Charged(p)'
  <2>1. /\ IsFiniteSet(Pending(p)) /\ Cardinality(Pending(p)) \in Nat
        /\ IsFiniteSet(Unapplied(p)) /\ Cardinality(Unapplied(p)) \in Nat
        /\ Len(effects[p]) \in Nat
    BY <1>1, KeySets
  <2>2. Pending(p)' = Pending(p)
    <3>1. [by |-> p, key |-> keys + 1] \notin underway
      <4>1. [by |-> p, key |-> keys + 1].key = keys + 1
        OBVIOUS
      <4> QED BY <1>3, <1>10, <4>1
    <3>2. 0..(keys + 1) = (0..keys) \cup {keys + 1}
      BY <1>3
    <3> QED BY <1>2, <3>1, <3>2 DEF Pending
  <2>3. Unapplied(p)' \subseteq Unapplied(p) \cup {keys + 1}
    <3>1. Arrived(p)' = Arrived(p)
      BY <1>10
    <3> QED BY <1>6, <1>7, <2>2, <3>1 DEF Unapplied
  <2>4. Cardinality(Unapplied(p)') \in Nat /\ Cardinality(Unapplied(p)') <= Cardinality(Unapplied(p)) + 1
    BY <2>1, <2>3, OneMore
  <2>5. Left(p) \in Nat /\ Left(p)' = MaxAttempts
    <3>1. Left(p) \in Nat
      BY <1>1, <1>2, <1>3, <1>9 DEF Left, Called
    <3> QED BY <1>6, <1>7, <1>9, <3>1 DEF Left
  <2>6. (c.times + 1) * MaxAttempts = c.times * MaxAttempts + MaxAttempts /\ c.times * MaxAttempts \in Nat
    BY <1>3, <1>9
  <2>7. effects' = effects /\ caller'[p].times = c.times + 1
    BY <1>2, <1>6, <1>7
  <2>8. Len(effects'[p]) + Cardinality(Pending(p)') + Left(p)' <= caller'[p].times * MaxAttempts'
    <3>1. Len(effects[p]) + Cardinality(Pending(p)) + Left(p) <= c.times * MaxAttempts
      BY <1>1 DEF Charged
    <3>2. Len(effects[p]) + Cardinality(Pending(p)) + MaxAttempts <= (c.times + 1) * MaxAttempts
      BY <1>9, <2>1, <2>5, <2>6, <3>1
    <3> QED BY <1>9, <2>2, <2>5, <2>7, <3>2
  <2>9. env'.honours => Len(effects'[p]) + Cardinality(Unapplied(p)') <= caller'[p].times
    <3> HAVE env'.honours
    <3>1. Len(effects[p]) + Cardinality(Unapplied(p)) <= c.times
      BY <1>1 DEF Charged
    <3> QED BY <1>3, <2>1, <2>4, <2>7, <3>1
  <2> QED BY <2>8, <2>9 DEF Charged
<1> QED
  <2>1. \A q \in Process : (Called(q) /\ Charged(q) /\ Told(q) /\ Waits(q))'
    BY <1>12, <1>13, <1>14, <1>15, <1>16
  <2> QED BY <1>8, <1>11, <2>1 DEF HttpInv

\* A request that was given up arrives, whoever calls meanwhile.
LEMMA LateStep ==
    ASSUME HttpInv, env' = env, ArriveLate
    PROVE  HttpInv'
<1>1. HttpTyped /\ KeysDrawn
  BY DEF HttpInv
<1>2. PICK r \in underway :
        /\ effects' = Applied(r.by, r.key)
        /\ underway' = underway \ {r}
        /\ UNCHANGED <<caller, keys, closed, now>>
  BY DEF ArriveLate
<1>3. PICK p \in Process, key \in Nat : r = [by |-> p, key |-> key]
  BY <1>1 DEF HttpTyped
<1>4. r.by = p /\ r.key = key /\ key <= keys /\ keys \in Nat /\ now \in Nat
  BY <1>1, <1>3 DEF HttpTyped, KeysDrawn
<1>5. Called(p) /\ Charged(p) /\ Told(p) /\ Waits(p)
  BY DEF HttpInv
<1>6. effects \in [Process -> Seq(Nat)] /\ effects[p] \in Seq(Nat)
  BY <1>1 DEF HttpTyped
<1>7. \/ effects' = effects /\ env.honours /\ key \in Arrived(p)
      \/ (env.honours => key \notin Arrived(p)) /\ effects' = [effects EXCEPT ![p] = Append(@, key)]
  BY <1>2, <1>4 DEF Applied
<1>8. /\ effects' \in [Process -> Seq(Nat)]
      /\ \A q \in Process : q # p => effects'[q] = effects[q]
  <2>1. Append(effects[p], key) \in Seq(Nat)
    BY <1>6
  <2> QED BY <1>6, <1>7, <2>1
<1>9. \/ effects'[p] = effects[p] /\ Arrived(p)' = Arrived(p) /\ env.honours /\ key \in Arrived(p)
      \/ /\ env.honours => key \notin Arrived(p)
         /\ Len(effects'[p]) = Len(effects[p]) + 1
         /\ Arrived(p)' = Arrived(p) \cup {key}
  <2>1. CASE effects' = effects /\ env.honours /\ key \in Arrived(p)
    BY <2>1 DEF Arrived
  <2>2. CASE (env.honours => key \notin Arrived(p)) /\ effects' = [effects EXCEPT ![p] = Append(@, key)]
    <3>1. effects'[p] = Append(effects[p], key)
      BY <1>6, <2>2
    <3>2. Len(effects'[p]) = Len(effects[p]) + 1 /\ KeysOf(effects'[p]) = KeysOf(effects[p]) \cup {key}
      BY <1>6, <3>1, ArrivedMore
    <3>3. Arrived(p)' = Arrived(p) \cup {key}
      BY <3>2 DEF Arrived, KeysOf
    <3> QED BY <2>2, <3>2, <3>3
  <2> QED BY <1>7, <2>1, <2>2
<1>10. HttpTyped'
  BY <1>1, <1>2, <1>8 DEF HttpTyped
<1>11. KeysDrawn'
  <2>1. \A q \in Process : Arrived(q)' \subseteq 0..keys
    <3> TAKE q \in Process
    <3>1. CASE q = p
      BY <1>1, <1>4, <1>9, <3>1 DEF KeysDrawn
    <3>2. CASE q # p
      BY <1>1, <1>8, <3>2 DEF KeysDrawn, Arrived
    <3> QED BY <3>1, <3>2
  <2> QED BY <1>1, <1>2, <2>1 DEF KeysDrawn
<1>12. ASSUME NEW q \in Process, q # p PROVE (Called(q) /\ Charged(q) /\ Told(q) /\ Waits(q))'
  <2>1. Called(q) /\ Charged(q) /\ Told(q) /\ Waits(q)
    BY DEF HttpInv
  <2>2. keys' \in Nat /\ keys <= keys' /\ now' \in Nat /\ now <= now'
    BY <1>2, <1>4
  <2>3. caller'[q] = caller[q] /\ effects'[q] = effects[q]
    BY <1>2, <1>8, <1>12
  <2>4. \A k : [by |-> q, key |-> k] \in underway' <=> [by |-> q, key |-> k] \in underway
    BY <1>2, <1>3, <1>12
  <2>5. \A s \in underway' : s \in underway
    BY <1>2
  <2> QED BY <1>1, <2>1, <2>2, <2>3, <2>4, <2>5, OtherCaller
<1>13. MaxAttempts' = MaxAttempts /\ Left(p)' = Left(p)
  BY <1>2 DEF MaxAttempts, Left
<1>14. Called(p)' /\ Waits(p)'
  BY <1>2, <1>5, <1>13 DEF Called, Waits
<1>15. Told(p)'
  <2>1. Arrived(p) \subseteq Arrived(p)'
    BY <1>9
  <2>2. caller[p].key \notin Arrived(p) /\ (\A s \in underway : s.key # caller[p].key)
           => caller[p].key \notin Arrived(p)' /\ \A s \in underway' : s.key # caller[p].key
    BY <1>2, <1>4, <1>9
  <2> QED BY <1>2, <1>5, <2>1, <2>2 DEF Told
<1>16. Charged(p)'
  <2>1. /\ IsFiniteSet(Pending(p)) /\ Cardinality(Pending(p)) \in Nat
        /\ IsFiniteSet(Unapplied(p)) /\ Cardinality(Unapplied(p)) \in Nat
        /\ Len(effects[p]) \in Nat /\ caller[p] \in Call
    BY <1>1, KeySets
  <2>2. Left(p) \in Nat /\ caller[p].times \in Nat /\ caller[p].times * MaxAttempts \in Nat
    <3>1. MaxAttempts \in Nat \ {0} /\ caller[p].times \in Nat /\ caller[p].attempt \in Nat
      BY <1>1, <2>1, HttpSettings DEF HttpTyped, Call
    <3> QED BY <1>5, <3>1 DEF Left, Called
  <2>3. key \in Pending(p) /\ Pending(p)' = Pending(p) \ {key}
    <3>1. key \in 0..keys
      BY <1>4
    <3>2. \A k : [by |-> p, key |-> k] = r <=> k = key
      BY <1>3
    <3> QED BY <1>2, <1>3, <3>1, <3>2 DEF Pending
  <2>4. Cardinality(Pending(p)') \in Nat /\ Cardinality(Pending(p)') + 1 <= Cardinality(Pending(p))
    BY <2>1, <2>3, OneLess
  <2>5. Len(effects'[p]) + Cardinality(Pending(p)') + Left(p)' <= caller'[p].times * MaxAttempts'
    <3>1. PICK most \in Nat : most = caller[p].times * MaxAttempts
      BY <2>2
    <3>2. Len(effects[p]) + Cardinality(Pending(p)) + Left(p) <= most
      BY <1>5, <3>1 DEF Charged
    <3>3. Len(effects'[p]) \in Nat /\ Len(effects'[p]) <= Len(effects[p]) + 1
      BY <1>9, <2>1
    <3>4. Len(effects'[p]) + Cardinality(Pending(p)') + Left(p) <= most
      BY <2>1, <2>2, <2>4, <3>2, <3>3
    <3>5. caller' = caller /\ MaxAttempts' = MaxAttempts /\ Left(p)' = Left(p)
      BY <1>2, <1>13
    <3> QED BY <3>1, <3>4, <3>5
  <2>6. env'.honours => Len(effects'[p]) + Cardinality(Unapplied(p)') <= caller'[p].times
    <3> HAVE env'.honours
    <3>1. Len(effects[p]) + Cardinality(Unapplied(p)) <= caller[p].times /\ caller' = caller
      BY <1>2, <1>5 DEF Charged
    <3>2. CASE effects'[p] = effects[p] /\ Arrived(p)' = Arrived(p)
      <4>1. Unapplied(p)' \subseteq Unapplied(p)
        BY <2>3, <3>1, <3>2 DEF Unapplied
      <4>2. Cardinality(Unapplied(p)') \in Nat /\ Cardinality(Unapplied(p)') <= Cardinality(Unapplied(p))
        BY <2>1, <4>1, NoMore
      <4> QED BY <2>1, <2>2, <3>1, <3>2, <4>2
    <3>3. CASE /\ key \notin Arrived(p)
               /\ Len(effects'[p]) = Len(effects[p]) + 1
               /\ Arrived(p)' = Arrived(p) \cup {key}
      <4>1. key \in Unapplied(p)
        BY <2>3, <3>3 DEF Unapplied
      <4>2. Unapplied(p)' \subseteq Unapplied(p) \ {key}
        BY <2>3, <3>1, <3>3 DEF Unapplied
      <4>3. Cardinality(Unapplied(p)') \in Nat /\ Cardinality(Unapplied(p)') + 1 <= Cardinality(Unapplied(p))
        BY <2>1, <4>1, <4>2, OneLess
      <4> QED BY <2>1, <2>2, <3>1, <3>3, <4>3
    <3> QED BY <1>9, <3>2, <3>3
  <2> QED BY <2>5, <2>6 DEF Charged
<1> QED
  <2>1. \A q \in Process : (Called(q) /\ Charged(q) /\ Told(q) /\ Waits(q))'
    BY <1>12, <1>14, <1>15, <1>16
  <2> QED BY <1>10, <1>11, <2>1 DEF HttpInv

LEMMA HttpStart == Init => HttpInv
<1> SUFFICES ASSUME Init PROVE HttpInv
  OBVIOUS
<1>1. /\ env \in Environment
      /\ caller = [p \in Process |-> NotCalled] /\ effects = [p \in Process |-> <<>>]
      /\ underway = {} /\ keys = 0 /\ closed = 0 /\ now = 0
  BY DEF Init, HttpInit
<1>2. NotCalled \in Call
  <2>1. 0 \in Nat
    OBVIOUS
  <2> QED BY <2>1, ZenonT(20) DEF NotCalled, Call
<1>3. HttpTyped
  BY <1>1, <1>2 DEF HttpTyped
<1>4. ASSUME NEW p \in Process
      PROVE  /\ caller[p] = NotCalled /\ effects[p] = <<>> /\ Len(effects[p]) = 0
             /\ Arrived(p) = {} /\ Pending(p) = {} /\ Unapplied(p) = {} /\ Left(p) = 0
  <2>1. caller[p] = NotCalled /\ effects[p] = <<>> /\ caller[p].at = "idle"
    BY <1>1 DEF NotCalled
  <2>2. Arrived(p) = {} /\ Pending(p) = {}
    BY <1>1, <2>1 DEF Arrived, Pending
  <2> QED BY <2>1, <2>2 DEF Unapplied, Left
<1>5. NotCalled.at = "idle" /\ NotCalled.times = 0 /\ NotCalled.key = 0 /\ NotCalled.refused = FALSE
  BY DEF NotCalled
<1>6. KeysDrawn
  BY <1>1, <1>4, <1>5 DEF KeysDrawn
<1>7. ASSUME NEW p \in Process PROVE Called(p) /\ Charged(p) /\ Told(p) /\ Waits(p)
  <2>1. Called(p) /\ Told(p) /\ Waits(p)
    BY <1>4, <1>5 DEF Called, Told, Waits
  <2>2. Cardinality({}) = 0 /\ MaxAttempts \in Nat
    BY <1>1, HttpSettings, FS_EmptySet
  <2>3. caller[p].times = 0 /\ 0 * MaxAttempts = 0
    BY <1>4, <1>5, <2>2
  <2>4. /\ Len(effects[p]) + Cardinality(Unapplied(p)) <= caller[p].times
        /\ Len(effects[p]) + Cardinality(Pending(p)) + Left(p) <= caller[p].times * MaxAttempts
    <3>1. Cardinality(Unapplied(p)) = 0 /\ Cardinality(Pending(p)) = 0
      BY <1>4, <2>2
    <3>2. Len(effects[p]) = 0 /\ Left(p) = 0
      BY <1>4
    <3> QED BY <2>3, <3>1, <3>2
  <2>5. Charged(p)
    BY <2>4 DEF Charged
  <2> QED BY <2>1, <2>5
<1> QED BY <1>3, <1>6, <1>7 DEF HttpInv

LEMMA HttpStep == HttpInv /\ [Next]_vars => HttpInv'
<1> SUFFICES ASSUME HttpInv, [Next]_vars PROVE HttpInv'
  OBVIOUS
<1>1. env' = env
  BY DEF Next, vars
<1>2. env \in Environment /\ closed \in Nat /\ now \in Nat
  BY DEF HttpInv, HttpTyped
<1>3. \A e : e = NoEnvelope => e \in [retryAfter : Nat, reset : Nat]
  BY DEF NoEnvelope
<1>4. CASE UNCHANGED httpVars
  BY <1>1, <1>2, <1>4, QuietStep DEF httpVars
<1>5. CASE env.part = "http" /\ HttpNext
  <2>1. ASSUME NEW p \in Process, BeginRequest(p) PROVE HttpInv'
    BY <1>1, <2>1, BeginStep
  <2>2. ASSUME NEW p \in Process, Attempt(p) PROVE HttpInv'
    <3> DEFINE key == caller[p].key
    <3>1. PICK answer \in {"ok"} \cup env.answers :
            /\ caller' = [caller EXCEPT ![p] = After(p, answer, NoEnvelope)]
            /\ effects' \in (IF answer \in {"ok", "lost", "garbled", "unexpected", "down"} THEN {Applied(p, key)} ELSE {})
                              \cup (IF answer \in {"refused", "denied", "nothing", "late", "down"} THEN {effects} ELSE {})
            /\ underway' = IF answer = "late" THEN underway \cup {[by |-> p, key |-> key]} ELSE underway
      BY <2>2 DEF Attempt
    <3>2. caller[p].at = "send" /\ UNCHANGED <<keys, closed, now>>
      BY <2>2 DEF Attempt
    <3>3. env.answers \subseteq Answer
      BY <1>2, <1>5, HttpAssumption
    <3>4. answer \in {"ok", "limited"} \cup Answer
      BY <3>1, <3>3
    <3>5. effects' \in {effects, Applied(p, key)}
      BY <3>1
    <3>6. underway' \in {underway, underway \cup {[by |-> p, key |-> key]}}
      BY <3>1
    <3>7. effects' = effects \/ underway' = underway
      BY <3>1
    <3>8. answer = "ok" => effects' = Applied(p, key)
      BY <3>1
    <3>9. answer \in {"refused", "denied"} => effects' = effects /\ underway' = underway
      BY <3>1
    <3>10. NoEnvelope \in [retryAfter : Nat, reset : Nat]
      BY <1>3
    <3> QED BY <1>1, <3>1, <3>2, <3>4, <3>5, <3>6, <3>7, <3>8, <3>9, <3>10, JudgedStep
  <2>3. ASSUME NEW p \in Process, Limited(p) PROVE HttpInv'
    <3>1. PICK e \in Envelopes : caller' = [caller EXCEPT ![p] = After(p, "limited", e)]
      BY <2>3 DEF Limited
    <3>2. caller[p].at = "send" /\ now < closed /\ UNCHANGED <<effects, underway, keys, closed, now>>
      BY <2>3 DEF Limited
    <3>3. closed - now \in Nat
      BY <1>2, <3>2
    <3>4. e \in [retryAfter : Nat, reset : Nat]
      BY <1>2, <3>3 DEF Envelopes, NoEnvelope
    <3> QED BY <1>1, <3>1, <3>2, <3>4, JudgedStep
  <2>4. ASSUME NEW p \in Process, Wake(p) PROVE HttpInv'
    BY <1>1, <2>4, WakeStep
  <2>5. CASE ArriveLate
    BY <1>1, <2>5, LateStep
  <2>6. CASE Close
    <3>1. UNCHANGED <<caller, effects, underway, keys, now>> /\ closed' \in Nat
      BY <1>2, <2>6, HttpAssumption DEF Close
    <3> QED BY <1>1, <1>2, <3>1, QuietStep
  <2>7. CASE Tick
    <3>1. UNCHANGED <<caller, effects, underway, keys, closed>> /\ now' = now + 1
      BY <2>7 DEF Tick
    <3> QED BY <1>1, <1>2, <3>1, QuietStep
  <2> QED BY <1>5, <2>1, <2>2, <2>3, <2>4, <2>5, <2>6, <2>7 DEF HttpNext
<1> QED BY <1>4, <1>5 DEF Next, vars

LEMMA HttpAgrees == HttpInv => CallsAgree
<1> SUFFICES ASSUME HttpInv PROVE CallsAgree
  OBVIOUS
<1>1. HttpTyped /\ KeysDrawn
  BY DEF HttpInv
<1>2. EffectsCounted
  <2> SUFFICES ASSUME NEW p \in Process
               PROVE  /\ env.honours => Len(effects[p]) <= caller[p].times
                      /\ Len(effects[p]) <= caller[p].times * MaxAttempts
                      /\ caller[p].at = "success" => caller[p].key \in Arrived(p)
                      /\ caller[p].refused /\ caller[p].attempt = 1 =>
                            caller[p].key \notin Arrived(p) /\ \A r \in underway : r.key # caller[p].key
    BY Zenon DEF EffectsCounted
  <2>1. Called(p) /\ Charged(p) /\ Told(p)
    BY DEF HttpInv
  <2>2. /\ Cardinality(Pending(p)) \in Nat /\ Cardinality(Unapplied(p)) \in Nat
        /\ Len(effects[p]) \in Nat /\ caller[p] \in Call
    BY <1>1, KeySets
  <2>3. MaxAttempts \in Nat /\ caller[p].times \in Nat /\ caller[p].attempt \in Nat
    BY <1>1, <2>2, HttpSettings DEF HttpTyped, Call
  <2>4. Left(p) \in Nat /\ caller[p].times * MaxAttempts \in Nat
    BY <2>1, <2>3 DEF Left, Called
  <2>5. env.honours => Len(effects[p]) <= caller[p].times
    BY <2>1, <2>2, <2>3 DEF Charged
  <2>6. Len(effects[p]) <= caller[p].times * MaxAttempts
    BY <2>1, <2>2, <2>4 DEF Charged
  <2> QED BY <2>1, <2>5, <2>6 DEF Told
<1>3. WaitsAsTold
  <2> SUFFICES ASSUME NEW p \in Process
               PROVE  /\ caller[p].at \in {"wait", "send"} /\ caller[p].attempt > 1 => caller[p].until >= caller[p].told
                      /\ caller[p].at = "wait" => caller[p].until <= SetOps!Max({caller[p].told, now + MaxBackoff})
    BY Zenon DEF WaitsAsTold
  <2>1. Waits(p)
    BY DEF HttpInv
  <2>2. caller[p].told \in Int /\ now + MaxBackoff \in Int /\ caller[p].until \in Int
    BY <1>1, HttpAssumption DEF HttpTyped, Call
  <2>3. /\ SetOps!Max({caller[p].told, now + MaxBackoff}) \in Int
        /\ SetOps!Max({caller[p].told, now + MaxBackoff}) >= caller[p].told
        /\ SetOps!Max({caller[p].told, now + MaxBackoff}) >= now + MaxBackoff
    <3> DEFINE x == caller[p].told
               y == now + MaxBackoff
    <3>1. x \in Int /\ y \in Int
      BY <2>2
    <3> HIDE DEF x, y
    <3>2. SetOps!Max({x, y}) \in {x, y} /\ SetOps!Max({x, y}) >= x /\ SetOps!Max({x, y}) >= y
      BY <3>1, GreatestOfTwo
    <3>3. SetOps!Max({x, y}) \in Int
      BY <3>1, <3>2
    <3> QED BY <3>2, <3>3 DEF x, y
  <2> QED BY <2>1, <2>2, <2>3 DEF Waits
<1> QED BY <1>2, <1>3 DEF CallsAgree

(***************************************************************************)
(* A server that honours keys lets a call take effect once; success and a  *)
(* refusal of the first attempt tell the truth; and no retry comes earlier *)
(* than the server said or later than the longest backoff, for any number  *)
(* of callers, attempts and answers (HttpClient.request,                   *)
(* calculateBackoff).                                                      *)
(***************************************************************************)
THEOREM CallsTrue == Spec => []CallsAgree
<1>1. Spec => []HttpInv
  BY HttpStart, HttpStep, PTL DEF Spec
<1> QED BY <1>1, HttpAgrees, PTL

-----------------------------------------------------------------------------
(* Deployment.tla over PullRequests.tla and GitHub.tla *)

Statuses == {"success", "failure"}
PrMetadata ==
    [kind : {"pr"}, head : Sha, requested : SUBSET Reviewer, auto : BOOLEAN, ready : BOOLEAN,
     reasons : SUBSET {"state", "draft", "conflicts", "blocked", "checks"}]
Reports ==
    [kind : {"report"}, sha : 0..MaxSha, protected : BOOLEAN, checks : BOOLEAN, stale : BOOLEAN, reviews : BOOLEAN,
     compliant : BOOLEAN, autoMerge : BOOLEAN]
OutcomeRecords ==
    [strategy : {"merge", "auto", "dispatch", "blocked"}, ok : BOOLEAN, head : 0..MaxSha, report : Reports \cup {Absent},
     force : BOOLEAN]
Entries == {"pr_created", "reviewers_requested"}
Logs ==
    [kind : {"log"}, outcomes : Seq(OutcomeRecords), actions : Seq([action : Entries, users : SUBSET Reviewer])]
SeenRecords ==
    [state : {"none", "open", "closed", "merged"}, head : Sha, draft : BOOLEAN, mergeable : BOOLEAN, blocked : BOOLEAN]
Facts == [sha : 0..MaxSha, checks : BOOLEAN, behind : BOOLEAN, reviews : BOOLEAN]

Reading == {"pr", "suites", "prAgain", "suitesAgain"}
Writing == {"tmp", "rename", "feature", "readLog", "log", "renameLog"}
Asking == {"rules", "refs", "checks", "compare", "reviews", "report"}
Deciding == {"assess", "blocked", "dispatch", "merge", "node", "auto"}
Concluding == {"outcome", "persist"}

Stages == {"idle", "create", "ask", "error"} \cup Reading \cup Writing \cup Asking \cup Deciding \cup Concluding

AgentRecords ==
    [at : Stages,
     op : {"none", "create", "reviewers", "status", "refresh", "deploy"}, pr : PrMetadata \cup {Absent},
     seen : SeenRecords, suites : {"none"}, ask : SUBSET Reviewer, entry : {"none"} \cup Entries \cup OutcomeRecords,
     log : Logs \cup {Absent}, facts : Facts, report : Reports \cup {Absent}, force : BOOLEAN]

RemoteTyped ==
    /\ env \in Environment
    /\ remote \in [state : {"none", "open", "closed", "merged"}, head : Sha, draft : BOOLEAN, mergeable : BOOLEAN,
                   auto : BOOLEAN, requested : SUBSET Reviewer, statuses : [Sha -> Seq(Statuses)],
                   run : [Sha -> {"none", "success", "failure", "pending"}],
                   reviews : Seq([user : Reviewer, state : {"APPROVED", "COMMENTED", "CHANGES_REQUESTED"}]), base : 0..1,
                   contains : [Sha -> 0..1], merged : 0..MaxSha, dispatched : BOOLEAN]

\* Where results only get better, a success is the last one.
StatusOrder ==
    "regress" \notin env.events =>
        \A sha \in Sha : Succeeded(remote.statuses[sha]) => remote.statuses[sha][Len(remote.statuses[sha])] = "success"

(***************************************************************************)
(* What is true of GitHub, and stays true whatever it does next.           *)
(***************************************************************************)
TruePrs ==
    {Absent} \cup
    {pr \in PrMetadata : remote.state # "none" /\ pr.requested \subseteq remote.requested /\ pr.head <= remote.head}

Judged(sha) == "regress" \notin env.events /\ env.rules.protected /\ sha # ByName

TrueReports ==
    {Absent} \cup
    {r \in Reports :
        /\ r.sha <= remote.head /\ r.protected = env.rules.protected
        /\ Judged(r.sha) =>
            /\ r.checks => ChecksGood(r.sha)
            /\ r.reviews => ReviewsGood
            /\ r.stale => Behind(r.sha)
        /\ CanProceed(r) <=> ProtectionBlockers(r, Unseen) = {}
        /\ Recommended(r) = ProtectionBlockers(r, Unseen)}

MergeTrue(o) ==
    /\ remote.state = "merged" /\ remote.merged = o.head
    /\ o.report # Absent /\ o.report.sha = o.head /\ ~o.force /\ Judged(o.head) => ChecksGood(o.head) /\ ReviewsGood

TrueOutcomes ==
    {o \in OutcomeRecords :
        /\ o.report # Absent => o.report.protected = env.rules.protected
        /\ o.ok =>
            /\ o.strategy = "merge" => o.head # ByName /\ MergeTrue(o)
            /\ o.strategy = "auto" => remote.auto \/ remote.state \in {"closed", "merged"} \/ "refuse" \in env.events
            /\ o.strategy = "dispatch" => remote.dispatched}

TrueLogs == [kind : {"log"}, outcomes : Seq(TrueOutcomes), actions : Seq([action : Entries, users : SUBSET Reviewer])]

\* What a refresh has found out so far.
FactsTrue(a) ==
    LET f == a.facts
    IN  a.at \in Asking =>
            /\ f.sha <= remote.head
            /\ a.at \in {"rules", "refs"} => f = NoFacts
            /\ a.at \in {"checks", "compare", "reviews"} => env.rules.protected
            /\ a.at \in {"checks", "compare"} => ~f.behind
            /\ a.at = "report" /\ ~env.rules.protected => f.checks /\ ~f.behind /\ f.reviews
            /\ Judged(f.sha) =>
                /\ a.at \in {"compare", "reviews", "report"} /\ f.checks => ChecksGood(f.sha)
                /\ a.at = "report" /\ f.reviews => ReviewsGood
                /\ f.behind => Behind(f.sha)

\* A place is one of the operation that is carried out, and the environment has that operation.
InPlace(a) ==
    \/ a.at = "idle"
    \/ /\ a.op \in env.ops
       /\ \/ a.op = "create" /\ a.at \in {"create", "ask"} \cup Writing
          \/ a.op = "reviewers" /\ a.at \in {"ask"} \cup Writing
          \/ a.op = "status" /\ a.at \in Reading \cup {"tmp", "rename", "feature"}
          \/ a.op = "refresh" /\ a.at \in Asking
          \/ a.op = "deploy" /\ a.at \in {"error"} \cup Deciding \cup Concluding

\* What a process has in its hands fits its place.
HandsTrue(a) ==
    /\ a.at \in {"ask"} \cup Reading \cup Writing \cup Deciding => a.pr # Absent
    /\ a.at # "ask" => a.pr \in TruePrs
    /\ a.at = "ask" =>
            remote.state # "none" /\ a.pr.requested \subseteq remote.requested \cup a.ask /\ a.pr.head <= remote.head
    /\ a.seen.head <= remote.head
    /\ a.report \in TrueReports
    /\ a.at = "merge" /\ ~a.force /\ a.report # Absent => a.report.checks /\ a.report.reviews
    /\ a.log \in TrueLogs \cup {Absent}
    /\ a.at \in {"log", "persist"} => a.log # Absent
    /\ a.at \in {"create", "ask"} \cup Reading \cup Writing => a.entry \in {"none"} \cup Entries
    /\ a.at \in {"readLog", "log", "renameLog"} => a.entry # "none"
    /\ a.op = "status" => a.entry = "none"
    /\ a.at \in Concluding => a.entry \in TrueOutcomes

TrueAgents == {a \in AgentRecords : InPlace(a) /\ HandsTrue(a) /\ FactsTrue(a)}

PrInv ==
    /\ RemoteTyped /\ StatusOrder
    /\ prFile \in TruePrs /\ prTmp \in TruePrs
    /\ linked \in BOOLEAN
    /\ history \in TrueLogs \cup {Absent} /\ historyTmp \in TrueLogs \cup {Absent}
    /\ report \in TrueReports \cup {Torn}
    /\ agent \in [Process -> TrueAgents]
    /\ env.part # "pullRequest" => \A p \in Process : agent[p].at = "idle"

\* What the steps of commands and of others never undo.
Grown ==
    /\ remote.state # "none" => remote'.state # "none"
    /\ remote.state \in {"closed", "merged"} => remote'.state = remote.state /\ remote'.merged = remote.merged
    /\ remote.auto => remote'.auto
    /\ remote.dispatched => remote'.dispatched
    /\ remote.requested \subseteq remote'.requested
    /\ remote.head <= remote'.head
    /\ "regress" \notin env.events =>
            /\ \A sha \in Sha : ChecksGood(sha) => ChecksGood(sha)'
            /\ ReviewsGood => ReviewsGood'
    /\ \A sha \in Sha : sha <= remote.head /\ Behind(sha) => Behind(sha)'

\* The commands follow one another, and no call fails.
Calm == env.events \cap {"failure", "lost", "crash", "overlap"} = {}

UsersOf(actions) == UNION {actions[i].users : i \in DOMAIN actions}
Users(h) == IF h = Absent THEN {} ELSE UsersOf(h.actions)

\* What a command leaves behind, and the next one begins with.
Linked == remote.state # "none" => prFile.kind = "pr" /\ linked
Named ==
    "deploy" \notin env.ops =>
        IF prFile = Absent THEN history = Absent ELSE history # Absent /\ prFile.requested = Users(history)
Settled == Linked /\ Named

Unwritten == prFile = Absent /\ ("deploy" \notin env.ops => history = Absent)

CalmAt(a) ==
    /\ a.at \notin {"feature", "readLog", "log", "renameLog"} =>
            IF a.op = "create" THEN Unwritten ELSE Settled
    /\ a.at = "create" => remote.state = "none"
    /\ a.at \notin {"rename"} => prTmp = Absent
    /\ a.at \notin {"renameLog"} => historyTmp = Absent
    /\ a.op \in {"create", "reviewers", "status"} /\ a.at \in {"ask"} \cup Reading \cup Writing =>
            /\ a.op # "create" => prFile.kind = "pr" /\ linked
            /\ a.at = "rename" => prTmp = a.pr
            /\ a.at \in {"feature", "readLog", "log", "renameLog"} => prFile = a.pr
            /\ a.at \in {"readLog", "log", "renameLog"} => linked
            /\ a.entry = "none" /\ a.at # "ask" => a.op = "status" /\ a.ask = {}
            /\ "deploy" \notin env.ops =>
                /\ a.pr.requested \cup a.ask = Users(history) \cup a.ask
                /\ a.at # "ask" => a.ask \subseteq a.pr.requested
                /\ a.op # "create" => history # Absent
                /\ a.at = "log" => a.log = IF history = Absent THEN EmptyLog ELSE history
                /\ a.at = "renameLog" => historyTmp # Absent /\ a.pr.requested = Users(historyTmp)

CalmInv ==
    Calm =>
        /\ \A p, q \in Process : agent[p].at # "idle" /\ agent[q].at # "idle" => p = q
        /\ (\A p \in Process : agent[p].at = "idle") => Settled /\ prTmp = Absent /\ historyTmp = Absent
        /\ \A p \in Process : agent[p].at # "idle" => CalmAt(agent[p])

-----------------------------------------------------------------------------
Outcomes(h) == IF h = Absent THEN <<>> ELSE h.outcomes
Merged(o) == o.ok /\ o.strategy = "merge"

\* Only deployments write the history, and none of them dies or loses an answer.
Keeping == env.ops = {"deploy"} /\ env.events \cap {"lost", "crash"} = {}

KeptInv ==
    Keeping =>
        /\ \A p \in Process : agent[p].at = "persist" =>
                lock = p /\ agent[p].log.outcomes = Append(Outcomes(history), agent[p].entry)
        /\ remote.state = "merged" <=> remote.merged # 0
        /\ remote.merged # 0 /\ ~remote.auto =>
            \/ \E i \in DOMAIN Outcomes(history) : Merged(Outcomes(history)[i])
            \/ \E p \in Process : agent[p].at \in Concluding /\ Merged(agent[p].entry)
-----------------------------------------------------------------------------
LEMMA GitHubSettings ==
    /\ IsFiniteSet(Reviewer) /\ MaxSha \in Nat /\ MaxSha >= 1 /\ 1 \in Sha
    /\ \A e \in Environment :
        /\ e.start \in {"none", "open"}
        /\ e.rules.protected \in BOOLEAN /\ e.rules.checks \in BOOLEAN /\ e.rules.strict \in BOOLEAN
        /\ e.rules.reviews \in Nat /\ e.rules.force \in BOOLEAN
<1>1. IsFiniteSet(Reviewer) /\ MaxSha \in Nat \ {0}
  BY GitHubAssumption
<1>2. \A e \in Environment :
        /\ e.start \in {"none", "open"}
        /\ e.rules \in [protected : BOOLEAN, checks : BOOLEAN, strict : BOOLEAN, reviews : Nat, force : BOOLEAN]
  BY GitHubAssumption
<1>3. 1 \in Sha /\ MaxSha >= 1 /\ MaxSha \in Nat
  BY <1>1 DEF Sha
<1>4. ASSUME NEW e \in Environment
      PROVE  /\ e.rules.protected \in BOOLEAN /\ e.rules.checks \in BOOLEAN /\ e.rules.strict \in BOOLEAN
             /\ e.rules.reviews \in Nat /\ e.rules.force \in BOOLEAN
  BY <1>2
<1> QED BY <1>1, <1>2, <1>3, <1>4

LEMMA Commits ==
    ASSUME NEW sha \in Sha
    PROVE  sha \in Nat /\ sha >= 1 /\ sha <= MaxSha /\ sha \in 0..MaxSha /\ sha # ByName
<1>1. MaxSha \in Nat
  BY GitHubSettings
<1> QED BY <1>1 DEF Sha, ByName

\* Nothing that is true of GitHub stops being so.
LEMMA TruthStays ==
    ASSUME RemoteTyped, RemoteTyped', UNCHANGED env, Grown
    PROVE  /\ TruePrs \subseteq TruePrs' /\ TrueReports \subseteq TrueReports' /\ TrueOutcomes \subseteq TrueOutcomes'
           /\ TrueLogs \subseteq TrueLogs' /\ TrueAgents \subseteq TrueAgents'
<1>1. /\ remote.head \in Sha /\ remote'.head \in Sha /\ remote.head <= remote'.head /\ Sha \subseteq Nat /\ Sha' = Sha
      /\ \A sha \in 0..MaxSha : sha <= remote.head => sha <= remote'.head
      /\ \A sha \in 0..MaxSha : sha # ByName => sha \in Sha
  BY GitHubSettings DEF RemoteTyped, Grown, Sha, ByName
<1>2. TruePrs \subseteq TruePrs'
  <2> SUFFICES ASSUME NEW pr \in TruePrs, pr # Absent PROVE pr \in TruePrs'
    BY DEF TruePrs, Absent
  <2>1. pr \in PrMetadata /\ remote.state # "none" /\ pr.requested \subseteq remote.requested /\ pr.head <= remote.head
    BY DEF TruePrs
  <2>2. pr.head \in 0..MaxSha
    BY <2>1, GitHubSettings DEF PrMetadata, Sha
  <2>3. remote'.state # "none" /\ pr.requested \subseteq remote'.requested /\ pr.head <= remote'.head
    BY <1>1, <2>1, <2>2 DEF Grown
  <2> QED BY <2>1, <2>3 DEF TruePrs, PrMetadata, Sha
<1>3. \A sha \in 0..MaxSha : /\ Judged(sha)' = Judged(sha)
                             /\ Judged(sha) /\ ChecksGood(sha) => ChecksGood(sha)'
                             /\ Judged(sha) /\ ReviewsGood => ReviewsGood'
                             /\ Judged(sha) /\ sha <= remote.head /\ Behind(sha) => Behind(sha)'
  BY <1>1 DEF Judged, Grown
<1>4. TrueReports \subseteq TrueReports'
  <2> SUFFICES ASSUME NEW r \in TrueReports, r # Absent PROVE r \in TrueReports'
    BY DEF TrueReports, Absent
  <2>1. /\ r \in Reports /\ r.sha \in 0..MaxSha
        /\ r.sha <= remote.head /\ r.protected = env.rules.protected
        /\ Judged(r.sha) =>
            /\ r.checks => ChecksGood(r.sha)
            /\ r.reviews => ReviewsGood
            /\ r.stale => Behind(r.sha)
        /\ CanProceed(r) <=> ProtectionBlockers(r, Unseen) = {}
        /\ Recommended(r) = ProtectionBlockers(r, Unseen)
    BY DEF TrueReports, Reports, Absent
  <2>2. r.sha <= remote'.head
    BY <1>1, <2>1
  <2>3. Judged(r.sha)' => (r.checks => ChecksGood(r.sha)') /\ (r.reviews => ReviewsGood') /\ (r.stale => Behind(r.sha)')
    BY <1>3, <2>1
  <2> QED BY <2>1, <2>2, <2>3 DEF TrueReports, Reports, Sha
<1>5. TrueOutcomes \subseteq TrueOutcomes'
  <2> SUFFICES ASSUME NEW o \in TrueOutcomes PROVE o \in TrueOutcomes'
    OBVIOUS
  <2>1. o \in OutcomeRecords /\ o.head \in 0..MaxSha
    BY DEF TrueOutcomes, OutcomeRecords
  <2>2. ASSUME o.ok, o.strategy = "merge" PROVE o.head # ByName /\ MergeTrue(o)'
    <3>1. o.head # ByName /\ MergeTrue(o)
      BY <2>2 DEF TrueOutcomes
    <3>2. remote'.state = "merged" /\ remote'.merged = o.head
      BY <3>1 DEF MergeTrue, Grown
    <3> QED BY <1>3, <2>1, <3>1, <3>2 DEF MergeTrue
  <2>3. ASSUME o.ok, o.strategy = "auto"
        PROVE  remote'.auto \/ remote'.state \in {"closed", "merged"} \/ "refuse" \in env'.events
    BY <2>3 DEF TrueOutcomes, Grown
  <2>4. ASSUME o.ok, o.strategy = "dispatch" PROVE remote'.dispatched
    BY <2>4 DEF TrueOutcomes, Grown
  <2>5. o.report # Absent => o.report.protected = env'.rules.protected
    BY DEF TrueOutcomes
  <2> QED BY <2>1, <2>2, <2>3, <2>4, <2>5 DEF TrueOutcomes, OutcomeRecords, Reports, Absent
<1>6. TrueLogs \subseteq TrueLogs'
  BY <1>5 DEF TrueLogs, Entries
<1>7. TrueAgents \subseteq TrueAgents'
  <2> SUFFICES ASSUME NEW a \in TrueAgents PROVE a \in TrueAgents'
    OBVIOUS
  <2>1. a \in AgentRecords /\ InPlace(a) /\ HandsTrue(a) /\ FactsTrue(a)
    BY DEF TrueAgents
  <2>2. InPlace(a)'
    BY <2>1 DEF InPlace
  <2>3. /\ a.seen.head \in 0..MaxSha /\ a.facts.sha \in 0..MaxSha /\ a.pr \in PrMetadata \cup {Absent}
        /\ \A pr \in PrMetadata : pr.head \in 0..MaxSha
    BY <2>1, GitHubSettings DEF AgentRecords, SeenRecords, Facts, PrMetadata, Sha
  <2>4. HandsTrue(a)'
    <3>1. a.seen.head <= remote'.head
      BY <1>1, <2>1, <2>3 DEF HandsTrue
    <3>2. a.at = "ask" =>
            remote'.state # "none" /\ a.pr.requested \subseteq remote'.requested \cup a.ask /\ a.pr.head <= remote'.head
      BY <1>1, <2>1, <2>3 DEF HandsTrue, Grown
    <3> QED BY <1>2, <1>4, <1>5, <1>6, <2>1, <3>1, <3>2 DEF HandsTrue
  <2>5. FactsTrue(a)'
    BY <1>1, <1>3, <2>1, <2>3 DEF FactsTrue
  <2>6. a \in AgentRecords'
    BY <2>1 DEF AgentRecords, PrMetadata, SeenRecords, OutcomeRecords, Reports, Logs, Facts, Sha, Entries, Absent
  <2> QED BY <2>2, <2>4, <2>5, <2>6 DEF TrueAgents
<1> QED BY <1>2, <1>4, <1>5, <1>6, <1>7

LEMMA TruthSame ==
    ASSUME UNCHANGED <<remote, env>>
    PROVE  /\ TruePrs' = TruePrs /\ TrueReports' = TrueReports /\ TrueOutcomes' = TrueOutcomes
           /\ TrueLogs' = TrueLogs /\ TrueAgents' = TrueAgents /\ RemoteTyped' = RemoteTyped /\ StatusOrder' = StatusOrder
<1>1. TruePrs' = TruePrs
  BY DEF TruePrs
<1>2. TrueReports' = TrueReports
  BY DEF TrueReports, Judged, ChecksGood, ReviewsGood, Behind, Approves
<1>3. TrueOutcomes' = TrueOutcomes
  BY DEF TrueOutcomes, MergeTrue, Judged, ChecksGood, ReviewsGood, Approves
<1>4. TrueLogs' = TrueLogs
  BY <1>3 DEF TrueLogs
<1>5. TrueAgents' = TrueAgents
  <2> SUFFICES ASSUME NEW a PROVE InPlace(a)' = InPlace(a) /\ HandsTrue(a)' = HandsTrue(a) /\ FactsTrue(a)' = FactsTrue(a)
    BY DEF TrueAgents
  <2>1. InPlace(a)' = InPlace(a)
    BY DEF InPlace
  <2>2. HandsTrue(a)' = HandsTrue(a)
    BY <1>1, <1>2, <1>3, <1>4 DEF HandsTrue
  <2>3. FactsTrue(a)' = FactsTrue(a)
    BY DEF FactsTrue, Judged, ChecksGood, ReviewsGood, Behind, Approves
  <2> QED BY <2>1, <2>2, <2>3
<1>6. RemoteTyped' = RemoteTyped /\ StatusOrder' = StatusOrder
  BY DEF RemoteTyped, StatusOrder
<1> QED BY <1>1, <1>2, <1>3, <1>4, <1>5, <1>6

LEMMA IdleTrue ==
    ASSUME RemoteTyped
    PROVE  Idle \in TrueAgents /\ Idle.at = "idle"
<1>1. /\ Idle.at = "idle" /\ Idle.op = "none" /\ Idle.pr = Absent /\ Idle.seen = Unseen /\ Idle.report = Absent
      /\ Idle.log = Absent /\ Idle.entry = "none"
  BY DEF Idle
<1>2. Idle \in AgentRecords
  BY GitHubSettings DEF Idle, AgentRecords, Stages, Unseen, SeenRecords, NoFacts, Facts, ByName
<1>3. Idle.seen.head <= remote.head
  BY <1>1, GitHubSettings DEF Unseen, RemoteTyped, Sha
<1> QED BY <1>1, <1>2, <1>3
        DEF TrueAgents, InPlace, HandsTrue, FactsTrue, TruePrs, TrueReports, Reading, Writing, Deciding, Asking, Concluding
LEMMA PrStart == Init => PrInv
<1> SUFFICES ASSUME Init PROVE PrInv
  OBVIOUS
<1>1. /\ env \in Environment /\ remote = [NoPullRequest EXCEPT !.state = env.start]
      /\ prFile = IF env.start = "none" THEN Absent ELSE Metadata(1, {})
      /\ linked = (env.start # "none")
      /\ history = IF env.start = "none" THEN Absent
                   ELSE [EmptyLog EXCEPT !.actions = <<[action |-> "pr_created", users |-> {}]>>]
      /\ prTmp = Absent /\ historyTmp = Absent /\ report = Absent
      /\ agent = [p \in Process |-> Idle]
  BY DEF Init, PullRequestsInit
<1>2. env.start \in {"none", "open"} /\ 1 \in Sha /\ MaxSha \in Nat
  BY <1>1, GitHubSettings
<1>3. RemoteTyped
  <2> DEFINE none == [s \in Sha |-> <<>>]
  <2>1. none \in [Sha -> Seq(Statuses)]
    OBVIOUS
  <2>2. remote = [state |-> env.start, head |-> 1, draft |-> FALSE, mergeable |-> TRUE, auto |-> FALSE,
                  requested |-> {}, statuses |-> none, run |-> [s \in Sha |-> "none"],
                  reviews |-> <<>>, base |-> 0, contains |-> [s \in Sha |-> 0], merged |-> 0, dispatched |-> FALSE]
    BY <1>1 DEF NoPullRequest
  <2> HIDE DEF none
  <2>3. [s \in Sha |-> "none"] \in [Sha -> {"none", "success", "failure", "pending"}] /\ [s \in Sha |-> 0] \in [Sha -> 0..1]
    OBVIOUS
  <2>4. env \in Environment /\ env.start \in {"none", "open", "closed", "merged"} /\ <<>> \in Seq([user : Reviewer, state : {"APPROVED", "COMMENTED", "CHANGES_REQUESTED"}])
        /\ 0 \in 0..1 /\ 0 \in 0..MaxSha /\ {} \in SUBSET Reviewer
    BY <1>1, <1>2
  <2> QED BY <1>2, <2>1, <2>2, <2>3, <2>4 DEF RemoteTyped
<1>4. remote.state = env.start /\ remote.requested = {} /\ remote.head = 1 /\ remote.statuses = [s \in Sha |-> <<>>]
  BY <1>1 DEF NoPullRequest
<1>5. StatusOrder
  BY <1>4 DEF StatusOrder, Succeeded
<1>6. prFile \in TruePrs /\ Absent \in TruePrs
  <2>1. Metadata(1, {}) \in PrMetadata /\ Metadata(1, {}).requested = {} /\ Metadata(1, {}).head = 1
    BY <1>2 DEF Metadata, PrMetadata
  <2> QED BY <1>1, <1>2, <1>4, <2>1 DEF TruePrs
<1>7. history \in TrueLogs \cup {Absent}
  <2> DEFINE first == <<[action |-> "pr_created", users |-> {}]>>
  <2>1. first \in Seq([action : Entries, users : SUBSET Reviewer])
    BY DEF Entries
  <2>2. history = IF env.start = "none" THEN Absent ELSE [EmptyLog EXCEPT !.actions = first]
    BY <1>1
  <2> HIDE DEF first
  <2>3. EmptyLog \in TrueLogs
    BY DEF EmptyLog, TrueLogs
  <2> QED BY <2>1, <2>2, <2>3 DEF TrueLogs
<1>8. Absent \in TrueReports
  BY DEF TrueReports
<1> QED BY <1>1, <1>3, <1>5, <1>6, <1>7, <1>8, IdleTrue DEF PrInv

-----------------------------------------------------------------------------
LEMMA EntryOf ==
    ASSUME PrInv, NEW p \in Process
    PROVE  /\ agent[p] \in TrueAgents /\ agent[p] \in AgentRecords
           /\ InPlace(agent[p]) /\ HandsTrue(agent[p]) /\ FactsTrue(agent[p])
BY DEF PrInv, TrueAgents

\* A process goes on, and GitHub stays as it is.
LEMMA AgentStep ==
    ASSUME PrInv, UNCHANGED <<env, remote>>, env.part = "pullRequest",
           NEW p \in Process, NEW a \in TrueAgents, agent' = [agent EXCEPT ![p] = a],
           prFile' \in TruePrs, prTmp' \in TruePrs, linked' \in BOOLEAN,
           history' \in TrueLogs \cup {Absent}, historyTmp' \in TrueLogs \cup {Absent},
           report' \in TrueReports \cup {Torn}
    PROVE  PrInv'
<1>1. agent' \in [Process -> TrueAgents]
  BY DEF PrInv
<1>2. /\ TruePrs' = TruePrs /\ TrueReports' = TrueReports /\ TrueLogs' = TrueLogs
      /\ TrueAgents' = TrueAgents /\ RemoteTyped' = RemoteTyped /\ StatusOrder' = StatusOrder
  BY TruthSame
<1> QED BY <1>1, <1>2 DEF PrInv

\* A process goes on, and the files stay as they are.
LEMMA CallStep ==
    ASSUME PrInv, UNCHANGED <<env, remote, fileVars>>, env.part = "pullRequest",
           NEW p \in Process, NEW a \in TrueAgents, agent' = [agent EXCEPT ![p] = a]
    PROVE  PrInv'
<1>1. /\ prFile \in TruePrs /\ prTmp \in TruePrs /\ linked \in BOOLEAN /\ history \in TrueLogs \cup {Absent}
      /\ historyTmp \in TrueLogs \cup {Absent} /\ report \in TrueReports \cup {Torn}
  BY DEF PrInv
<1> QED BY <1>1, AgentStep DEF fileVars

\* GitHub goes on, with or without a process.
LEMMA RemoteStep ==
    ASSUME PrInv, UNCHANGED <<env, fileVars>>, env.part = "pullRequest", RemoteTyped', StatusOrder', Grown,
           agent' \in [Process -> TrueAgents']
    PROVE  PrInv'
<1>1. TruePrs \subseteq TruePrs' /\ TrueReports \subseteq TrueReports' /\ TrueLogs \subseteq TrueLogs'
  BY TruthStays DEF PrInv
<1> QED BY <1>1 DEF PrInv, fileVars

LEMMA RemoteAgent ==
    ASSUME PrInv, UNCHANGED <<env, fileVars>>, env.part = "pullRequest", RemoteTyped', StatusOrder', Grown,
           NEW p \in Process, NEW a, a \in TrueAgents', agent' = [agent EXCEPT ![p] = a]
    PROVE  PrInv'
<1>1. TrueAgents \subseteq TrueAgents'
  BY TruthStays DEF PrInv
<1>2. agent' \in [Process -> TrueAgents']
  BY <1>1 DEF PrInv
<1> QED BY <1>2, RemoteStep

LEMMA QuitStep ==
    ASSUME PrInv, UNCHANGED <<env, remote, fileVars>>, env.part = "pullRequest", NEW p \in Process, Quit(p)
    PROVE  PrInv'
<1>1. Idle \in TrueAgents
  BY IdleTrue DEF PrInv
<1> QED BY <1>1, CallStep DEF Quit

-----------------------------------------------------------------------------
\* A command begins.
LEMMA LoadedFields ==
    ASSUME PrInv, NEW op \in {"create", "reviewers", "status", "refresh", "deploy"}
    PROVE  /\ Loaded(op) \in AgentRecords /\ Loaded(op).op = op /\ Loaded(op).pr = prFile /\ Loaded(op).seen = Unseen
           /\ Loaded(op).ask = {} /\ Loaded(op).entry = "none" /\ Loaded(op).log = Absent /\ Loaded(op).facts = NoFacts
           /\ Loaded(op).report = Absent /\ Loaded(op).force = FALSE
<1>1. /\ Idle.at = "idle" /\ Idle.op = "none" /\ Idle.pr = Absent /\ Idle.seen = Unseen /\ Idle.report = Absent
      /\ Idle.log = Absent /\ Idle.entry = "none" /\ Idle.ask = {} /\ Idle.facts = NoFacts /\ Idle.force = FALSE
  BY DEF Idle
<1>2. Idle \in AgentRecords
  BY IdleTrue DEF PrInv, TrueAgents
<1>3. prFile \in PrMetadata \cup {Absent}
  BY DEF PrInv, TruePrs
<1> QED BY <1>1, <1>2, <1>3 DEF Loaded, AgentRecords

LEMMA BeginsStep ==
    ASSUME PrInv, UNCHANGED env, env.part = "pullRequest", NEW p \in Process, NEW op, Starts(p, op),
           NEW a \in AgentRecords, agent' = [agent EXCEPT ![p] = a],
           a.op = op, a.pr = prFile, a.seen = Unseen, a.entry = "none", a.log = Absent, a.facts = NoFacts,
           a.report \in TrueReports,
           \/ op = "create" /\ a.at = "create"
           \/ op = "reviewers" /\ a.at = "ask" /\ prFile.kind = "pr"
           \/ op = "status" /\ a.at = "pr" /\ prFile.kind = "pr"
           \/ op = "refresh" /\ a.at = "rules"
           \/ op = "deploy" /\ a.at = "assess" /\ prFile.kind = "pr"
           \/ op = "deploy" /\ a.at = "error"
    PROVE  PrInv'
<1>1. prFile \in TruePrs /\ RemoteTyped /\ op \in env.ops
  BY DEF PrInv, Starts
<1>2. Absent.kind = "absent" /\ Unseen.head = 1 /\ NoFacts.sha = 0 /\ ByName = 0
  BY DEF Absent, Unseen, NoFacts, ByName
<1>3. InPlace(a)
  BY <1>1 DEF InPlace, Reading, Asking, Deciding
<1>4. remote.head \in Sha
  BY <1>1 DEF RemoteTyped
<1>5. Unseen.head <= remote.head
  BY <1>2, <1>4, Commits
<1>6. NoFacts.sha <= remote.head /\ NoFacts.sha = ByName
  <2>1. remote.head \in Nat
    BY <1>4, Commits
  <2>2. NoFacts.sha = ByName /\ ByName = 0
    BY DEF NoFacts, ByName
  <2>3. 0 <= remote.head
    BY <2>1
  <2> QED BY <2>2, <2>3
<1>7. prFile.kind = "pr" => remote.state # "none" /\ prFile.requested \subseteq remote.requested /\ prFile.head <= remote.head
  BY <1>1, <1>2 DEF TruePrs
<1>8. HandsTrue(a)
  BY <1>1, <1>2, <1>5, <1>7 DEF HandsTrue, Reading, Asking, Deciding, Writing, Concluding
<1>9. FactsTrue(a)
  BY <1>6 DEF NoFacts, FactsTrue, Asking, Judged
<1>10. a \in TrueAgents
  BY <1>3, <1>8, <1>9 DEF TrueAgents
<1> QED BY <1>10, CallStep DEF Starts

\* Process p has begun operation op, with b in its hands.
BegunAs(p, op, b) ==
    /\ Starts(p, op) /\ agent' = [agent EXCEPT ![p] = b]
    /\ b.op = op /\ b.pr = prFile /\ b.seen = Unseen /\ b.entry = "none" /\ b.log = Absent /\ b.facts = NoFacts
    /\ b.report \in TrueReports /\ (op # "reviewers" => b.ask = {})
    /\ \/ op = "create" /\ b.at = "create" /\ prFile.kind # "pr"
       \/ op = "reviewers" /\ b.at = "ask" /\ prFile.kind = "pr"
       \/ op = "status" /\ b.at = "pr" /\ prFile.kind = "pr"
       \/ op = "refresh" /\ b.at = "rules"
       \/ op = "deploy" /\ b.at = "assess" /\ prFile.kind = "pr"
       \/ op = "deploy" /\ b.at = "error"

LEMMA Begun ==
    ASSUME PrInv, NEW p \in Process,
           \/ BeginCreate(p)
           \/ \E ask \in SUBSET Reviewer \ {{}} : BeginReviewers(p, ask)
           \/ BeginStatus(p) \/ BeginRefresh(p)
           \/ \E force \in BOOLEAN : BeginDeploy(p, force)
    PROVE  \E op : \E b \in AgentRecords : BegunAs(p, op, b)
<1>1. Absent \in TrueReports /\ LoadedReport \in TrueReports
  <2>1. report \in TrueReports \cup {Torn} /\ Torn.kind # "report"
    BY DEF PrInv, Torn
  <2> QED BY <2>1 DEF TrueReports, LoadedReport
<1> DEFINE Goal == \E op : \E b \in AgentRecords : BegunAs(p, op, b)
<1>2. ASSUME BeginCreate(p) PROVE Goal
  <2>1. PICK a : a = [Loaded("create") EXCEPT !.at = "create"]
    OBVIOUS
  <2>2. /\ a \in AgentRecords /\ a.at = "create" /\ a.op = "create" /\ a.pr = prFile /\ a.seen = Unseen /\ a.entry = "none"
        /\ a.log = Absent /\ a.facts = NoFacts /\ a.report = Absent /\ a.ask = {}
    BY <2>1, LoadedFields DEF AgentRecords, Stages
  <2>3. agent' = [agent EXCEPT ![p] = a] /\ Starts(p, "create") /\ prFile.kind # "pr"
    BY <1>2, <2>1 DEF BeginCreate
  <2>4. BegunAs(p, "create", a)
    BY <1>1, <2>2, <2>3 DEF BegunAs
  <2> QED BY <2>2, <2>4
<1>3. ASSUME NEW ask \in SUBSET Reviewer \ {{}}, BeginReviewers(p, ask) PROVE Goal
  <2>1. PICK a : a = [Loaded("reviewers") EXCEPT !.at = "ask", !.ask = ask]
    OBVIOUS
  <2>2. /\ a \in AgentRecords /\ a.at = "ask" /\ a.op = "reviewers" /\ a.pr = prFile /\ a.seen = Unseen /\ a.entry = "none"
        /\ a.log = Absent /\ a.facts = NoFacts /\ a.report = Absent
    BY <2>1, LoadedFields DEF AgentRecords, Stages
  <2>3. agent' = [agent EXCEPT ![p] = a] /\ Starts(p, "reviewers") /\ prFile.kind = "pr"
    BY <1>3, <2>1 DEF BeginReviewers
  <2>4. BegunAs(p, "reviewers", a)
    BY <1>1, <2>2, <2>3 DEF BegunAs
  <2> QED BY <2>2, <2>4
<1>4. ASSUME BeginStatus(p) PROVE Goal
  <2>1. PICK a : a = [Loaded("status") EXCEPT !.at = "pr"]
    OBVIOUS
  <2>2. /\ a \in AgentRecords /\ a.at = "pr" /\ a.op = "status" /\ a.pr = prFile /\ a.seen = Unseen /\ a.entry = "none"
        /\ a.log = Absent /\ a.facts = NoFacts /\ a.report = Absent /\ a.ask = {}
    BY <2>1, LoadedFields DEF AgentRecords, Stages, Reading
  <2>3. agent' = [agent EXCEPT ![p] = a] /\ Starts(p, "status") /\ prFile.kind = "pr"
    BY <1>4, <2>1 DEF BeginStatus
  <2>4. BegunAs(p, "status", a)
    BY <1>1, <2>2, <2>3 DEF BegunAs
  <2> QED BY <2>2, <2>4
<1>5. ASSUME BeginRefresh(p) PROVE Goal
  <2>1. PICK a : a = [Loaded("refresh") EXCEPT !.at = "rules"]
    OBVIOUS
  <2>2. /\ a \in AgentRecords /\ a.at = "rules" /\ a.op = "refresh" /\ a.pr = prFile /\ a.seen = Unseen /\ a.entry = "none"
        /\ a.log = Absent /\ a.facts = NoFacts /\ a.report = Absent /\ a.ask = {}
    BY <2>1, LoadedFields DEF AgentRecords, Stages, Asking
  <2>3. agent' = [agent EXCEPT ![p] = a] /\ Starts(p, "refresh")
    BY <1>5, <2>1 DEF BeginRefresh
  <2>4. BegunAs(p, "refresh", a)
    BY <1>1, <2>2, <2>3 DEF BegunAs
  <2> QED BY <2>2, <2>4
<1>6. ASSUME NEW force \in BOOLEAN, BeginDeploy(p, force) PROVE Goal
  <2>1. PICK at : at = IF prFile.kind = "pr" THEN "assess" ELSE "error"
    OBVIOUS
  <2>2. PICK l \in AgentRecords : /\ l = Loaded("deploy") /\ l.op = "deploy" /\ l.pr = prFile /\ l.seen = Unseen
                                  /\ l.entry = "none" /\ l.log = Absent /\ l.facts = NoFacts /\ l.ask = {}
    BY LoadedFields
  <2>3. LoadedReport \in Reports \cup {Absent} /\ at \in Stages
    BY <1>1, <2>1 DEF TrueReports, Stages, Deciding
  <2>4. PICK b : b = [l EXCEPT !.at = at]
    OBVIOUS
  <2>5. PICK c : c = [b EXCEPT !.report = LoadedReport]
    OBVIOUS
  <2>6. PICK a : a = [c EXCEPT !.force = force]
    OBVIOUS
  <2>10. /\ b \in AgentRecords /\ b.at = at /\ b.op = "deploy" /\ b.pr = prFile /\ b.seen = Unseen
         /\ b.entry = "none" /\ b.log = Absent /\ b.facts = NoFacts /\ b.ask = {}
    BY <2>2, <2>3, <2>4 DEF AgentRecords
  <2>11. /\ c \in AgentRecords /\ c.at = at /\ c.op = "deploy" /\ c.pr = prFile /\ c.seen = Unseen
         /\ c.entry = "none" /\ c.log = Absent /\ c.facts = NoFacts /\ c.ask = {} /\ c.report = LoadedReport
    BY <2>3, <2>5, <2>10 DEF AgentRecords
  <2>12. /\ a \in AgentRecords /\ a.at = at /\ a.op = "deploy" /\ a.pr = prFile /\ a.seen = Unseen
         /\ a.entry = "none" /\ a.log = Absent /\ a.facts = NoFacts /\ a.ask = {} /\ a.report = LoadedReport
    BY <2>6, <2>11 DEF AgentRecords
  <2>7. a = [l EXCEPT !.at = at, !.report = LoadedReport, !.force = force]
    BY <2>4, <2>5, <2>6
  <2>8. agent' = [agent EXCEPT ![p] = a] /\ Starts(p, "deploy")
    BY <1>6, <2>1, <2>2, <2>7 DEF BeginDeploy
  <2>9. BegunAs(p, "deploy", a)
    BY <1>1, <2>1, <2>8, <2>12 DEF BegunAs
  <2> QED BY <2>9, <2>12
<1> QED BY <1>2, <1>3, <1>4, <1>5, <1>6

LEMMA BeginSteps ==
    ASSUME PrInv, UNCHANGED env, env.part = "pullRequest", NEW p \in Process,
           \/ BeginCreate(p)
           \/ \E ask \in SUBSET Reviewer \ {{}} : BeginReviewers(p, ask)
           \/ BeginStatus(p) \/ BeginRefresh(p)
           \/ \E force \in BOOLEAN : BeginDeploy(p, force)
    PROVE  PrInv'
<1>1. PICK op : \E b \in AgentRecords : BegunAs(p, op, b)
  BY Begun
<1>2. PICK b \in AgentRecords : BegunAs(p, op, b)
  BY <1>1
<1> QED BY <1>2, BeginsStep DEF BegunAs
-----------------------------------------------------------------------------
(* The refresh of the report. *)

\* Where results only get better, checks that pass are good, and reviews that suffice do.
LEMMA ChecksSound ==
    ASSUME PrInv, "regress" \notin env.events, NEW sha \in Sha,
           ChecksPassing(env.rules, getCommitStatuses(sha), getCheckRuns(sha))
    PROVE  ChecksGood(sha)
<1>1. Tip(sha) = sha
  BY Commits DEF Tip
<1>2. Succeeded(remote.statuses[sha]) =>
        /\ remote.statuses[sha][Len(remote.statuses[sha])] = "success"
        /\ remote.statuses[sha] # <<>>
  BY DEF PrInv, StatusOrder, Succeeded
<1> QED BY <1>1, <1>2 DEF ChecksPassing, getCommitStatuses, getCheckRuns, ChecksGood

LEMMA ApprovalsFinite ==
    IsFiniteSet({u \in Reviewer : Approves(u)}) /\ Cardinality({u \in Reviewer : Approves(u)}) \in Nat
<1>1. {u \in Reviewer : Approves(u)} \subseteq Reviewer
  OBVIOUS
<1>2. IsFiniteSet({u \in Reviewer : Approves(u)})
  BY <1>1, GitHubSettings, FS_Subset
<1> QED BY <1>2, FS_CardinalityType

LEMMA ReviewsSound ==
    ASSUME PrInv, ReviewsSatisfied(env.rules, getPullRequestReviews)
    PROVE  ReviewsGood
<1> DEFINE latest(u) == \E i \in DOMAIN remote.reviews :
                            /\ remote.reviews[i].user = u /\ remote.reviews[i].state = "APPROVED"
                            /\ \A j \in DOMAIN remote.reviews : j > i => remote.reviews[j].user # u
           approving == {u \in Reviewer : latest(u)}
           approved == {u \in Reviewer : Approves(u)}
<1>1. \A u \in Reviewer : latest(u) => Approves(u)
  BY DEF Approves
<1>2. approving \subseteq approved
  BY <1>1
<1>3. Cardinality(approving) >= env.rules.reviews
  BY DEF ReviewsSatisfied, getPullRequestReviews
<1>4. IsFiniteSet(approved) /\ Cardinality(approved) \in Nat
  BY ApprovalsFinite
<1> HIDE DEF approving, approved
<1>5. Cardinality(approving) <= Cardinality(approved) /\ IsFiniteSet(approving)
  BY <1>2, <1>4, FS_Subset
<1>6. Cardinality(approving) \in Nat
  BY <1>5, FS_CardinalityType
<1>7. env.rules.reviews \in Nat
  BY GitHubSettings DEF PrInv, RemoteTyped
<1>8. Cardinality(approved) >= env.rules.reviews
  BY <1>3, <1>4, <1>5, <1>6, <1>7
<1> QED BY <1>8 DEF ReviewsGood, approved

\* A refresh goes on with what it has found out.
LEMMA RefreshGoes ==
    ASSUME PrInv, UNCHANGED <<env, remote, fileVars>>, env.part = "pullRequest", NEW p \in Process,
           agent[p].at \in Asking, NEW next \in Asking, NEW f \in Facts,
           FactsTrue([agent[p] EXCEPT !.at = next, !.facts = f]),
           agent' = [agent EXCEPT ![p] = [agent[p] EXCEPT !.at = next, !.facts = f]]
    PROVE  PrInv'
<1>1. PICK a \in AgentRecords : a = agent[p] /\ InPlace(a) /\ HandsTrue(a)
  BY EntryOf
<1>2. PICK b : b = [a EXCEPT !.at = next, !.facts = f]
  OBVIOUS
<1>3. /\ b \in AgentRecords /\ b.at = next /\ b.op = a.op /\ b.pr = a.pr /\ b.seen = a.seen /\ b.report = a.report
      /\ b.log = a.log /\ b.entry = a.entry
  BY <1>2 DEF AgentRecords, Stages
<1>4. a.at \in Asking
  BY <1>1
<1>5. InPlace(b)
  BY <1>1, <1>3, <1>4 DEF InPlace, Asking, Reading, Writing, Deciding, Concluding
<1>6. HandsTrue(b)
  BY <1>1, <1>3, <1>4 DEF HandsTrue, Asking, Reading, Writing, Deciding, Concluding
<1>7. FactsTrue(b)
  BY <1>1, <1>2
<1>8. agent' = [agent EXCEPT ![p] = b]
  BY <1>1, <1>2
<1> QED BY <1>3, <1>5, <1>6, <1>7, <1>8, CallStep DEF TrueAgents

\* What FactsTrue says of a refresh that goes on to a place.
LEMMA FactsAt ==
    ASSUME NEW a \in AgentRecords, NEW next \in Asking, NEW f \in Facts,
           f.sha <= remote.head,
           next \in {"rules", "refs"} => f = NoFacts,
           next \in {"checks", "compare", "reviews"} => env.rules.protected,
           next \in {"checks", "compare"} => ~f.behind,
           next = "report" /\ ~env.rules.protected => f.checks /\ ~f.behind /\ f.reviews,
           Judged(f.sha) =>
                /\ next \in {"compare", "reviews", "report"} /\ f.checks => ChecksGood(f.sha)
                /\ next = "report" /\ f.reviews => ReviewsGood
                /\ f.behind => Behind(f.sha)
    PROVE  FactsTrue([a EXCEPT !.at = next, !.facts = f])
<1>1. [a EXCEPT !.at = next, !.facts = f].at = next /\ [a EXCEPT !.at = next, !.facts = f].facts = f
  BY DEF AgentRecords
<1> QED BY <1>1 DEF FactsTrue

LEMMA RequestStep ==
    ASSUME PrInv, UNCHANGED env, env.part = "pullRequest", NEW p \in Process,
           NEW at \in Asking, NEW next \in Asking, NEW f \in Facts,
           Request(p, at, next, f), FactsTrue([agent[p] EXCEPT !.at = next, !.facts = f])
    PROVE  PrInv'
<1>1. agent[p].at = at /\ UNCHANGED <<remote, fileVars>>
  BY DEF Request, Calling
<1>2. Quit(p) \/ agent' = [agent EXCEPT ![p].at = next, ![p].facts = f]
  BY DEF Request
<1>3. CASE Quit(p)
  BY <1>1, <1>3, QuitStep
<1>4. CASE agent' = [agent EXCEPT ![p].at = next, ![p].facts = f]
  <2>1. agent \in [Process -> AgentRecords]
    BY DEF PrInv, TrueAgents
  <2>2. agent' = [agent EXCEPT ![p] = [agent[p] EXCEPT !.at = next, !.facts = f]]
    BY <1>4, <2>1 DEF AgentRecords
  <2> QED BY <1>1, <2>2, RefreshGoes
<1> QED BY <1>2, <1>3, <1>4

LEMMA AfterChecksIs ==
    ASSUME PrInv
    PROVE  /\ AfterChecks \in {"reviews", "report"}
           /\ AfterChecks = "report" => ReviewsGood
<1>1. env.rules.reviews \in Nat
  BY GitHubSettings DEF PrInv, RemoteTyped
<1>2. Cardinality({u \in Reviewer : Approves(u)}) \in Nat
  BY ApprovalsFinite
<1>3. env.rules.reviews = 0 => ReviewsGood
  BY <1>2 DEF ReviewsGood
<1> QED BY <1>1, <1>3 DEF AfterChecks

LEMMA RefreshSteps ==
    ASSUME PrInv, UNCHANGED env, env.part = "pullRequest", NEW p \in Process,
           ReadRules(p) \/ ReadRefs(p) \/ ReadChecks(p) \/ Compare(p) \/ ReadReviews(p)
    PROVE  PrInv'
<1>1. PICK a \in AgentRecords : a = agent[p] /\ FactsTrue(a)
  BY EntryOf
<1>2. /\ a.facts \in Facts /\ a.facts.sha \in 0..MaxSha
      /\ a.facts.checks \in BOOLEAN /\ a.facts.behind \in BOOLEAN /\ a.facts.reviews \in BOOLEAN
  BY DEF AgentRecords, Facts
<1>3. /\ remote.head \in Sha /\ remote.head \in 0..MaxSha /\ \A sha \in 0..MaxSha : sha # ByName => sha \in Sha
  BY Commits, GitHubSettings DEF PrInv, RemoteTyped, Sha, ByName
<1>4. NoFacts \in Facts /\ NoFacts.sha = ByName /\ NoFacts.behind = FALSE /\ NoFacts.checks = TRUE /\ NoFacts.reviews = TRUE
  BY GitHubSettings DEF NoFacts, Facts, ByName
<1>5. env.rules.protected \in BOOLEAN /\ env.rules.checks \in BOOLEAN /\ env.rules.reviews \in Nat
  BY GitHubSettings DEF PrInv, RemoteTyped
<1>6. {"rules", "refs", "checks", "compare", "reviews", "report"} = Asking
  BY DEF Asking
<1>7. CASE ReadRules(p)
  <2>1. a.at = "rules" /\ Request(p, "rules", "refs", a.facts)
    BY <1>1, <1>7 DEF ReadRules, Request
  <2>2. a.facts = NoFacts /\ a.facts.sha <= remote.head
    BY <1>1, <2>1 DEF FactsTrue, Asking
  <2>3. FactsTrue([a EXCEPT !.at = "refs", !.facts = a.facts])
    BY <1>2, <1>4, <1>6, <2>2, FactsAt DEF Judged
  <2> QED BY <1>1, <1>2, <1>6, <2>1, <2>3, RequestStep
<1>8. CASE ReadRefs(p)
  <2>1. a.at = "refs" /\ a.facts = NoFacts /\ UNCHANGED <<remote, fileVars>>
    BY <1>1, <1>8 DEF ReadRefs, FactsTrue, Asking, Calling
  <2>2. PICK sha \in {remote.head, ByName} : 
            agent' = [agent EXCEPT ![p].facts.sha = sha, ![p].at = IF env.rules.protected THEN "checks" ELSE "report"]
    BY <1>8 DEF ReadRefs, getPullRequest, getBranchProtection
  <2> DEFINE next == IF env.rules.protected THEN "checks" ELSE "report"
             f == [a.facts EXCEPT !.sha = sha]
  <2>3. sha \in 0..MaxSha /\ sha <= remote.head
    <3>1. 0 <= remote.head /\ remote.head <= remote.head /\ 0 \in 0..MaxSha
      BY <1>3, Commits, GitHubSettings
    <3> QED BY <1>3, <3>1 DEF ByName
  <2>4. f \in Facts /\ f.sha = sha /\ f.checks = TRUE /\ f.behind = FALSE /\ f.reviews = TRUE
    BY <1>2, <1>4, <2>1, <2>3 DEF Facts
  <2>5. next \in {"checks", "report"} /\ (next = "checks" <=> env.rules.protected)
    BY <1>5
  <2>6. agent' = [agent EXCEPT ![p] = [agent[p] EXCEPT !.at = next, !.facts = f]]
    <3>1. agent \in [Process -> AgentRecords]
      BY DEF PrInv, TrueAgents
    <3> QED BY <1>1, <2>2, <3>1 DEF AgentRecords, Facts
  <2> HIDE DEF next, f
  <2>7. FactsTrue([a EXCEPT !.at = next, !.facts = f])
    BY <1>6, <2>3, <2>4, <2>5, FactsAt DEF Judged
  <2> QED BY <1>1, <1>6, <2>1, <2>4, <2>5, <2>6, <2>7, RefreshGoes
<1>9. CASE ReadChecks(p)
  <2> DEFINE sha == a.facts.sha
             good == ChecksPassing(env.rules, getCommitStatuses(sha), getCheckRuns(sha))
             next == IF env.rules.checks /\ env.rules.strict THEN "compare" ELSE AfterChecks
             f == [a.facts EXCEPT !.checks = good]
  <2>1. a.at = "checks" /\ Request(p, "checks", next, f)
    BY <1>1, <1>9 DEF ReadChecks, Request
  <2>2. env.rules.protected /\ ~a.facts.behind /\ sha <= remote.head
    BY <1>1, <2>1 DEF FactsTrue, Asking
  <2>3. good \in BOOLEAN /\ (Judged(sha) /\ good => ChecksGood(sha))
    <3>1. good \in BOOLEAN
      BY <1>5 DEF ChecksPassing
    <3>2. ASSUME Judged(sha), good PROVE ChecksGood(sha)
      <4>1. sha \in Sha /\ "regress" \notin env.events
        BY <1>2, <1>3, <3>2 DEF Judged
      <4> QED BY <3>2, <4>1, ChecksSound
    <3> QED BY <3>1, <3>2
  <2> HIDE DEF good
  <2>4. f \in Facts /\ f.sha = sha /\ f.checks = good /\ f.behind = a.facts.behind /\ f.reviews = a.facts.reviews
    BY <1>2, <2>3 DEF Facts
  <2>5. next \in {"compare", "reviews", "report"} /\ (next = "report" => ReviewsGood)
    BY AfterChecksIs
  <2> HIDE DEF f, next
  <2>6. FactsTrue([a EXCEPT !.at = next, !.facts = f])
    BY <1>6, <2>2, <2>3, <2>4, <2>5, FactsAt
  <2> QED BY <1>1, <1>6, <2>1, <2>4, <2>5, <2>6, RequestStep
<1>10. CASE Compare(p)
  <2> DEFINE sha == a.facts.sha
             behind == compareCommits(sha)
             next == AfterChecks
             f == [a.facts EXCEPT !.behind = behind]
  <2>1. a.at = "compare" /\ Request(p, "compare", next, f)
    BY <1>1, <1>10 DEF Compare, Request
  <2>2. /\ env.rules.protected /\ sha <= remote.head
        /\ Judged(sha) /\ a.facts.checks => ChecksGood(sha)
    BY <1>1, <2>1 DEF FactsTrue, Asking
  <2>3. behind \in BOOLEAN /\ (behind => Behind(sha))
    BY DEF compareCommits, Behind
  <2> HIDE DEF behind
  <2>4. f \in Facts /\ f.sha = sha /\ f.behind = behind /\ f.checks = a.facts.checks /\ f.reviews = a.facts.reviews
    BY <1>2, <2>3 DEF Facts
  <2>5. next \in {"reviews", "report"} /\ (next = "report" => ReviewsGood)
    BY AfterChecksIs
  <2> HIDE DEF f, next
  <2>6. FactsTrue([a EXCEPT !.at = next, !.facts = f])
    BY <1>6, <2>2, <2>3, <2>4, <2>5, FactsAt
  <2> QED BY <1>1, <1>6, <2>1, <2>4, <2>5, <2>6, RequestStep
<1>11. CASE ReadReviews(p)
  <2> DEFINE sha == a.facts.sha
             good == ReviewsSatisfied(env.rules, getPullRequestReviews)
             f == [a.facts EXCEPT !.reviews = good]
  <2>1. a.at = "reviews" /\ Request(p, "reviews", "report", f)
    BY <1>1, <1>11 DEF ReadReviews, Request
  <2>2. /\ env.rules.protected /\ sha <= remote.head
        /\ Judged(sha) => (a.facts.checks => ChecksGood(sha)) /\ (a.facts.behind => Behind(sha))
    BY <1>1, <2>1 DEF FactsTrue, Asking
  <2>3. good \in BOOLEAN /\ (good => ReviewsGood)
    BY ReviewsSound DEF ReviewsSatisfied
  <2> HIDE DEF good
  <2>4. f \in Facts /\ f.sha = sha /\ f.reviews = good /\ f.checks = a.facts.checks /\ f.behind = a.facts.behind
    BY <1>2, <2>3 DEF Facts
  <2> HIDE DEF f
  <2>5. FactsTrue([a EXCEPT !.at = "report", !.facts = f])
    BY <1>6, <2>2, <2>3, <2>4, FactsAt
  <2> QED BY <1>1, <1>6, <2>1, <2>4, <2>5, RequestStep
<1> QED BY <1>7, <1>8, <1>9, <1>10, <1>11

LEMMA WriteReportStep ==
    ASSUME PrInv, UNCHANGED env, env.part = "pullRequest", NEW p \in Process, WriteReport(p)
    PROVE  PrInv'
<1>1. PICK a \in AgentRecords : a = agent[p] /\ FactsTrue(a)
  BY EntryOf
<1>2. PICK f \in Facts : f = a.facts
  BY DEF AgentRecords
<1>3. f.sha \in 0..MaxSha /\ f.checks \in BOOLEAN /\ f.behind \in BOOLEAN /\ f.reviews \in BOOLEAN
  BY DEF Facts
<1>4. /\ a.at = "report" /\ report' = Report(env.rules, f) /\ agent' = [agent EXCEPT ![p] = Idle]
      /\ UNCHANGED <<remote, prFile, prTmp, linked, history, historyTmp>>
  BY <1>1, <1>2 DEF WriteReport, Quit, getBranchProtection
<1>5. /\ f.sha <= remote.head
      /\ ~env.rules.protected => f.checks /\ ~f.behind /\ f.reviews
      /\ Judged(f.sha) => (f.checks => ChecksGood(f.sha)) /\ (f.reviews => ReviewsGood) /\ (f.behind => Behind(f.sha))
  BY <1>1, <1>2, <1>4 DEF FactsTrue, Asking
<1>6. env.rules.protected \in BOOLEAN /\ env.rules.force \in BOOLEAN
  BY GitHubSettings DEF PrInv, RemoteTyped
<1>7. PICK r : r = Report(env.rules, f)
  OBVIOUS
<1>8. /\ r \in Reports /\ r.kind = "report" /\ r.sha = f.sha /\ r.protected = env.rules.protected /\ r.checks = f.checks
      /\ r.stale = f.behind /\ r.reviews = f.reviews
      /\ r.compliant = (env.rules.protected => f.checks /\ ~f.behind /\ f.reviews)
  BY <1>3, <1>6, <1>7 DEF Report, Reports
<1>9. r # Absent
  BY <1>8 DEF Absent
<1>10. /\ CanProceed(r) <=> ProtectionBlockers(r, Unseen) = {}
       /\ Recommended(r) = ProtectionBlockers(r, Unseen)
  <2>1. ProtectionBlockers(r, Unseen) = {b \in {"checks", "reviews", "update"} :
                                            \/ b = "checks" /\ ~r.checks
                                            \/ b = "reviews" /\ ~r.reviews
                                            \/ b = "update" /\ r.stale}
    BY <1>9 DEF ProtectionBlockers
  <2>2. ProtectionBlockers(r, Unseen) = {} <=> r.checks /\ r.reviews /\ ~r.stale
    BY <2>1
  <2>3. CanProceed(r) <=> r.checks /\ r.reviews /\ ~r.stale
    BY <1>5, <1>8 DEF CanProceed
  <2>4. Recommended(r) = IF CanProceed(r) THEN {} ELSE ProtectionBlockers(r, Unseen)
    BY <2>1 DEF Recommended
  <2> QED BY <2>2, <2>3, <2>4
<1>11. r \in TrueReports
  BY <1>5, <1>8, <1>10 DEF TrueReports
<1>12. Idle \in TrueAgents
  BY IdleTrue DEF PrInv
<1> QED BY <1>4, <1>7, <1>11, <1>12, AgentStep DEF PrInv

-----------------------------------------------------------------------------
(* pr status, and the files of the pr commands. *)

\* A process goes on, to a place where it refreshes no report.
LEMMA Onward ==
    ASSUME PrInv, UNCHANGED <<env, remote>>, env.part = "pullRequest", NEW p \in Process,
           NEW b \in AgentRecords, agent' = [agent EXCEPT ![p] = b], b.at \notin Asking, InPlace(b), HandsTrue(b),
           prFile' \in TruePrs, prTmp' \in TruePrs, linked' \in BOOLEAN,
           history' \in TrueLogs \cup {Absent}, historyTmp' \in TrueLogs \cup {Absent},
           report' \in TrueReports \cup {Torn}
    PROVE  PrInv'
<1>1. b \in TrueAgents
  BY DEF TrueAgents, FactsTrue
<1> QED BY <1>1, AgentStep

LEMMA FilesTrue ==
    ASSUME PrInv
    PROVE  /\ prFile \in TruePrs /\ prTmp \in TruePrs /\ linked \in BOOLEAN
           /\ history \in TrueLogs \cup {Absent} /\ historyTmp \in TrueLogs \cup {Absent}
           /\ report \in TrueReports \cup {Torn} /\ Absent \in TruePrs
BY DEF PrInv, TruePrs

LEMMA FetchSteps ==
    ASSUME PrInv, UNCHANGED env, env.part = "pullRequest", NEW p \in Process, FetchPr(p) \/ FetchSuites(p)
    PROVE  PrInv'
<1>1. PICK a \in AgentRecords : a = agent[p] /\ InPlace(a) /\ HandsTrue(a)
  BY EntryOf
<1>2. UNCHANGED <<remote, fileVars>> /\ a.at \in Reading /\ agent \in [Process -> AgentRecords]
  BY <1>1 DEF FetchPr, FetchSuites, Calling, Reading, PrInv, TrueAgents
<1>3. /\ a.pr \in TruePrs /\ a.pr \in PrMetadata /\ a.seen.head <= remote.head /\ a.report \in TrueReports
      /\ a.log \in TrueLogs \cup {Absent} /\ a.entry = "none" /\ a.op = "status" /\ a.op \in env.ops
      /\ a.at # "idle"
  BY <1>1, <1>2 DEF HandsTrue, Reading, InPlace, AgentRecords, Writing, Asking, Deciding, Concluding
<1>4. /\ remote.head \in Sha /\ remote.head <= remote.head /\ RemoteTyped
      /\ remote.state # "none" /\ a.pr.requested \subseteq remote.requested /\ a.pr.head <= remote.head
  BY <1>3, Commits DEF PrInv, RemoteTyped, TruePrs, PrMetadata, Absent
<1>5. ASSUME NEW b \in AgentRecords, agent' = [agent EXCEPT ![p] = b], b.at \in Reading \cup {"tmp"}, b.op = a.op,
             b.pr \in TruePrs, b.pr # Absent, b.seen.head <= remote.head, b.report = a.report, b.log = a.log, b.entry = a.entry
      PROVE  PrInv'
  <2>1. b.at \notin Asking /\ InPlace(b)
    BY <1>3, <1>5 DEF InPlace, Reading, Asking
  <2>2. HandsTrue(b)
    BY <1>3, <1>5 DEF HandsTrue, Reading, Writing, Deciding, Concluding
  <2> QED BY <1>2, <1>5, <2>1, <2>2, FilesTrue, Onward DEF fileVars
<1>6. ASSUME Quit(p) PROVE PrInv'
  BY <1>2, <1>6, QuitStep
<1>7. CASE FetchPr(p)
  <2> DEFINE at == IF a.at = "pr" THEN "suites" ELSE "suitesAgain"
             head == IF a.at = "pr" THEN remote.head ELSE a.pr.head
  <2>1. Quit(p) \/ agent' = [agent EXCEPT ![p].seen = getPullRequest, ![p].at = at, ![p].pr.head = head]
    BY <1>1, <1>2, <1>7 DEF FetchPr
  <2>2. head \in Sha /\ head <= remote.head /\ at \in {"suites", "suitesAgain"}
    BY <1>3, <1>4 DEF PrMetadata
  <2> HIDE DEF head, at
  <2>3. PICK pr : pr = [a.pr EXCEPT !.head = head]
    OBVIOUS
  <2>4. pr \in PrMetadata /\ pr.head = head /\ pr.requested = a.pr.requested /\ pr.kind = "pr"
    BY <1>3, <2>2, <2>3 DEF PrMetadata
  <2>5. pr \in TruePrs /\ pr # Absent
    BY <1>4, <2>2, <2>4 DEF TruePrs, Absent
  <2>6. PICK b : b = [a EXCEPT !.seen = getPullRequest, !.at = at, !.pr = pr]
    OBVIOUS
  <2>7. getPullRequest \in SeenRecords /\ getPullRequest.head = remote.head
    BY <1>4 DEF getPullRequest, SeenRecords, RemoteTyped, Satisfied
  <2>8. /\ b \in AgentRecords /\ b.at = at /\ b.op = a.op /\ b.pr = pr /\ b.seen = getPullRequest /\ b.report = a.report
        /\ b.log = a.log /\ b.entry = a.entry
    BY <2>2, <2>4, <2>6, <2>7 DEF AgentRecords, Stages, Reading
  <2>9. ASSUME agent' = [agent EXCEPT ![p].seen = getPullRequest, ![p].at = at, ![p].pr.head = head]
        PROVE  agent' = [agent EXCEPT ![p] = b]
    BY <1>1, <1>2, <2>3, <2>6, <2>9 DEF AgentRecords
  <2>10. b.at \in Reading \cup {"tmp"}
    BY <2>2, <2>8 DEF Reading
  <2> QED BY <1>4, <1>5, <1>6, <2>1, <2>5, <2>7, <2>8, <2>9, <2>10
<1>8. CASE FetchSuites(p)
  <2> DEFINE reasons == Reasons(a.seen, getStatusChecks(a.seen.head))
  <2>1. \/ Quit(p)
        \/ Goto(p, "prAgain")
        \/ agent' = [agent EXCEPT ![p].at = "tmp", ![p].pr.ready = reasons = {}, ![p].pr.reasons = reasons]
    BY <1>1, <1>8 DEF FetchSuites
  <2>2. reasons \in SUBSET {"state", "draft", "conflicts", "blocked", "checks"}
    BY DEF Reasons
  <2> HIDE DEF reasons
  <2>3. ASSUME Goto(p, "prAgain") PROVE PrInv'
    <3>1. PICK b : b = [a EXCEPT !.at = "prAgain"]
      OBVIOUS
    <3>2. /\ b \in AgentRecords /\ b.at = "prAgain" /\ b.op = a.op /\ b.pr = a.pr /\ b.seen = a.seen /\ b.report = a.report
          /\ b.log = a.log /\ b.entry = a.entry
      BY <3>1 DEF AgentRecords, Stages, Reading
    <3>3. agent' = [agent EXCEPT ![p] = b]
      BY <1>1, <1>2, <2>3, <3>1 DEF Goto
    <3>4. b.at \in Reading \cup {"tmp"} /\ a.pr # Absent
      BY <1>3, <3>2 DEF Reading, PrMetadata, Absent
    <3> QED BY <1>3, <1>5, <3>2, <3>3, <3>4
  <2>4. ASSUME agent' = [agent EXCEPT ![p].at = "tmp", ![p].pr.ready = reasons = {}, ![p].pr.reasons = reasons]
        PROVE  PrInv'
    <3>1. PICK pr : pr = [a.pr EXCEPT !.ready = (reasons = {}), !.reasons = reasons]
      OBVIOUS
    <3>2. pr \in PrMetadata /\ pr.head = a.pr.head /\ pr.requested = a.pr.requested /\ pr.kind = "pr"
      BY <1>3, <2>2, <3>1 DEF PrMetadata
    <3>3. pr \in TruePrs /\ pr # Absent
      BY <1>4, <3>2 DEF TruePrs, Absent
    <3>4. PICK b : b = [a EXCEPT !.at = "tmp", !.pr = pr]
      OBVIOUS
    <3>5. /\ b \in AgentRecords /\ b.at = "tmp" /\ b.op = a.op /\ b.pr = pr /\ b.seen = a.seen /\ b.report = a.report
          /\ b.log = a.log /\ b.entry = a.entry
      BY <3>2, <3>4 DEF AgentRecords, Stages, Writing
    <3>6. agent' = [agent EXCEPT ![p] = b]
      BY <1>1, <1>2, <2>4, <3>1, <3>4 DEF AgentRecords
    <3> QED BY <1>3, <1>5, <3>3, <3>5, <3>6
  <2> QED BY <1>6, <2>1, <2>3, <2>4
<1> QED BY <1>7, <1>8

\* A command goes on with its files: only its place changes, and what it has read of the log.
LEMMA CommandGoes ==
    ASSUME PrInv, UNCHANGED <<env, remote, report>>, env.part = "pullRequest", NEW p \in Process,
           NEW a \in AgentRecords, a = agent[p], a.at \in Writing,
           NEW b \in AgentRecords, agent' = [agent EXCEPT ![p] = b], b.at \in Writing, b.op = a.op, b.pr = a.pr,
           b.seen = a.seen, b.report = a.report, b.entry = a.entry, b.log \in TrueLogs \cup {Absent},
           b.at \in {"readLog", "log", "renameLog"} => b.entry # "none",
           b.at = "log" => b.log # Absent,
           prFile' \in TruePrs, prTmp' \in TruePrs, linked' \in BOOLEAN,
           history' \in TrueLogs \cup {Absent}, historyTmp' \in TrueLogs \cup {Absent}
    PROVE  PrInv'
<1>1. InPlace(a) /\ HandsTrue(a)
  BY EntryOf
<1>2. b.op = "status" => b.at \in {"tmp", "rename", "feature"}
  BY <1>1 DEF HandsTrue, Writing
<1>3. a.op \in env.ops /\ a.op \in {"create", "reviewers", "status"}
  BY <1>1 DEF InPlace, Writing, Reading, Asking, Deciding, Concluding
<1>4. InPlace(b)
  BY <1>2, <1>3 DEF InPlace
<1>5. HandsTrue(b)
  BY <1>1 DEF HandsTrue, Writing, Reading, Deciding, Concluding
<1>6. b.at \notin Asking
  BY DEF Writing, Asking
<1>8. report' \in TrueReports \cup {Torn}
  BY FilesTrue
<1> QED BY <1>4, <1>5, <1>6, <1>8, Onward

\* A command ends, and leaves files that are true.
LEMMA CommandEnds ==
    ASSUME PrInv, UNCHANGED <<env, remote>>, env.part = "pullRequest", NEW p \in Process, Quit(p),
           prFile' \in TruePrs, prTmp' \in TruePrs, linked' \in BOOLEAN,
           history' \in TrueLogs \cup {Absent}, historyTmp' \in TrueLogs \cup {Absent},
           report' \in TrueReports \cup {Torn}
    PROVE  PrInv'
<1>1. Idle \in TrueAgents
  BY IdleTrue DEF PrInv
<1> QED BY <1>1, AgentStep DEF Quit

LEMMA FileSteps ==
    ASSUME PrInv, UNCHANGED env, env.part = "pullRequest", NEW p \in Process,
           WriteTmp(p) \/ Rename(p) \/ LinkFeature(p) \/ ReadLog(p) \/ WriteLog(p) \/ RenameLog(p)
    PROVE  PrInv'
<1>1. PICK a \in AgentRecords : a = agent[p] /\ InPlace(a) /\ HandsTrue(a)
  BY EntryOf
<1>2. /\ UNCHANGED <<remote, report>> /\ a.at \in Writing /\ agent \in [Process -> AgentRecords]
      /\ (a.at \in {"tmp", "rename", "feature"} \/ a.at \in {"readLog", "log", "renameLog"})
  <2>1. agent \in [Process -> AgentRecords]
    BY DEF PrInv, TrueAgents
  <2>2. a.at \in {"tmp", "rename", "feature"} \/ a.at \in {"readLog", "log", "renameLog"}
    BY <1>1 DEF WriteTmp, Rename, LinkFeature, ReadLog, WriteLog, RenameLog
  <2>3. UNCHANGED <<remote, report>>
    BY DEF WriteTmp, Rename, LinkFeature, ReadLog, WriteLog, RenameLog, fileVars
  <2> QED BY <2>1, <2>2, <2>3 DEF Writing
<1>3. /\ a.pr \in TruePrs /\ a.log \in TrueLogs \cup {Absent} /\ a.entry \in {"none"} \cup Entries
      /\ a.at \in {"readLog", "log", "renameLog"} => a.entry \in Entries
      /\ a.at = "log" => a.log \in TrueLogs
  BY <1>1, <1>2 DEF HandsTrue, Writing
<1>4. ASSUME NEW at \in Writing, NEW log \in TrueLogs \cup {Absent},
             (Goto(p, at) /\ log = a.log) \/ agent' = [agent EXCEPT ![p].at = at, ![p].log = log]
      PROVE  \E b \in AgentRecords :
                /\ agent' = [agent EXCEPT ![p] = b]
                /\ b.at = at /\ b.op = a.op /\ b.pr = a.pr /\ b.seen = a.seen /\ b.report = a.report
                /\ b.entry = a.entry /\ b.log = log
  <2>1. at \in Stages /\ log \in Logs \cup {Absent}
    BY DEF Stages, TrueLogs, Logs, TrueOutcomes
  <2>2. PICK b : b = [a EXCEPT !.at = at, !.log = log]
    OBVIOUS
  <2>3. /\ b \in AgentRecords /\ b.at = at /\ b.op = a.op /\ b.pr = a.pr /\ b.seen = a.seen /\ b.report = a.report
        /\ b.entry = a.entry /\ b.log = log
    BY <2>1, <2>2 DEF AgentRecords
  <2>4. agent' = [agent EXCEPT ![p] = b]
    <3>1. CASE Goto(p, at) /\ log = a.log
      <4>1. b = [a EXCEPT !.at = at]
        BY <2>2, <3>1 DEF AgentRecords
      <4> QED BY <1>1, <1>2, <3>1, <4>1 DEF Goto
    <3>2. CASE agent' = [agent EXCEPT ![p].at = at, ![p].log = log]
      BY <1>1, <1>2, <2>2, <3>2 DEF AgentRecords
    <3> QED BY <3>1, <3>2, <1>4
  <2> QED BY <2>3, <2>4
<1>5. ASSUME NEW at \in Writing, NEW log \in TrueLogs \cup {Absent},
             (Goto(p, at) /\ log = a.log) \/ agent' = [agent EXCEPT ![p].at = at, ![p].log = log],
             at \in {"readLog", "log", "renameLog"} => a.entry # "none",
             at = "log" => log # Absent,
             prFile' \in TruePrs, prTmp' \in TruePrs, linked' \in BOOLEAN,
             history' \in TrueLogs \cup {Absent}, historyTmp' \in TrueLogs \cup {Absent}
      PROVE  PrInv'
  <2>1. PICK b \in AgentRecords :
            /\ agent' = [agent EXCEPT ![p] = b]
            /\ b.at = at /\ b.op = a.op /\ b.pr = a.pr /\ b.seen = a.seen /\ b.report = a.report
            /\ b.entry = a.entry /\ b.log = log
    BY <1>4, <1>5
  <2> QED BY <1>1, <1>2, <1>5, <2>1, CommandGoes
<1>6. CASE WriteTmp(p)
  <2>1. /\ a.at = "tmp" /\ prTmp' = a.pr /\ Goto(p, "rename") /\ UNCHANGED <<prFile, linked, history, historyTmp, report>>
    BY <1>1, <1>6 DEF WriteTmp
  <2>2. "rename" \in Writing
    BY DEF Writing
  <2>4. prFile' \in TruePrs /\ prTmp' \in TruePrs /\ linked' \in BOOLEAN
        /\ history' \in TrueLogs \cup {Absent} /\ historyTmp' \in TrueLogs \cup {Absent}
    BY <1>3, <2>1, FilesTrue
  <2> QED BY <1>3, <1>5, <2>1, <2>2, <2>4
<1>7. CASE Rename(p)
  <2>1. CASE prTmp = Absent
    <3>1. Quit(p) /\ UNCHANGED <<prFile, prTmp, linked, history, historyTmp, report>>
      BY <1>7, <2>1 DEF Rename
    <3> QED BY <1>2, <3>1, FilesTrue, CommandEnds
  <2>2. CASE prTmp # Absent
    <3>1. a.at = "rename" /\ prFile' = prTmp /\ prTmp' = Absent /\ Goto(p, "feature") /\ UNCHANGED <<linked, history, historyTmp>>
      BY <1>1, <1>7, <2>2 DEF Rename
    <3>2. "feature" \in Writing
      BY DEF Writing
    <3>4. prFile' \in TruePrs /\ prTmp' \in TruePrs /\ linked' \in BOOLEAN
          /\ history' \in TrueLogs \cup {Absent} /\ historyTmp' \in TrueLogs \cup {Absent}
      BY <3>1, FilesTrue
    <3> QED BY <1>3, <1>5, <3>1, <3>2, <3>4
  <2> QED BY <2>1, <2>2
<1>8. CASE LinkFeature(p)
  <2>1. a.at = "feature" /\ linked' \in BOOLEAN /\ UNCHANGED <<prFile, prTmp, history, historyTmp>>
    BY <1>1, <1>8, FilesTrue DEF LinkFeature
  <2>2. CASE a.entry = "none"
    BY <1>1, <1>2, <1>8, <2>1, <2>2, FilesTrue, CommandEnds DEF LinkFeature
  <2>3. CASE a.entry # "none"
    <3>1. Goto(p, "readLog") /\ "readLog" \in Writing
      BY <1>1, <1>8, <2>3 DEF LinkFeature, Writing
    <3>2. prFile' \in TruePrs /\ prTmp' \in TruePrs /\ history' \in TrueLogs \cup {Absent} /\ historyTmp' \in TrueLogs \cup {Absent}
      BY <2>1, FilesTrue
    <3> QED BY <1>3, <1>5, <2>1, <2>3, <3>1, <3>2
  <2> QED BY <2>2, <2>3
<1>9. CASE ReadLog(p)
  <2> DEFINE log == IF history = Absent THEN EmptyLog ELSE history
  <2>1. a.at = "readLog" /\ agent' = [agent EXCEPT ![p].at = "log", ![p].log = log] /\ UNCHANGED fileVars
    BY <1>1, <1>9 DEF ReadLog
  <2>2. log \in TrueLogs /\ log # Absent
    <3>1. EmptyLog \in TrueLogs
      BY DEF EmptyLog, TrueLogs
    <3>2. \A l \in TrueLogs : l # Absent
      BY DEF TrueLogs, Absent
    <3> QED BY <3>1, <3>2, FilesTrue
  <2> HIDE DEF log
  <2>4. "log" \in Writing
    BY DEF Writing
  <2>5. prFile' \in TruePrs /\ prTmp' \in TruePrs /\ linked' \in BOOLEAN
        /\ history' \in TrueLogs \cup {Absent} /\ historyTmp' \in TrueLogs \cup {Absent}
    BY <2>1, FilesTrue DEF fileVars
  <2>6. a.entry # "none"
    BY <1>3, <2>1 DEF Entries
  <2> QED BY <1>5, <2>1, <2>2, <2>4, <2>5, <2>6
<1>10. CASE WriteLog(p)
  <2> DEFINE new == [action |-> a.entry, users |-> a.ask]
  <2>1. /\ a.at = "log" /\ historyTmp' = [a.log EXCEPT !.actions = Append(@, new)] /\ Goto(p, "renameLog")
        /\ UNCHANGED <<prFile, prTmp, linked, history>>
    BY <1>1, <1>10 DEF WriteLog
  <2>2. new \in [action : Entries, users : SUBSET Reviewer]
    BY <1>3, <2>1 DEF AgentRecords
  <2> HIDE DEF new
  <2>3. historyTmp' \in TrueLogs
    <3> DEFINE entries == [action : Entries, users : SUBSET Reviewer]
    <3>1. a.log \in [kind : {"log"}, outcomes : Seq(TrueOutcomes), actions : Seq(entries)]
      BY <1>3, <2>1 DEF TrueLogs
    <3>2. a.log.actions \in Seq(entries) /\ new \in entries
      BY <2>2, <3>1
    <3> HIDE DEF entries
    <3>5. Append(a.log.actions, new) \in Seq(entries)
      BY <3>2
    <3>3. PICK actions \in Seq(entries) : actions = Append(a.log.actions, new)
      BY <3>5
    <3>4. historyTmp' = [a.log EXCEPT !.actions = actions]
      BY <2>1, <3>3
    <3> QED BY <3>1, <3>4 DEF TrueLogs, entries
  <2>4. "renameLog" \in Writing
    BY DEF Writing
  <2>6. prFile' \in TruePrs /\ prTmp' \in TruePrs /\ linked' \in BOOLEAN
        /\ history' \in TrueLogs \cup {Absent} /\ historyTmp' \in TrueLogs \cup {Absent}
    BY <2>1, <2>3, FilesTrue
  <2>7. a.entry # "none"
    BY <1>3, <2>1 DEF Entries
  <2> QED BY <1>3, <1>5, <2>1, <2>4, <2>6, <2>7
<1>11. CASE RenameLog(p)
  <2>1. /\ Quit(p) /\ UNCHANGED <<prFile, prTmp, linked, report>>
        /\ history' \in {history, historyTmp} /\ historyTmp' \in {historyTmp, Absent}
    BY <1>11 DEF RenameLog
  <2> QED BY <1>2, <2>1, FilesTrue, CommandEnds
<1> QED BY <1>6, <1>7, <1>8, <1>9, <1>10, <1>11

-----------------------------------------------------------------------------
(* triggerDeployment, but for its calls that change the pull request. *)

LEMMA Strategies ==
    ASSUME NEW blockers, NEW force \in BOOLEAN, NEW r
    PROVE  /\ Strategy(blockers, force, r) \in {"blocked", "dispatch", "merge", "auto"}
           /\ Strategy(blockers, force, r) # "blocked" => blockers = {} \/ force
BY DEF Strategy

LEMMA AssessStep ==
    ASSUME PrInv, UNCHANGED env, env.part = "pullRequest", NEW p \in Process, Assess(p)
    PROVE  PrInv'
<1>1. PICK a \in AgentRecords : a = agent[p] /\ InPlace(a) /\ HandsTrue(a)
  BY EntryOf
<1> DEFINE blockers == Blockers(a.report, getPullRequest)
           strategy == Strategy(blockers, a.force, a.report)
           after == IF strategy = "auto" THEN "node" ELSE strategy
<1>2. /\ a.at = "assess" /\ UNCHANGED <<remote, fileVars>> /\ agent \in [Process -> AgentRecords]
      /\ \E at \in {"error", after} : agent' = [agent EXCEPT ![p].at = at, ![p].seen = getPullRequest]
  BY <1>1 DEF Assess, Calling, PrInv, TrueAgents
<1>3. /\ strategy \in {"blocked", "dispatch", "merge", "auto"}
      /\ strategy # "blocked" => blockers = {} \/ a.force
  BY Strategies DEF AgentRecords
<1>4. blockers = {} /\ a.report # Absent => a.report.checks /\ a.report.reviews
  BY DEF Blockers, ProtectionBlockers
<1> HIDE DEF blockers, strategy
<1>5. PICK at \in {"error", "blocked", "dispatch", "merge", "node"} :
        /\ agent' = [agent EXCEPT ![p].at = at, ![p].seen = getPullRequest]
        /\ at = "merge" /\ ~a.force /\ a.report # Absent => a.report.checks /\ a.report.reviews
  BY <1>2, <1>3, <1>4
<1>6. getPullRequest \in SeenRecords /\ getPullRequest.head = remote.head /\ remote.head <= remote.head
  BY Commits DEF getPullRequest, SeenRecords, PrInv, RemoteTyped, Satisfied
<1>7. PICK b : b = [a EXCEPT !.at = at, !.seen = getPullRequest]
  OBVIOUS
<1>8. /\ b \in AgentRecords /\ b.at = at /\ b.op = a.op /\ b.pr = a.pr /\ b.seen = getPullRequest /\ b.report = a.report
      /\ b.entry = a.entry /\ b.log = a.log /\ b.force = a.force
  BY <1>6, <1>7 DEF AgentRecords, Stages, Deciding
<1>9. agent' = [agent EXCEPT ![p] = b]
  BY <1>1, <1>2, <1>5, <1>7 DEF AgentRecords
<1>10. a.op = "deploy" /\ a.op \in env.ops /\ a.pr # Absent /\ a.pr \in TruePrs /\ a.report \in TrueReports /\ a.log \in TrueLogs \cup {Absent}
  BY <1>1, <1>2 DEF InPlace, HandsTrue, Deciding, Reading, Writing, Asking, Concluding
<1>11. InPlace(b) /\ b.at \notin Asking
  BY <1>8, <1>10 DEF InPlace, Deciding, Asking
<1>12. HandsTrue(b)
  BY <1>5, <1>6, <1>8, <1>10 DEF HandsTrue, Deciding, Reading, Writing, Concluding
<1> QED BY <1>2, <1>8, <1>9, <1>11, <1>12, FilesTrue, Onward DEF fileVars

\* The outcome of a deployment is recorded in memory.
LEMMA ConcludeStep ==
    ASSUME PrInv, UNCHANGED <<env, fileVars>>, env.part = "pullRequest", RemoteTyped', StatusOrder', Grown, NEW p \in Process,
           agent[p].at \in {"error"} \cup Deciding, NEW strategy \in {"merge", "auto", "dispatch", "blocked"},
           NEW ok \in BOOLEAN, Conclude(p, strategy, ok),
           ok => \/ /\ strategy = "merge" /\ remote'.state = "merged" /\ remote'.merged = agent[p].pr.head
                    /\ remote'.statuses = remote.statuses /\ remote'.run = remote.run /\ remote'.reviews = remote.reviews
                    /\ agent[p].at = "merge"
                 \/ strategy = "auto" /\ (remote'.auto \/ remote'.state \in {"closed", "merged"} \/ "refuse" \in env.events)
                 \/ strategy = "dispatch" /\ remote'.dispatched
    PROVE  PrInv'
<1>1. PICK a \in AgentRecords : a = agent[p] /\ InPlace(a) /\ HandsTrue(a)
  BY EntryOf
<1>2. /\ a.op = "deploy" /\ a.op \in env.ops /\ a.pr \in TruePrs /\ a.report \in TrueReports /\ a.log \in TrueLogs \cup {Absent}
      /\ a.at \in Deciding => a.pr # Absent
      /\ a.at \in {"error"} \cup Deciding /\ a.seen.head <= remote.head
  BY <1>1 DEF InPlace, HandsTrue, Deciding, Reading, Writing, Asking, Concluding
<1>3. /\ TruePrs \subseteq TruePrs' /\ TrueReports \subseteq TrueReports' /\ TrueLogs \subseteq TrueLogs'
      /\ a.pr \in TruePrs' /\ a.report \in TrueReports' /\ a.log \in (TrueLogs \cup {Absent})'
  BY <1>2, TruthStays DEF PrInv
<1> DEFINE head == IF a.pr = Absent THEN 0 ELSE a.pr.head
<1>4. PICK o : o = [strategy |-> strategy, ok |-> ok, head |-> head, report |-> a.report, force |-> a.force]
  OBVIOUS
<1>5. agent' = [agent EXCEPT ![p].at = "outcome", ![p].entry = o]
  BY <1>1, <1>4 DEF Conclude, Outcome
<1>6. head \in 0..MaxSha /\ (a.pr # Absent => head = a.pr.head /\ head \in Sha)
  BY <1>2, Commits, GitHubSettings DEF TruePrs, PrMetadata
<1> HIDE DEF head
<1>7. /\ o \in OutcomeRecords /\ o.strategy = strategy /\ o.ok = ok /\ o.head = head /\ o.report = a.report
      /\ o.force = a.force
  BY <1>2, <1>4, <1>6 DEF OutcomeRecords, TrueReports, AgentRecords
<1>8. ASSUME o.ok, o.strategy = "merge" PROVE o.head # ByName /\ MergeTrue(o)'
  <2>1. /\ remote'.state = "merged" /\ remote'.merged = a.pr.head /\ a.at = "merge"
        /\ remote'.statuses = remote.statuses /\ remote'.run = remote.run /\ remote'.reviews = remote.reviews
    BY <1>1, <1>7, <1>8
  <2>2. a.pr # Absent /\ head = a.pr.head /\ head \in Sha /\ head # ByName
    BY <1>2, <1>6, <2>1, Commits DEF Deciding
  <2>3. ASSUME a.report # Absent, a.report.sha = head, ~a.force, Judged(head) PROVE ChecksGood(head) /\ ReviewsGood
    <3>1. a.report.checks /\ a.report.reviews
      BY <1>1, <2>1, <2>3 DEF HandsTrue
    <3> QED BY <1>2, <2>3, <3>1 DEF TrueReports
  <2>4. /\ Judged(head)' = Judged(head) /\ (ChecksGood(head) => ChecksGood(head)') /\ (ReviewsGood => ReviewsGood')
    BY <2>1 DEF Judged, ChecksGood, ReviewsGood, Approves
  <2> QED BY <1>7, <2>1, <2>2, <2>3, <2>4 DEF MergeTrue
<1>9. o \in OutcomeRecords'
  BY <1>7 DEF OutcomeRecords, Reports, Absent
<1>10. o \in TrueOutcomes'
  <2>1. o.report # Absent => o.report.protected = env'.rules.protected
    BY <1>2, <1>7 DEF TrueReports
  <2> QED BY <1>7, <1>8, <1>9, <2>1 DEF TrueOutcomes
<1>11. PICK b : b = [a EXCEPT !.at = "outcome", !.entry = o]
  OBVIOUS
<1>12. /\ b \in AgentRecords /\ b.at = "outcome" /\ b.op = a.op /\ b.pr = a.pr /\ b.seen = a.seen /\ b.report = a.report
       /\ b.entry = o /\ b.log = a.log
  BY <1>7, <1>11 DEF AgentRecords, Stages, Concluding
<1>13. agent \in [Process -> AgentRecords]
  BY DEF PrInv, TrueAgents
<1>14. agent' = [agent EXCEPT ![p] = b]
  BY <1>1, <1>5, <1>11, <1>13 DEF AgentRecords
<1>15. InPlace(b)' /\ FactsTrue(b)'
  BY <1>2, <1>12 DEF InPlace, FactsTrue, Asking, Concluding
<1>16. b.seen.head <= remote'.head
  <2>1. /\ remote.head \in Sha /\ remote'.head \in Sha /\ a.seen.head \in Sha
    BY DEF PrInv, RemoteTyped, AgentRecords, SeenRecords, Sha
  <2>2. remote.head <= remote'.head
    BY DEF Grown
  <2> QED BY <1>2, <1>12, <2>1, <2>2, Commits
<1>17. HandsTrue(b)'
  BY <1>2, <1>3, <1>10, <1>12, <1>16 DEF HandsTrue, Deciding, Reading, Writing, Concluding
<1>18. b \in AgentRecords'
  BY <1>12 DEF AgentRecords, PrMetadata, SeenRecords, OutcomeRecords, Reports, Logs, Facts, Sha, Entries, Absent, Stages
<1>19. b \in TrueAgents'
  BY <1>15, <1>17, <1>18 DEF TrueAgents
<1> QED BY <1>14, <1>19, RemoteAgent

\* What a call does to the pull request.
LEMMA CallGrows ==
    ASSUME PrInv, UNCHANGED env,
           remote'.head = remote.head, remote'.statuses = remote.statuses, remote'.run = remote.run,
           remote'.reviews = remote.reviews, remote'.base = remote.base, remote'.contains = remote.contains,
           remote.requested \subseteq remote'.requested,
           remote.auto => remote'.auto, remote.dispatched => remote'.dispatched,
           \/ remote'.state = remote.state /\ remote'.merged = remote.merged
           \/ remote.state \in {"none", "open"} /\ remote'.state # "none"
    PROVE  Grown /\ StatusOrder'
<1>1. remote.head <= remote'.head
  <2>1. remote.head \in Sha
    BY DEF PrInv, RemoteTyped
  <2> QED BY <2>1, Commits
<1>2. \A sha \in Sha : (ChecksGood(sha) => ChecksGood(sha)') /\ (Behind(sha) => Behind(sha)')
  BY DEF ChecksGood, Behind
<1>3. ReviewsGood => ReviewsGood'
  BY DEF ReviewsGood, Approves
<1>4. StatusOrder'
  BY DEF PrInv, StatusOrder
<1> QED BY <1>1, <1>2, <1>3, <1>4 DEF Grown

LEMMA SameGrows ==
    ASSUME PrInv, UNCHANGED <<env, remote>>
    PROVE  Grown /\ StatusOrder' /\ RemoteTyped'
<1>1. RemoteTyped' /\ StatusOrder'
  BY DEF RemoteTyped, StatusOrder, PrInv
<1> QED BY <1>1, CallGrows

\* A call answers ok only if it took effect, and takes effect at most as meant.
LEMMA ResultsAre ==
    ASSUME NEW possible \in BOOLEAN, NEW after, NEW r \in Results(possible, after)
    PROVE  /\ r.ok \in BOOLEAN
           /\ r.ok => possible /\ r.remote = after
           /\ r.remote = remote \/ (possible /\ r.remote = after)
           /\ possible /\ ~r.ok => env.events \cap {"lost", "failure"} # {}
           /\ ~r.ok /\ r.remote # remote => "lost" \in env.events
BY DEF Results

LEMMA MergeStep ==
    ASSUME PrInv, UNCHANGED env, env.part = "pullRequest", NEW p \in Process, Merge(p)
    PROVE  PrInv'
<1>1. PICK a \in AgentRecords : a = agent[p] /\ HandsTrue(a)
  BY EntryOf
<1> DEFINE possible == remote.state = "open" /\ ~remote.draft /\ remote.mergeable /\ a.pr.head \in {ByName, remote.head}
           after == [remote EXCEPT !.state = "merged", !.merged = remote.head]
<1>2. PICK r \in Results(possible, after) : remote' = r.remote /\ Conclude(p, "merge", r.ok)
  BY <1>1 DEF Merge, mergePullRequest
<1>3. a.at = "merge" /\ UNCHANGED fileVars /\ RemoteTyped /\ a.pr \in PrMetadata
  BY <1>1 DEF Merge, Calling, PrInv, HandsTrue, Deciding, TruePrs
<1>4. /\ r.ok \in BOOLEAN
      /\ r.ok => possible /\ r.remote = after
      /\ remote' = remote \/ (possible /\ remote' = after)
  <2>1. possible \in BOOLEAN
    BY <1>3 DEF RemoteTyped
  <2> HIDE DEF possible, after
  <2> QED BY <1>2, <2>1, ResultsAre
<1>5. a.pr.head # ByName
  BY <1>3, Commits DEF PrMetadata
<1>6. RemoteTyped' /\ StatusOrder' /\ Grown
  <2>1. CASE remote' = remote
    BY <2>1, SameGrows
  <2>2. CASE possible /\ remote' = after
    <3>1. RemoteTyped'
      <4>1. remote.head \in 0..MaxSha
        BY <1>3, Commits DEF RemoteTyped
      <4> QED BY <1>3, <2>2, <4>1 DEF RemoteTyped
    <3>2. /\ remote'.head = remote.head /\ remote'.statuses = remote.statuses /\ remote'.run = remote.run
          /\ remote'.reviews = remote.reviews /\ remote'.base = remote.base /\ remote'.contains = remote.contains
          /\ remote'.requested = remote.requested /\ remote'.auto = remote.auto /\ remote'.dispatched = remote.dispatched
          /\ remote.state = "open" /\ remote'.state = "merged"
      BY <1>3, <2>2 DEF RemoteTyped
    <3> QED BY <3>1, <3>2, CallGrows
  <2> QED BY <1>4, <2>1, <2>2
<1>7. r.ok => /\ remote'.state = "merged" /\ remote'.merged = a.pr.head
              /\ remote'.statuses = remote.statuses /\ remote'.run = remote.run /\ remote'.reviews = remote.reviews
  BY <1>2, <1>3, <1>4, <1>5 DEF RemoteTyped
<1>8. a.at \in {"error"} \cup Deciding
  BY <1>3 DEF Deciding
<1> QED BY <1>1, <1>2, <1>3, <1>4, <1>6, <1>7, <1>8, ConcludeStep

LEMMA AutoMergeStep ==
    ASSUME PrInv, UNCHANGED env, env.part = "pullRequest", NEW p \in Process, AutoMerge(p)
    PROVE  PrInv'
<1>1. PICK a \in AgentRecords : a = agent[p] /\ HandsTrue(a)
  BY EntryOf
<1> DEFINE granted == remote.state = "open" /\ "refuse" \notin env.events
           after == IF granted THEN [remote EXCEPT !.auto = TRUE] ELSE remote
<1>2. PICK r \in Results(TRUE, after) : remote' = r.remote /\ Conclude(p, "auto", r.ok)
  BY DEF AutoMerge, enableAutoMerge
<1>3. /\ a.at = "auto" /\ UNCHANGED fileVars /\ RemoteTyped /\ a.at \in Deciding
      /\ a.pr \in TruePrs /\ a.pr # Absent
  BY <1>1 DEF AutoMerge, Calling, PrInv, HandsTrue, Deciding
<1>4. /\ r.ok \in BOOLEAN
      /\ r.ok => r.remote = after
      /\ remote' = remote \/ remote' = after
  <2> HIDE DEF after
  <2> QED BY <1>2, ResultsAre
<1>5. RemoteTyped' /\ StatusOrder' /\ Grown
  <2>1. CASE remote' = remote
    BY <2>1, SameGrows
  <2>2. CASE remote' = [remote EXCEPT !.auto = TRUE]
    <3>1. RemoteTyped'
      BY <1>3, <2>2 DEF RemoteTyped
    <3>2. /\ remote'.head = remote.head /\ remote'.statuses = remote.statuses /\ remote'.run = remote.run
          /\ remote'.reviews = remote.reviews /\ remote'.base = remote.base /\ remote'.contains = remote.contains
          /\ remote'.requested = remote.requested /\ remote'.auto = TRUE /\ remote'.dispatched = remote.dispatched
          /\ remote'.state = remote.state /\ remote'.merged = remote.merged
      BY <1>3, <2>2 DEF RemoteTyped
    <3> QED BY <3>1, <3>2, CallGrows
  <2> QED BY <1>4, <2>1, <2>2
<1>6. r.ok => remote'.auto \/ remote'.state \in {"closed", "merged"} \/ "refuse" \in env.events
  <2>1. remote.state # "none"
    BY <1>3 DEF TruePrs
  <2> QED BY <1>2, <1>3, <1>4, <2>1 DEF RemoteTyped
<1> QED BY <1>1, <1>2, <1>3, <1>4, <1>5, <1>6, ConcludeStep

LEMMA DispatchStep ==
    ASSUME PrInv, UNCHANGED env, env.part = "pullRequest", NEW p \in Process, Dispatch(p)
    PROVE  PrInv'
<1> DEFINE after == [remote EXCEPT !.dispatched = TRUE]
<1>1. PICK r \in Results(TRUE, after) :
        IF env.config.dispatch = "workflow" THEN remote' = r.remote /\ Conclude(p, "dispatch", r.ok)
                                            ELSE Conclude(p, "dispatch", FALSE) /\ UNCHANGED remote
  BY DEF Dispatch, triggerWorkflow
<1>2. /\ agent[p].at \in {"error"} \cup Deciding /\ UNCHANGED fileVars /\ RemoteTyped
  BY DEF Dispatch, Calling, PrInv, Deciding
<1>3. /\ r.ok \in BOOLEAN
      /\ r.ok => r.remote = after
      /\ r.remote = remote \/ r.remote = after
  <2> HIDE DEF after
  <2> QED BY ResultsAre
<1>4. CASE remote' = r.remote /\ Conclude(p, "dispatch", r.ok)
  <2>1. RemoteTyped' /\ StatusOrder' /\ Grown
    <3>1. CASE remote' = remote
      BY <3>1, SameGrows
    <3>2. CASE remote' = after
      <4>1. RemoteTyped'
        BY <1>2, <3>2 DEF RemoteTyped
      <4>2. /\ remote'.head = remote.head /\ remote'.statuses = remote.statuses /\ remote'.run = remote.run
            /\ remote'.reviews = remote.reviews /\ remote'.base = remote.base /\ remote'.contains = remote.contains
            /\ remote'.requested = remote.requested /\ remote'.auto = remote.auto /\ remote'.dispatched = TRUE
            /\ remote'.state = remote.state /\ remote'.merged = remote.merged
        BY <1>2, <3>2 DEF RemoteTyped
      <4> QED BY <4>1, <4>2, CallGrows
    <3> QED BY <1>3, <1>4, <3>1, <3>2
  <2>2. r.ok => remote'.dispatched
    BY <1>2, <1>3, <1>4 DEF RemoteTyped
  <2> QED BY <1>2, <1>3, <1>4, <2>1, <2>2, ConcludeStep
<1>5. CASE Conclude(p, "dispatch", FALSE) /\ UNCHANGED remote
  <2>1. RemoteTyped' /\ StatusOrder' /\ Grown
    BY <1>5, SameGrows
  <2> QED BY <1>2, <1>5, <2>1, ConcludeStep
<1> QED BY <1>1, <1>4, <1>5

LEMMA RefusedStep ==
    ASSUME PrInv, UNCHANGED env, env.part = "pullRequest", NEW p \in Process,
           Refused(p) \/ GetNodeId(p) \/ DryRun(p)
    PROVE  PrInv'
<1>1. /\ UNCHANGED <<remote, fileVars>> /\ agent[p].at \in {"error"} \cup Deciding
  BY DEF Refused, GetNodeId, DryRun, Calling, Deciding
<1>2. RemoteTyped' /\ StatusOrder' /\ Grown
  BY <1>1, SameGrows
<1>3. ASSUME NEW strategy \in {"auto", "blocked"}, Conclude(p, strategy, FALSE) PROVE PrInv'
  BY <1>1, <1>2, <1>3, ConcludeStep
<1>4. CASE Refused(p)
  BY <1>3, <1>4 DEF Refused
<1>5. CASE DryRun(p)
  BY <1>1, <1>5, QuitStep DEF DryRun
<1>6. CASE GetNodeId(p)
  <2>1. CASE Conclude(p, "auto", FALSE)
    BY <1>3, <2>1
  <2>2. CASE Goto(p, "auto")
    <3>1. PICK a \in AgentRecords : a = agent[p] /\ InPlace(a) /\ HandsTrue(a)
      BY EntryOf
    <3>2. PICK b : b = [a EXCEPT !.at = "auto"]
      OBVIOUS
    <3>3. /\ b \in AgentRecords /\ b.at = "auto" /\ b.op = a.op /\ b.pr = a.pr /\ b.seen = a.seen /\ b.report = a.report
          /\ b.entry = a.entry /\ b.log = a.log /\ b.force = a.force
      BY <3>2 DEF AgentRecords, Stages, Deciding
    <3>4. a.at = "node" /\ agent' = [agent EXCEPT ![p] = b]
      <4>1. agent \in [Process -> AgentRecords]
        BY DEF PrInv, TrueAgents
      <4> QED BY <1>6, <2>2, <3>1, <3>2, <4>1 DEF GetNodeId, Goto
    <3>5. b.at \notin Asking /\ InPlace(b)
      BY <3>1, <3>3, <3>4 DEF InPlace, Asking, Deciding, Reading, Writing, Concluding
    <3>6. HandsTrue(b)
      BY <3>1, <3>3, <3>4 DEF HandsTrue, Deciding, Reading, Writing, Concluding
    <3> QED BY <1>1, <3>3, <3>4, <3>5, <3>6, FilesTrue, Onward DEF fileVars
  <2> QED BY <1>6, <2>1, <2>2 DEF GetNodeId
<1> QED BY <1>4, <1>5, <1>6

LEMMA HistorySteps ==
    ASSUME PrInv, UNCHANGED env, env.part = "pullRequest", NEW p \in Process, ReadHistory(p) \/ PersistOutcome(p)
    PROVE  PrInv'
<1>1. PICK a \in AgentRecords : a = agent[p] /\ InPlace(a) /\ HandsTrue(a)
  BY EntryOf
<1>2. CASE ReadHistory(p)
  <2> DEFINE old == IF history = Absent THEN <<>> ELSE history.outcomes
             log == [EmptyLog EXCEPT !.outcomes = Append(old, a.entry)]
  <2>1. /\ a.at = "outcome" /\ UNCHANGED <<remote, fileVars>>
        /\ agent' = [agent EXCEPT ![p].at = "persist", ![p].log = log]
    BY <1>1, <1>2 DEF ReadHistory
  <2>2. a.entry \in TrueOutcomes
    BY <1>1, <2>1 DEF HandsTrue, Concluding
  <2>3. old \in Seq(TrueOutcomes)
    BY FilesTrue DEF TrueLogs
  <2> HIDE DEF old
  <2>4. PICK outcomes \in Seq(TrueOutcomes) : outcomes = Append(old, a.entry)
    <3>1. Append(old, a.entry) \in Seq(TrueOutcomes)
      BY <2>2, <2>3
    <3> QED BY <3>1
  <2>5. log \in TrueLogs /\ log # Absent
    <3>1. EmptyLog \in TrueLogs
      BY DEF EmptyLog, TrueLogs
    <3>2. log = [EmptyLog EXCEPT !.outcomes = outcomes]
      BY <2>4
    <3>3. log \in TrueLogs
      BY <3>1, <3>2 DEF TrueLogs
    <3> QED BY <3>3 DEF TrueLogs, Absent
  <2> HIDE DEF log
  <2>6. PICK b : b = [a EXCEPT !.at = "persist", !.log = log]
    OBVIOUS
  <2>7. log \in Logs
    BY <2>5 DEF TrueLogs, Logs, TrueOutcomes
  <2>8. /\ b \in AgentRecords /\ b.at = "persist" /\ b.op = a.op /\ b.pr = a.pr /\ b.seen = a.seen /\ b.report = a.report
        /\ b.entry = a.entry /\ b.log = log
    BY <2>6, <2>7 DEF AgentRecords, Stages, Concluding
  <2>9. agent' = [agent EXCEPT ![p] = b]
    <3>1. agent \in [Process -> AgentRecords]
      BY DEF PrInv, TrueAgents
    <3> QED BY <1>1, <2>1, <2>6, <3>1 DEF AgentRecords
  <2>10. b.at \notin Asking /\ InPlace(b)
    BY <1>1, <2>1, <2>8 DEF InPlace, Asking, Deciding, Reading, Writing, Concluding
  <2>11. HandsTrue(b)
    BY <1>1, <2>1, <2>2, <2>5, <2>8 DEF HandsTrue, Deciding, Reading, Writing, Concluding
  <2> QED BY <2>1, <2>8, <2>9, <2>10, <2>11, FilesTrue, Onward DEF fileVars
<1>3. CASE PersistOutcome(p)
  <2>1. /\ a.at = "persist" /\ history' = a.log /\ Quit(p)
        /\ UNCHANGED <<remote, prFile, prTmp, linked, historyTmp, report>>
    BY <1>1, <1>3 DEF PersistOutcome
  <2>2. history' \in TrueLogs \cup {Absent}
    BY <1>1, <2>1 DEF HandsTrue
  <2> QED BY <2>1, <2>2, FilesTrue, CommandEnds
<1> QED BY <1>2, <1>3

LEMMA CrashAgentStep ==
    ASSUME PrInv, UNCHANGED env, env.part = "pullRequest", NEW p \in Process, CrashAgent(p)
    PROVE  PrInv'
<1>1. /\ Quit(p) /\ UNCHANGED <<remote, prFile, prTmp, linked, history, historyTmp>>
      /\ report' \in {report, Torn}
  BY DEF CrashAgent
<1> QED BY <1>1, FilesTrue, CommandEnds

LEMMA CreatePrStep ==
    ASSUME PrInv, UNCHANGED env, env.part = "pullRequest", NEW p \in Process, CreatePr(p)
    PROVE  PrInv'
<1>1. PICK a \in AgentRecords : a = agent[p] /\ InPlace(a) /\ HandsTrue(a)
  BY EntryOf
<1>2. PICK draft \in BOOLEAN : \E r \in createPullRequest(draft) :
        /\ remote' = r.remote
        /\ \/ /\ r.ok
              /\ \E ask \in {{}, Reviewer} :
                    agent' = [agent EXCEPT ![p].at = IF ask = {} THEN "tmp" ELSE "ask", ![p].ask = ask,
                                           ![p].pr = Metadata(r.remote.head, ask), ![p].entry = "pr_created"]
           \/ ~r.ok /\ Quit(p)
  BY DEF CreatePr
<1> DEFINE possible == remote.state = "none"
           after == [remote EXCEPT !.state = "open", !.draft = draft]
<1>3. PICK r \in Results(possible, after) :
        /\ remote' = r.remote
        /\ \/ /\ r.ok
              /\ \E ask \in {{}, Reviewer} :
                    agent' = [agent EXCEPT ![p].at = IF ask = {} THEN "tmp" ELSE "ask", ![p].ask = ask,
                                           ![p].pr = Metadata(r.remote.head, ask), ![p].entry = "pr_created"]
           \/ ~r.ok /\ Quit(p)
  BY <1>2 DEF createPullRequest
<1>4. a.at = "create" /\ UNCHANGED fileVars /\ RemoteTyped
  BY <1>1 DEF CreatePr, Calling, PrInv
<1>5. /\ r.ok => r.remote = after
      /\ remote' = remote \/ (possible /\ remote' = after)
  <2> HIDE DEF possible, after
  <2>1. possible \in BOOLEAN
    BY DEF possible
  <2> QED BY <1>3, <2>1, ResultsAre
<1>6. RemoteTyped' /\ StatusOrder' /\ Grown
  <2>1. CASE remote' = remote
    BY <2>1, SameGrows
  <2>2. CASE possible /\ remote' = after
    <3>1. RemoteTyped'
      BY <1>4, <2>2 DEF RemoteTyped
    <3>2. /\ remote'.head = remote.head /\ remote'.statuses = remote.statuses /\ remote'.run = remote.run
          /\ remote'.reviews = remote.reviews /\ remote'.base = remote.base /\ remote'.contains = remote.contains
          /\ remote'.requested = remote.requested /\ remote'.auto = remote.auto /\ remote'.dispatched = remote.dispatched
          /\ remote.state = "none" /\ remote'.state = "open"
      BY <1>4, <2>2 DEF RemoteTyped
    <3> QED BY <3>1, <3>2, CallGrows
  <2> QED BY <1>5, <2>1, <2>2
<1>7. CASE Quit(p)
  <2>1. Idle \in TrueAgents /\ TrueAgents \subseteq TrueAgents'
    BY <1>4, <1>6, IdleTrue, TruthStays
  <2> QED BY <1>4, <1>6, <1>7, <2>1, RemoteAgent DEF Quit
<1>8. CASE ~Quit(p)
  <2>1. remote' = after
    BY <1>3, <1>5, <1>8
  <2>2. remote'.state # "none" /\ remote'.requested = remote.requested /\ remote'.head = remote.head /\ remote.head \in Sha
    BY <1>4, <2>1 DEF RemoteTyped
  <2>3. PICK ask \in {{}, Reviewer} :
            agent' = [agent EXCEPT ![p].at = IF ask = {} THEN "tmp" ELSE "ask", ![p].ask = ask,
                                   ![p].pr = Metadata(remote'.head, ask), ![p].entry = "pr_created"]
    BY <1>3, <1>8
  <2>4. PICK at \in {"tmp", "ask"} : at = IF ask = {} THEN "tmp" ELSE "ask"
    OBVIOUS
  <2>5. PICK m \in PrMetadata : m = Metadata(remote'.head, ask) /\ m.head = remote'.head /\ m.requested = ask
    <3>1. PICK h : h = remote'.head
      OBVIOUS
    <3>2. h \in Sha /\ ask \in SUBSET Reviewer
      BY <2>2, <3>1
    <3>3. Metadata(h, ask) \in PrMetadata /\ Metadata(h, ask).head = h /\ Metadata(h, ask).requested = ask
      BY <3>2 DEF Metadata, PrMetadata
    <3> QED BY <3>1, <3>3
  <2>6. PICK b : b = [a EXCEPT !.at = at, !.ask = ask, !.pr = m, !.entry = "pr_created"]
    OBVIOUS
  <2>7. /\ b \in AgentRecords /\ b.at = at /\ b.op = a.op /\ b.ask = ask /\ b.pr = m /\ b.entry = "pr_created"
        /\ b.seen = a.seen /\ b.report = a.report /\ b.log = a.log
    <3>1. at \in Stages /\ "pr_created" \in Entries
      BY DEF Stages, Writing, Entries
    <3> QED BY <2>5, <2>6, <3>1 DEF AgentRecords
  <2>8. agent' = [agent EXCEPT ![p] = b]
    <3>1. agent \in [Process -> AgentRecords]
      BY DEF PrInv, TrueAgents
    <3> QED BY <1>1, <2>3, <2>4, <2>5, <2>6, <3>1 DEF AgentRecords
  <2>9. /\ b \in AgentRecords' /\ TrueReports \subseteq TrueReports' /\ TrueLogs \subseteq TrueLogs'
    <3>1. b \in AgentRecords'
      BY <2>7 DEF AgentRecords, PrMetadata, SeenRecords, OutcomeRecords, Reports, Logs, Facts, Sha, Entries, Absent
    <3> QED BY <1>4, <1>6, <3>1, TruthStays
  <2>10. InPlace(b)' /\ FactsTrue(b)'
    BY <1>1, <1>4, <2>4, <2>7 DEF InPlace, FactsTrue, Asking, Reading, Writing, Deciding, Concluding
  <2>11. HandsTrue(b)'
    <3>1. m # Absent /\ m.head <= remote'.head
      <4>1. remote.head \in Nat
        BY <2>2, Commits
      <4> QED BY <2>2, <2>5, <4>1 DEF PrMetadata, Absent
    <3>2. b.at = "ask" => m.requested \subseteq remote'.requested \cup b.ask
      BY <2>5, <2>7
    <3>3. b.at # "ask" => m \in TruePrs'
      <4>1. m.requested = {} \/ b.at = "ask"
        BY <2>4, <2>5, <2>7
      <4>2. m \in PrMetadata'
        BY <2>5 DEF PrMetadata, Sha
      <4> QED BY <2>2, <3>1, <4>1, <4>2 DEF TruePrs
    <3>4. b.seen.head <= remote'.head
      BY <1>1, <2>2, <2>7 DEF HandsTrue
    <3>5. b.report \in TrueReports' /\ b.log \in TrueLogs' \cup {Absent}
      BY <1>1, <2>7, <2>9 DEF HandsTrue
    <3>6. b.at \in {"tmp", "ask"} /\ b.op # "status" /\ "pr_created" \in Entries'
      BY <1>1, <1>4, <2>7 DEF InPlace, Reading, Writing, Deciding, Concluding, Asking, Entries
    <3> QED BY <2>2, <2>7, <3>1, <3>2, <3>3, <3>4, <3>5, <3>6 DEF HandsTrue, Reading, Writing, Deciding, Concluding
  <2>12. b \in TrueAgents'
    BY <2>9, <2>10, <2>11 DEF TrueAgents
  <2> QED BY <1>4, <1>6, <2>8, <2>12, RemoteAgent
<1> QED BY <1>7, <1>8

LEMMA AskReviewersStep ==
    ASSUME PrInv, UNCHANGED env, env.part = "pullRequest", NEW p \in Process, AskReviewers(p)
    PROVE  PrInv'
<1>1. PICK a \in AgentRecords : a = agent[p] /\ InPlace(a) /\ HandsTrue(a)
  BY EntryOf
<1> DEFINE possible == remote.state # "none"
           after == [remote EXCEPT !.requested = remote.requested \cup a.ask]
<1>2. PICK r \in Results(possible, after) :
        /\ remote' = r.remote
        /\ \/ /\ r.ok
              /\ agent' = [agent EXCEPT ![p].at = "tmp", ![p].pr.requested = @ \cup agent[p].ask,
                                        ![p].entry = IF @ = "none" THEN "reviewers_requested" ELSE @]
           \/ ~r.ok /\ Quit(p)
  BY <1>1 DEF AskReviewers, requestReviewers
<1>3. a.at = "ask" /\ UNCHANGED fileVars /\ RemoteTyped /\ a.ask \in SUBSET Reviewer
  BY <1>1 DEF AskReviewers, Calling, PrInv, AgentRecords
<1>4. /\ r.ok => r.remote = after
      /\ remote' = remote \/ (possible /\ remote' = after)
  <2> HIDE DEF possible, after
  <2>1. possible \in BOOLEAN
    BY DEF possible
  <2> QED BY <1>2, <2>1, ResultsAre
<1>5. RemoteTyped' /\ StatusOrder' /\ Grown
  <2>1. CASE remote' = remote
    BY <2>1, SameGrows
  <2>2. CASE possible /\ remote' = after
    <3>1. RemoteTyped'
      BY <1>3, <2>2 DEF RemoteTyped
    <3>2. /\ remote'.head = remote.head /\ remote'.statuses = remote.statuses /\ remote'.run = remote.run
          /\ remote'.reviews = remote.reviews /\ remote'.base = remote.base /\ remote'.contains = remote.contains
          /\ remote.requested \subseteq remote'.requested /\ remote'.auto = remote.auto /\ remote'.dispatched = remote.dispatched
          /\ remote'.state = remote.state /\ remote'.merged = remote.merged
      BY <1>3, <2>2 DEF RemoteTyped
    <3> QED BY <3>1, <3>2, CallGrows
  <2> QED BY <1>4, <2>1, <2>2
<1>6. CASE Quit(p)
  <2>1. Idle \in TrueAgents /\ TrueAgents \subseteq TrueAgents'
    BY <1>3, <1>5, IdleTrue, TruthStays
  <2> QED BY <1>3, <1>5, <1>6, <2>1, RemoteAgent DEF Quit
<1>7. CASE ~Quit(p)
  <2>1. remote' = after
    BY <1>2, <1>4, <1>7
  <2>2. remote'.state = remote.state /\ remote'.requested = remote.requested \cup a.ask /\ remote'.head = remote.head
    BY <1>3, <2>1 DEF RemoteTyped
  <2>3. a.pr \in PrMetadata
    BY <1>1, <1>3 DEF HandsTrue, AgentRecords
  <2>4. PICK m \in PrMetadata : m = [a.pr EXCEPT !.requested = @ \cup a.ask] /\ m.head = a.pr.head
                                /\ m.requested = a.pr.requested \cup a.ask
    <3>1. PICK pr \in PrMetadata : pr = a.pr
      BY <2>3
    <3>2. PICK m : m = [pr EXCEPT !.requested = pr.requested \cup a.ask]
      OBVIOUS
    <3>3. m \in PrMetadata /\ m.head = pr.head /\ m.requested = pr.requested \cup a.ask
      BY <1>3, <3>2 DEF PrMetadata
    <3> QED BY <3>1, <3>2, <3>3
  <2>5. a.entry \in {"none"} \cup Entries
    BY <1>1, <1>3 DEF HandsTrue
  <2>6. PICK entry \in Entries : entry = IF a.entry = "none" THEN "reviewers_requested" ELSE a.entry
    BY <2>5 DEF Entries
  <2>7. PICK b : b = [a EXCEPT !.at = "tmp", !.pr = m, !.entry = entry]
    OBVIOUS
  <2>8. /\ b \in AgentRecords /\ b.at = "tmp" /\ b.op = a.op /\ b.ask = a.ask /\ b.pr = m /\ b.entry = entry
        /\ b.seen = a.seen /\ b.report = a.report /\ b.log = a.log
    <3>1. "tmp" \in Stages
      BY DEF Stages, Writing
    <3> QED BY <2>7, <3>1 DEF AgentRecords
  <2>9. agent' = [agent EXCEPT ![p] = b]
    <3>1. agent \in [Process -> AgentRecords]
      BY DEF PrInv, TrueAgents
    <3>2. agent' = [agent EXCEPT ![p].at = "tmp", ![p].pr.requested = @ \cup agent[p].ask,
                                 ![p].entry = IF @ = "none" THEN "reviewers_requested" ELSE @]
      BY <1>2, <1>7
    <3> QED BY <1>1, <2>4, <2>6, <2>7, <3>1, <3>2 DEF AgentRecords
  <2>10. /\ b \in AgentRecords' /\ TrueReports \subseteq TrueReports' /\ TrueLogs \subseteq TrueLogs'
    <3>1. b \in AgentRecords'
      BY <2>8 DEF AgentRecords, PrMetadata, SeenRecords, OutcomeRecords, Reports, Logs, Facts, Sha, Entries, Absent
    <3> QED BY <1>3, <1>5, <3>1, TruthStays
  <2>11. InPlace(b)' /\ FactsTrue(b)' /\ b.op # "status"
    BY <1>1, <1>3, <2>8 DEF InPlace, FactsTrue, Asking, Reading, Writing, Deciding, Concluding
  <2>12. HandsTrue(b)'
    <3>1. m \in TruePrs' /\ m # Absent
      <4>1. m \in PrMetadata' /\ m # Absent
        BY <2>4 DEF PrMetadata, Sha, Absent
      <4>2. remote'.state # "none" /\ m.head <= remote'.head /\ m.requested \subseteq remote'.requested
        BY <1>1, <1>3, <2>2, <2>4 DEF HandsTrue
      <4> QED BY <4>1, <4>2 DEF TruePrs
    <3>2. b.seen.head <= remote'.head
      BY <1>1, <2>2, <2>8 DEF HandsTrue
    <3>3. b.report \in TrueReports' /\ b.log \in TrueLogs' \cup {Absent}
      BY <1>1, <2>8, <2>10 DEF HandsTrue
    <3>4. entry \in Entries'
      BY <2>6 DEF Entries
    <3> QED BY <2>8, <2>11, <3>1, <3>2, <3>3, <3>4 DEF HandsTrue, Reading, Writing, Deciding, Concluding
  <2>13. b \in TrueAgents'
    BY <2>10, <2>11, <2>12 DEF TrueAgents
  <2> QED BY <1>3, <1>5, <2>9, <2>13, RemoteAgent
<1> QED BY <1>6, <1>7
\* What developers, reviewers, checks and GitHub itself do.
LEMMA LastOrBefore == ASSUME NEW n \in Nat, NEW j \in 1..(n + 1) PROVE j = n + 1 \/ j \in 1..n
OBVIOUS

LEMMA ReviewGrows ==
    ASSUME RemoteTyped, UNCHANGED env, NEW user \in Reviewer, NEW state \in {"APPROVED", "COMMENTED"},
           remote'.reviews = Append(remote.reviews, [user |-> user, state |-> state])
    PROVE  ReviewsGood => ReviewsGood'
<1> DEFINE review == [user |-> user, state |-> state]
           old == {u \in Reviewer : Approves(u)}
           new == {u \in Reviewer : Approves(u)'}
<1>1. PICK reviews \in Seq([user : Reviewer, state : {"APPROVED", "COMMENTED", "CHANGES_REQUESTED"}]) : reviews = remote.reviews
  BY DEF RemoteTyped
<1>2. PICK n \in Nat : n = Len(reviews) /\ DOMAIN reviews = 1..n
  BY <1>1
<1>3. PICK after : /\ after = remote'.reviews /\ DOMAIN after = 1..(n + 1) /\ after[n + 1] = review
                   /\ \A i \in 1..n : after[i] = reviews[i]
  <2>1. Append(reviews, review) \in Seq([user : Reviewer, state : {"APPROVED", "COMMENTED", "CHANGES_REQUESTED"}])
    BY <1>1
  <2>2. /\ Len(Append(reviews, review)) = n + 1 /\ Append(reviews, review)[n + 1] = review
        /\ \A i \in 1..n : Append(reviews, review)[i] = reviews[i]
        /\ DOMAIN Append(reviews, review) = 1..(n + 1)
    BY <1>1, <1>2
  <2> QED BY <1>1, <2>2
<1>4. review.user = user /\ review.state = state
  OBVIOUS
<1> HIDE DEF review
<1>5. ASSUME NEW u \in Reviewer, Approves(u) PROVE Approves(u)'
  <2>1. PICK i \in 1..n : /\ reviews[i].user = u /\ reviews[i].state = "APPROVED"
                          /\ \A j \in 1..n : j > i /\ reviews[j].user = u => reviews[j].state = "COMMENTED"
    BY <1>1, <1>2, <1>5 DEF Approves
  <2>2. CASE u = user /\ state = "APPROVED"
    <3>1. /\ n + 1 \in 1..(n + 1) /\ after[n + 1].user = u /\ after[n + 1].state = "APPROVED"
          /\ \A j \in 1..(n + 1) : ~(j > n + 1)
      BY <1>2, <1>3, <1>4, <2>2
    <3> QED BY <1>3, <3>1 DEF Approves
  <2>3. CASE ~(u = user /\ state = "APPROVED")
    <3>1. i \in 1..(n + 1) /\ after[i].user = u /\ after[i].state = "APPROVED"
      BY <1>2, <1>3, <2>1
    <3>2. ASSUME NEW j \in 1..(n + 1), j > i, after[j].user = u PROVE after[j].state = "COMMENTED"
      <4>1. CASE j = n + 1
        BY <1>3, <1>4, <2>3, <3>2, <4>1
      <4>2. CASE j \in 1..n
        BY <1>3, <2>1, <3>2, <4>2
      <4>3. j = n + 1 \/ j \in 1..n
        BY LastOrBefore
      <4> QED BY <4>1, <4>2, <4>3
    <3> QED BY <1>3, <3>1, <3>2 DEF Approves
  <2> QED BY <2>2, <2>3
<1>6. Cardinality(old) <= Cardinality(new) /\ Cardinality(old) \in Nat /\ Cardinality(new) \in Nat
  <2>1. old \subseteq new /\ new \subseteq Reviewer
    BY <1>5
  <2>2. IsFiniteSet(Reviewer)
    BY GitHubSettings
  <2> HIDE DEF old, new
  <2>3. IsFiniteSet(new)
    BY <2>1, <2>2, FS_Subset
  <2>4. IsFiniteSet(old) /\ Cardinality(old) <= Cardinality(new)
    BY <2>1, <2>3, FS_Subset
  <2> QED BY <2>3, <2>4, FS_CardinalityType
<1>7. env.rules.reviews \in Nat
  BY GitHubSettings DEF RemoteTyped
<1>8. ReviewsGood => Cardinality(old) >= env.rules.reviews
  BY DEF ReviewsGood
<1>9. Cardinality(new) >= env.rules.reviews => ReviewsGood'
  BY DEF ReviewsGood
<1> QED BY <1>6, <1>7, <1>8, <1>9

LEMMA CheckGrows ==
    ASSUME RemoteTyped, StatusOrder, UNCHANGED env, NEW sha \in Sha, NEW result \in Statuses,
           "regress" \notin env.events, ~Succeeded(remote.statuses[sha]), remote'.run = remote.run,
           remote'.statuses = [remote.statuses EXCEPT ![sha] = Append(@, result)]
    PROVE  StatusOrder' /\ \A s \in Sha : ChecksGood(s) => ChecksGood(s)'
<1>1. PICK old \in Seq(Statuses) : old = remote.statuses[sha]
  BY DEF RemoteTyped
<1>2. PICK n \in Nat : n = Len(old) /\ DOMAIN old = 1..n
  BY <1>1
<1>3. PICK new : /\ new = remote'.statuses[sha] /\ Len(new) = n + 1 /\ DOMAIN new = 1..(n + 1) /\ new[n + 1] = result
                 /\ \A i \in 1..n : new[i] = old[i]
  <2>1. /\ Len(Append(old, result)) = n + 1 /\ Append(old, result)[n + 1] = result
        /\ \A i \in 1..n : Append(old, result)[i] = old[i]
        /\ DOMAIN Append(old, result) = 1..(n + 1)
    BY <1>1, <1>2
  <2>2. remote'.statuses[sha] = Append(old, result)
    BY <1>1 DEF RemoteTyped
  <2> QED BY <2>1, <2>2
<1>4. \A i \in 1..n : old[i] # "success"
  BY <1>1, <1>2 DEF Succeeded
<1>5. \A s \in Sha : s # sha => remote'.statuses[s] = remote.statuses[s]
  BY DEF RemoteTyped
<1>6. StatusOrder'
  <2>1. ASSUME NEW s \in Sha, Succeeded(remote'.statuses[s])
        PROVE  remote'.statuses[s][Len(remote'.statuses[s])] = "success"
    <3>1. CASE s = sha
      <4>1. PICK i \in 1..(n + 1) : new[i] = "success"
        BY <1>3, <2>1, <3>1 DEF Succeeded
      <4>2. i = n + 1
        BY <1>2, <1>3, <1>4, <4>1
      <4> QED BY <1>3, <3>1, <4>1, <4>2
    <3>2. CASE s # sha
      BY <1>5, <2>1, <3>2 DEF StatusOrder
    <3> QED BY <3>1, <3>2
  <2> QED BY <2>1 DEF StatusOrder, Sha, Succeeded
<1>7. ASSUME NEW s \in Sha, ChecksGood(s) PROVE ChecksGood(s)'
  <2>1. CASE s = sha
    <3>1. old # <<>> => old[Len(old)] # "success"
      <4>1. old # <<>> => n \in 1..n
        BY <1>1, <1>2
      <4> QED BY <1>2, <1>4, <4>1
    <3> QED BY <1>1, <1>7, <2>1, <3>1 DEF ChecksGood
  <2>2. CASE s # sha
    BY <1>5, <1>7, <2>2 DEF ChecksGood
  <2> QED BY <2>1, <2>2
<1> QED BY <1>6, <1>7

LEMMA OthersGrow ==
    ASSUME PrInv, UNCHANGED env, Others
    PROVE  RemoteTyped' /\ StatusOrder' /\ Grown
<1>1. RemoteTyped /\ StatusOrder /\ remote.state = "open" /\ remote.head \in Sha /\ remote.head \in Nat /\ MaxSha \in Nat
  BY Commits, GitHubSettings DEF Others, PrInv, RemoteTyped
<1>2. CASE /\ remote.head < MaxSha
           /\ remote' = [remote EXCEPT !.head = @ + 1, !.contains[remote.head + 1] = remote.base]
  <2>1. PICK h \in Sha : h = remote.head + 1
    BY <1>1, <1>2 DEF Sha
  <2>2. remote' = [remote EXCEPT !.head = h, !.contains = [remote.contains EXCEPT ![h] = remote.base]]
    BY <1>1, <1>2, <2>1 DEF RemoteTyped
  <2>3. PICK contains \in [Sha -> 0..1] : /\ contains = [remote.contains EXCEPT ![h] = remote.base]
                                          /\ \A sha \in Sha : sha # h => contains[sha] = remote.contains[sha]
    <3>1. [remote.contains EXCEPT ![h] = remote.base] \in [Sha -> 0..1]
      BY <1>1 DEF RemoteTyped
    <3>2. \A sha \in Sha : sha # h => [remote.contains EXCEPT ![h] = remote.base][sha] = remote.contains[sha]
      BY <1>1 DEF RemoteTyped
    <3> QED BY <3>1, <3>2
  <2>4. remote' = [remote EXCEPT !.head = h, !.contains = contains]
    BY <2>2, <2>3
  <2>5. RemoteTyped'
    BY <1>1, <2>4 DEF RemoteTyped
  <2>6. /\ remote'.head = h /\ remote'.statuses = remote.statuses /\ remote'.run = remote.run
        /\ remote'.reviews = remote.reviews /\ remote'.base = remote.base /\ remote'.contains = contains
        /\ remote'.requested = remote.requested /\ remote'.auto = remote.auto /\ remote'.dispatched = remote.dispatched
        /\ remote'.state = "open" /\ remote'.merged = remote.merged
    BY <1>1, <2>4 DEF RemoteTyped
  <2>7. StatusOrder'
    BY <1>1, <2>6 DEF StatusOrder
  <2>8. \A sha \in Sha : (ChecksGood(sha) => ChecksGood(sha)')
    BY <2>6 DEF ChecksGood
  <2>9. ReviewsGood => ReviewsGood'
    BY <2>6 DEF ReviewsGood, Approves
  <2>10. ASSUME NEW sha \in Sha, sha <= remote.head, Behind(sha) PROVE Behind(sha)'
    <3>1. sha # ByName /\ sha # h
      BY <1>1, <2>1, <2>10, Commits
    <3> QED BY <2>3, <2>6, <2>10, <3>1 DEF Behind
  <2>11. remote.head <= remote'.head
    BY <1>1, <2>1, <2>6
  <2> QED BY <1>1, <2>5, <2>6, <2>7, <2>8, <2>9, <2>10, <2>11 DEF Grown
<1>3. CASE remote.base = 0 /\ remote' = [remote EXCEPT !.base = 1]
  <2>1. RemoteTyped'
    <3>1. PICK one \in 0..1 : one = 1
      OBVIOUS
    <3>2. remote' = [remote EXCEPT !.base = one]
      BY <1>3, <3>1
    <3> QED BY <1>1, <3>2 DEF RemoteTyped
  <2>2. /\ remote'.head = remote.head /\ remote'.statuses = remote.statuses /\ remote'.run = remote.run
        /\ remote'.reviews = remote.reviews /\ remote'.base = 1 /\ remote'.contains = remote.contains
        /\ remote'.requested = remote.requested /\ remote'.auto = remote.auto /\ remote'.dispatched = remote.dispatched
        /\ remote'.state = "open" /\ remote'.merged = remote.merged
    BY <1>1, <1>3 DEF RemoteTyped
  <2>3. StatusOrder'
    BY <1>1, <2>2 DEF StatusOrder
  <2>4. \A sha \in Sha : (ChecksGood(sha) => ChecksGood(sha)')
    BY <2>2 DEF ChecksGood
  <2>5. ReviewsGood => ReviewsGood'
    BY <2>2 DEF ReviewsGood, Approves
  <2>6. ASSUME NEW sha \in Sha PROVE ~Behind(sha)
    <3>1. remote.contains \in [Sha -> 0..1]
      BY <1>1 DEF RemoteTyped
    <3> QED BY <1>1, <1>3, <3>1 DEF Behind
  <2>7. remote.head <= remote'.head
    BY <1>1, <2>2
  <2> QED BY <1>1, <2>1, <2>2, <2>3, <2>4, <2>5, <2>6, <2>7 DEF Grown
<1>4. ASSUME NEW sha \in Sha, NEW result \in {"success", "failure"},
             "regress" \in env.events \/ ~Succeeded(remote.statuses[sha]),
             remote' = [remote EXCEPT !.statuses[sha] = Append(@, result)]
      PROVE  RemoteTyped' /\ StatusOrder' /\ Grown
  <2>1. remote.statuses[sha] \in Seq(Statuses) /\ result \in Statuses
    BY <1>1 DEF RemoteTyped, Statuses
  <2>2. PICK list \in Seq(Statuses) : list = Append(remote.statuses[sha], result)
    <3>1. Append(remote.statuses[sha], result) \in Seq(Statuses)
      BY <2>1
    <3> QED BY <3>1
  <2>3. PICK statuses \in [Sha -> Seq(Statuses)] : statuses = [remote.statuses EXCEPT ![sha] = list]
    BY <1>1 DEF RemoteTyped
  <2>4. remote' = [remote EXCEPT !.statuses = statuses]
    BY <1>1, <1>4, <2>2, <2>3 DEF RemoteTyped
  <2>5. RemoteTyped'
    BY <1>1, <2>4 DEF RemoteTyped
  <2>6. /\ remote'.head = remote.head /\ remote'.statuses = statuses /\ remote'.run = remote.run
        /\ remote'.reviews = remote.reviews /\ remote'.base = remote.base /\ remote'.contains = remote.contains
        /\ remote'.requested = remote.requested /\ remote'.auto = remote.auto /\ remote'.dispatched = remote.dispatched
        /\ remote'.state = "open" /\ remote'.merged = remote.merged
    BY <1>1, <2>4 DEF RemoteTyped
  <2>7. /\ StatusOrder'
        /\ "regress" \notin env.events => \A s \in Sha : ChecksGood(s) => ChecksGood(s)'
    <3>1. CASE "regress" \in env.events
      BY <3>1 DEF StatusOrder
    <3>2. CASE "regress" \notin env.events
      <4>1. remote'.statuses = [remote.statuses EXCEPT ![sha] = Append(@, result)]
        BY <2>2, <2>3, <2>6
      <4> QED BY <1>1, <1>4, <2>1, <2>6, <3>2, <4>1, CheckGrows
    <3> QED BY <3>1, <3>2
  <2>8. ReviewsGood => ReviewsGood'
    BY <2>6 DEF ReviewsGood, Approves
  <2>9. \A s \in Sha : Behind(s) => Behind(s)'
    BY <2>6 DEF Behind
  <2>10. remote.head <= remote'.head
    BY <1>1, <2>6
  <2> QED BY <1>1, <2>5, <2>6, <2>7, <2>8, <2>9, <2>10 DEF Grown
<1>5. ASSUME NEW result \in {"success", "failure", "pending"}, remote.run[remote.head] = "none",
             remote' = [remote EXCEPT !.run[remote.head] = result]
      PROVE  RemoteTyped' /\ StatusOrder' /\ Grown
  <2>1. PICK run \in [Sha -> {"none", "success", "failure", "pending"}] :
            run = [remote.run EXCEPT ![remote.head] = result] /\ \A sha \in Sha : remote.run[sha] = "success" => run[sha] = "success"
    <3>1. PICK old \in [Sha -> {"none", "success", "failure", "pending"}] : old = remote.run
      BY <1>1 DEF RemoteTyped
    <3>2. [old EXCEPT ![remote.head] = result] \in [Sha -> {"none", "success", "failure", "pending"}]
      BY <3>1
    <3>3. \A sha \in Sha : old[sha] = "success" => [old EXCEPT ![remote.head] = result][sha] = "success"
      BY <1>1, <1>5, <3>1
    <3> QED BY <3>1, <3>2, <3>3
  <2>2. remote' = [remote EXCEPT !.run = run]
    BY <1>1, <1>5, <2>1 DEF RemoteTyped
  <2>3. RemoteTyped'
    BY <1>1, <2>2 DEF RemoteTyped
  <2>4. /\ remote'.head = remote.head /\ remote'.statuses = remote.statuses /\ remote'.run = run
        /\ remote'.reviews = remote.reviews /\ remote'.base = remote.base /\ remote'.contains = remote.contains
        /\ remote'.requested = remote.requested /\ remote'.auto = remote.auto /\ remote'.dispatched = remote.dispatched
        /\ remote'.state = "open" /\ remote'.merged = remote.merged
    BY <1>1, <2>2 DEF RemoteTyped
  <2>5. StatusOrder'
    BY <1>1, <2>4 DEF StatusOrder
  <2>6. \A sha \in Sha : (ChecksGood(sha) => ChecksGood(sha)')
    BY <2>1, <2>4 DEF ChecksGood
  <2>7. ReviewsGood => ReviewsGood'
    BY <2>4 DEF ReviewsGood, Approves
  <2>8. \A s \in Sha : Behind(s) => Behind(s)'
    BY <2>4 DEF Behind
  <2>9. remote.head <= remote'.head
    BY <1>1, <2>4
  <2> QED BY <1>1, <2>3, <2>4, <2>5, <2>6, <2>7, <2>8, <2>9 DEF Grown
<1>6. ASSUME NEW user \in Reviewer, NEW state \in {"APPROVED", "COMMENTED", "CHANGES_REQUESTED"},
             "regress" \notin env.events => state # "CHANGES_REQUESTED",
             remote' = [remote EXCEPT !.reviews = Append(@, [user |-> user, state |-> state])]
      PROVE  RemoteTyped' /\ StatusOrder' /\ Grown
  <2>1. PICK reviews \in Seq([user : Reviewer, state : {"APPROVED", "COMMENTED", "CHANGES_REQUESTED"}]) :
            reviews = Append(remote.reviews, [user |-> user, state |-> state])
    <3>1. [user |-> user, state |-> state] \in [user : Reviewer, state : {"APPROVED", "COMMENTED", "CHANGES_REQUESTED"}]
      OBVIOUS
    <3>2. remote.reviews \in Seq([user : Reviewer, state : {"APPROVED", "COMMENTED", "CHANGES_REQUESTED"}])
      BY <1>1 DEF RemoteTyped
    <3>3. Append(remote.reviews, [user |-> user, state |-> state])
            \in Seq([user : Reviewer, state : {"APPROVED", "COMMENTED", "CHANGES_REQUESTED"}])
      BY <3>1, <3>2
    <3> QED BY <3>3
  <2>2. remote' = [remote EXCEPT !.reviews = reviews]
    BY <1>6, <2>1
  <2>3. RemoteTyped'
    BY <1>1, <2>2 DEF RemoteTyped
  <2>4. /\ remote'.head = remote.head /\ remote'.statuses = remote.statuses /\ remote'.run = remote.run
        /\ remote'.reviews = reviews /\ remote'.base = remote.base /\ remote'.contains = remote.contains
        /\ remote'.requested = remote.requested /\ remote'.auto = remote.auto /\ remote'.dispatched = remote.dispatched
        /\ remote'.state = "open" /\ remote'.merged = remote.merged
    BY <1>1, <2>2 DEF RemoteTyped
  <2>5. StatusOrder'
    BY <1>1, <2>4 DEF StatusOrder
  <2>6. \A sha \in Sha : (ChecksGood(sha) => ChecksGood(sha)')
    BY <2>4 DEF ChecksGood
  <2>7. "regress" \notin env.events => (ReviewsGood => ReviewsGood')
    BY <1>1, <1>6, <2>1, <2>4, ReviewGrows
  <2>8. \A s \in Sha : Behind(s) => Behind(s)'
    BY <2>4 DEF Behind
  <2>9. remote.head <= remote'.head
    BY <1>1, <2>4
  <2> QED BY <1>1, <2>3, <2>4, <2>5, <2>6, <2>7, <2>8, <2>9 DEF Grown
<1>7. ASSUME \/ remote' = [remote EXCEPT !.state = "closed"]
             \/ remote' = [remote EXCEPT !.mergeable = ~@]
             \/ remote' = [remote EXCEPT !.draft = FALSE]
             \/ remote' = [remote EXCEPT !.state = "merged", !.merged = remote.head]
      PROVE  RemoteTyped' /\ StatusOrder' /\ Grown
  <2>1. remote.head \in 0..MaxSha
    BY <1>1, Commits
  <2>2. RemoteTyped'
    BY <1>1, <1>7, <2>1 DEF RemoteTyped
  <2>3. /\ remote'.head = remote.head /\ remote'.statuses = remote.statuses /\ remote'.run = remote.run
        /\ remote'.reviews = remote.reviews /\ remote'.base = remote.base /\ remote'.contains = remote.contains
        /\ remote'.requested = remote.requested /\ remote'.auto = remote.auto /\ remote'.dispatched = remote.dispatched
        /\ remote'.state \in {"open", "closed", "merged"}
    BY <1>1, <1>7 DEF RemoteTyped
  <2> QED BY <1>1, <2>2, <2>3, CallGrows
<1>8. \A state \in {"APPROVED", "COMMENTED"} \cup (IF "regress" \in env.events THEN {"CHANGES_REQUESTED"} ELSE {}) :
        /\ state \in {"APPROVED", "COMMENTED", "CHANGES_REQUESTED"}
        /\ "regress" \notin env.events => state # "CHANGES_REQUESTED"
  OBVIOUS
<1> QED BY <1>2, <1>3, <1>4, <1>5, <1>6, <1>7, <1>8 DEF Others

LEMMA OthersStep ==
    ASSUME PrInv, UNCHANGED <<env, fileVars, agent>>, env.part = "pullRequest", Others
    PROVE  PrInv'
<1>1. RemoteTyped' /\ StatusOrder' /\ Grown
  BY OthersGrow
<1>2. TrueAgents \subseteq TrueAgents'
  BY <1>1, TruthStays DEF PrInv
<1> QED BY <1>1, <1>2, RemoteStep DEF PrInv
LEMMA PrStep == PrInv /\ [Next]_vars => PrInv'
<1> SUFFICES ASSUME PrInv, [Next]_vars PROVE PrInv'
  OBVIOUS
<1>1. CASE UNCHANGED vars
  <2>1. UNCHANGED <<env, remote, fileVars, agent>>
    BY <1>1 DEF vars, deployVars, prVars
  <2>2. RemoteTyped' /\ StatusOrder' /\ TruePrs' = TruePrs /\ TrueReports' = TrueReports /\ TrueLogs' = TrueLogs
        /\ TrueAgents' = TrueAgents
    BY <2>1, TruthSame DEF PrInv
  <2> QED BY <2>1, <2>2 DEF PrInv, fileVars
<1>2. CASE env.part # "pullRequest" /\ UNCHANGED <<prVars, env>>
  <2>1. UNCHANGED <<env, remote, fileVars, agent>>
    BY <1>2 DEF prVars
  <2>2. RemoteTyped' /\ StatusOrder' /\ TruePrs' = TruePrs /\ TrueReports' = TrueReports /\ TrueLogs' = TrueLogs
        /\ TrueAgents' = TrueAgents
    BY <2>1, TruthSame DEF PrInv
  <2> QED BY <2>1, <2>2 DEF PrInv, fileVars
<1>3. CASE env.part = "pullRequest" /\ DeploymentNext /\ UNCHANGED env
  <2>1. ASSUME NEW p \in Process,
               \/ BeginCreate(p) \/ CreatePr(p)
               \/ \E ask \in SUBSET Reviewer \ {{}} : BeginReviewers(p, ask)
               \/ AskReviewers(p)
               \/ BeginStatus(p) \/ FetchPr(p) \/ FetchSuites(p)
               \/ WriteTmp(p) \/ Rename(p) \/ LinkFeature(p)
               \/ ReadLog(p) \/ WriteLog(p) \/ RenameLog(p)
               \/ BeginRefresh(p) \/ ReadRules(p) \/ ReadRefs(p) \/ ReadChecks(p) \/ Compare(p)
               \/ ReadReviews(p) \/ WriteReport(p)
        PROVE  PrInv'
    <3>1. CASE BeginCreate(p) \/ (\E ask \in SUBSET Reviewer \ {{}} : BeginReviewers(p, ask)) \/ BeginStatus(p) \/ BeginRefresh(p)
      BY <1>3, <3>1, BeginSteps
    <3>2. CASE CreatePr(p)
      BY <1>3, <3>2, CreatePrStep
    <3>3. CASE AskReviewers(p)
      BY <1>3, <3>3, AskReviewersStep
    <3>4. CASE FetchPr(p) \/ FetchSuites(p)
      BY <1>3, <3>4, FetchSteps
    <3>5. CASE WriteTmp(p) \/ Rename(p) \/ LinkFeature(p) \/ ReadLog(p) \/ WriteLog(p) \/ RenameLog(p)
      BY <1>3, <3>5, FileSteps
    <3>6. CASE ReadRules(p) \/ ReadRefs(p) \/ ReadChecks(p) \/ Compare(p) \/ ReadReviews(p)
      BY <1>3, <3>6, RefreshSteps
    <3>7. CASE WriteReport(p)
      BY <1>3, <3>7, WriteReportStep
    <3> QED BY <2>1, <3>1, <3>2, <3>3, <3>4, <3>5, <3>6, <3>7
  <2>2. ASSUME NEW p \in Process,
               \/ \E force \in BOOLEAN : BeginDeploy(p, force)
               \/ Assess(p) \/ DryRun(p) \/ Merge(p) \/ GetNodeId(p) \/ AutoMerge(p) \/ Dispatch(p) \/ Refused(p)
               \/ ReadHistory(p) \/ PersistOutcome(p) \/ CrashAgent(p)
        PROVE  PrInv'
    <3>1. CASE \E force \in BOOLEAN : BeginDeploy(p, force)
      BY <1>3, <3>1, BeginSteps
    <3>2. CASE Assess(p)
      BY <1>3, <3>2, AssessStep
    <3>3. CASE DryRun(p) \/ GetNodeId(p) \/ Refused(p)
      BY <1>3, <3>3, RefusedStep
    <3>4. CASE Merge(p)
      BY <1>3, <3>4, MergeStep
    <3>5. CASE AutoMerge(p)
      BY <1>3, <3>5, AutoMergeStep
    <3>6. CASE Dispatch(p)
      BY <1>3, <3>6, DispatchStep
    <3>7. CASE ReadHistory(p) \/ PersistOutcome(p)
      BY <1>3, <3>7, HistorySteps
    <3>8. CASE CrashAgent(p)
      BY <1>3, <3>8, CrashAgentStep
    <3> QED BY <2>2, <3>1, <3>2, <3>3, <3>4, <3>5, <3>6, <3>7, <3>8
  <2>3. ASSUME Others /\ UNCHANGED <<fileVars, agent, commands, lock>> PROVE PrInv'
    BY <1>3, <2>3, OthersStep
  <2> QED BY <1>3, <2>1, <2>2, <2>3 DEF DeploymentNext, PullRequestsNext
<1> QED BY <1>1, <1>2, <1>3 DEF Next, deployVars

-----------------------------------------------------------------------------
\* What the invariant says of the report and of the outcomes.
LEMMA ReportFollows == PrInv => ReportAgrees
<1> SUFFICES ASSUME PrInv, report.kind = "report" PROVE ReportAgrees
  BY DEF ReportAgrees
<1>1. report \in TrueReports /\ report # Absent
  BY DEF PrInv, Torn, Absent
<1>2. report.protected = env.rules.protected
  BY <1>1 DEF TrueReports
<1>3. "regress" \notin env.events /\ report.protected /\ report.sha # ByName => Judged(report.sha)
  BY <1>2 DEF Judged
<1> QED BY <1>1, <1>3 DEF TrueReports, ReportAgrees

LEMMA OutcomesFollow == PrInv => OutcomesTrue
<1> SUFFICES ASSUME PrInv, history.kind = "log", NEW i \in DOMAIN history.outcomes, history.outcomes[i].ok
    PROVE  LET o == history.outcomes[i]
           IN  /\ o.strategy = "merge" => remote.state = "merged" /\ remote.merged = o.head
               /\ /\ o.strategy = "merge" /\ ~o.force /\ "regress" \notin env.events
                  /\ o.report # Absent /\ o.report.protected /\ o.report.sha = o.head
                  => ChecksGood(o.head) /\ ReviewsGood
               /\ o.strategy = "auto" => remote.auto \/ remote.state # "open" \/ "refuse" \in env.events
               /\ o.strategy = "dispatch" => remote.dispatched
  BY DEF OutcomesTrue
<1>1. history \in TrueLogs
  BY DEF PrInv, Absent
<1>2. PICK o \in TrueOutcomes : o = history.outcomes[i]
  <2>1. history.outcomes \in Seq(TrueOutcomes)
    BY <1>1 DEF TrueLogs
  <2> QED BY <2>1
<1>3. /\ o.strategy = "merge" => o.head # ByName /\ MergeTrue(o)
      /\ o.strategy = "auto" => remote.auto \/ remote.state \in {"closed", "merged"} \/ "refuse" \in env.events
      /\ o.strategy = "dispatch" => remote.dispatched
  BY <1>2 DEF TrueOutcomes
<1>4. ASSUME o.strategy = "merge", ~o.force, "regress" \notin env.events,
             o.report # Absent, o.report.protected, o.report.sha = o.head
      PROVE  ChecksGood(o.head) /\ ReviewsGood
  <2>1. o.report \in Reports \cup {Absent} /\ o.head # ByName /\ MergeTrue(o)
    BY <1>2, <1>3, <1>4 DEF TrueOutcomes, OutcomeRecords
  <2>2. Judged(o.head)
    <3>1. env.rules.protected
      BY <1>2, <1>4 DEF TrueOutcomes
    <3> QED BY <1>4, <2>1, <3>1 DEF Judged
  <2> QED BY <1>4, <2>1, <2>2 DEF MergeTrue
<1> QED BY <1>2, <1>3, <1>4 DEF MergeTrue
-----------------------------------------------------------------------------
\* Commands that follow one another: at most one is under way, and the next begins with what the last one left.
LEMMA CalmStart == Init => CalmInv
<1> SUFFICES ASSUME Init PROVE CalmInv
  OBVIOUS
<1>1. /\ env \in Environment /\ remote = [NoPullRequest EXCEPT !.state = env.start]
      /\ prFile = IF env.start = "none" THEN Absent ELSE Metadata(1, {})
      /\ linked = (env.start # "none")
      /\ history = IF env.start = "none" THEN Absent
                   ELSE [EmptyLog EXCEPT !.actions = <<[action |-> "pr_created", users |-> {}]>>]
      /\ prTmp = Absent /\ historyTmp = Absent /\ agent = [p \in Process |-> Idle]
  BY DEF Init, PullRequestsInit
<1>2. remote.state = env.start /\ Metadata(1, {}).kind = "pr" /\ Metadata(1, {}).requested = {} /\ Metadata(1, {}) # Absent
  BY <1>1 DEF NoPullRequest, Metadata, Absent
<1>3. env.start # "none" => history # Absent /\ Users(history) = {}
  <2> SUFFICES ASSUME env.start # "none" PROVE history # Absent /\ Users(history) = {}
    OBVIOUS
  <2>1. PICK first : first = <<[action |-> "pr_created", users |-> {}]>>
    OBVIOUS
  <2>2. DOMAIN first = {1} /\ first[1].users = {}
    BY <2>1
  <2>3. history.kind = "log" /\ history.actions = first
    BY <1>1, <2>1 DEF EmptyLog
  <2>4. history # Absent
    BY <2>3 DEF Absent
  <2>5. UsersOf(history.actions) = {}
    BY <2>2, <2>3 DEF UsersOf
  <2> QED BY <2>4, <2>5 DEF Users
<1>4. Settled
  BY <1>1, <1>2, <1>3 DEF Settled, Linked, Named
<1>5. \A p \in Process : agent[p].at = "idle"
  BY <1>1 DEF Idle
<1> QED BY <1>1, <1>4, <1>5 DEF CalmInv

LEMMA Alone ==
    ASSUME CalmInv, Calm, NEW p \in Process, agent[p].at # "idle"
    PROVE  CalmAt(agent[p]) /\ \A q \in Process : q # p => agent[q].at = "idle"
BY DEF CalmInv

\* One process goes on while the others are idle.
LEMMA CalmGoes ==
    ASSUME PrInv, UNCHANGED env, NEW p \in Process, \A q \in Process : q # p => agent[q].at = "idle",
           NEW b, agent' = [agent EXCEPT ![p] = b],
           b.at = "idle" => Settled' /\ prTmp' = Absent /\ historyTmp' = Absent,
           b.at # "idle" => CalmAt(b)'
    PROVE  CalmInv'
<1>1. agent \in [Process -> TrueAgents]
  BY DEF PrInv
<1>2. agent'[p] = b /\ \A q \in Process : q # p => agent'[q] = agent[q]
  BY <1>1
<1>3. \A q \in Process : agent'[q].at # "idle" => q = p
  BY <1>2
<1>4. \A q \in Process : agent'[q].at # "idle" => CalmAt(agent[q])'
  BY <1>2, <1>3
<1>5. (\A q \in Process : agent'[q].at = "idle") => b.at = "idle"
  BY <1>2
<1> QED BY <1>3, <1>4, <1>5 DEF CalmInv

LEMMA CalmEnds ==
    ASSUME PrInv, UNCHANGED env, NEW p \in Process, \A q \in Process : q # p => agent[q].at = "idle",
           Quit(p), Settled', prTmp' = Absent, historyTmp' = Absent
    PROVE  CalmInv'
BY CalmGoes DEF Quit, Idle

\* What a pull request is linked by stays as it is while nobody creates one and no file of a command changes.
LEMMA SettledStays ==
    ASSUME UNCHANGED <<env, prFile, linked>>, remote'.state # "none" <=> remote.state # "none",
           UNCHANGED history \/ "deploy" \in env.ops
    PROVE  Settled' = Settled
<1>1. Linked' = Linked
  BY DEF Linked
<1>2. Named' = Named
  BY DEF Named, Users
<1> QED BY <1>1, <1>2 DEF Settled

LEMMA CalmStays ==
    ASSUME UNCHANGED <<env, fileVars>>, remote'.state # "none" <=> remote.state # "none", NEW a
    PROVE  CalmAt(a)' = CalmAt(a)
<1>1. Settled' = Settled
  BY SettledStays DEF fileVars
<1>2. Unwritten' = Unwritten
  BY DEF Unwritten, fileVars
<1> QED BY <1>1, <1>2 DEF CalmAt, Users, fileVars

\* Deployments and refreshes leave the files of the commands alone.
LEMMA AsideAt ==
    ASSUME NEW a, a.op \in {"refresh", "deploy"}, InPlace(a), a.at # "idle"
    PROVE  CalmAt(a) <=> Settled /\ prTmp = Absent /\ historyTmp = Absent
<1>1. a.at \in {"error"} \cup Asking \cup Deciding \cup Concluding
  BY DEF InPlace
<1>2. a.at \notin {"feature", "readLog", "log", "renameLog", "create", "rename"} /\ a.op \notin {"create", "reviewers", "status"}
  BY <1>1 DEF Asking, Deciding, Concluding
<1> QED BY <1>2 DEF CalmAt

LEMMA Aside ==
    ASSUME PrInv, PrInv', CalmInv, Calm, UNCHANGED <<env, prFile, prTmp, linked, historyTmp>>,
           UNCHANGED history \/ "deploy" \in env.ops, remote'.state # "none" <=> remote.state # "none",
           NEW p \in Process, agent[p].at # "idle", agent[p].op \in {"refresh", "deploy"},
           NEW b, agent' = [agent EXCEPT ![p] = b], b.at = "idle" \/ b.op = agent[p].op
    PROVE  CalmInv'
<1>1. CalmAt(agent[p]) /\ \A q \in Process : q # p => agent[q].at = "idle"
  BY Alone
<1>2. InPlace(agent[p])
  BY EntryOf
<1>3. Settled /\ prTmp = Absent /\ historyTmp = Absent
  BY <1>1, <1>2, AsideAt
<1>4. Settled' /\ prTmp' = Absent /\ historyTmp' = Absent
  BY <1>3, SettledStays
<1>5. InPlace(b)'
  BY DEF PrInv, TrueAgents
<1>6. b.at # "idle" => CalmAt(b)'
  <2> SUFFICES ASSUME b.at # "idle" PROVE CalmAt(b)'
    OBVIOUS
  <2>1. b.at \in {"error"} \cup Asking \cup Deciding \cup Concluding /\ b.op \in {"refresh", "deploy"}
    BY <1>5 DEF InPlace
  <2>2. b.at \notin {"feature", "readLog", "log", "renameLog", "create", "rename"} /\ b.op \notin {"create", "reviewers", "status"}
    BY <2>1 DEF Asking, Deciding, Concluding
  <2> QED BY <1>4, <2>2 DEF CalmAt
<1> QED BY <1>1, <1>4, <1>6, CalmGoes

LEMMA AsideSteps ==
    ASSUME PrInv, PrInv', CalmInv, Calm, UNCHANGED env, NEW p \in Process,
           \/ ReadRules(p) \/ ReadRefs(p) \/ ReadChecks(p) \/ Compare(p) \/ ReadReviews(p) \/ WriteReport(p)
           \/ Assess(p) \/ DryRun(p) \/ Merge(p) \/ GetNodeId(p) \/ AutoMerge(p) \/ Dispatch(p) \/ Refused(p)
           \/ ReadHistory(p) \/ PersistOutcome(p)
    PROVE  CalmInv'
<1>1. PICK a \in AgentRecords : a = agent[p] /\ InPlace(a)
  BY EntryOf
<1>2. a.at \in {"error"} \cup Asking \cup Deciding \cup Concluding
  BY <1>1 DEF ReadRules, ReadRefs, ReadChecks, Compare, ReadReviews, WriteReport, Request, Assess, DryRun, Merge, GetNodeId,
              AutoMerge, Dispatch, Refused, ReadHistory, PersistOutcome, Asking, Deciding, Concluding
<1>3. a.at # "idle" /\ a.op \in {"refresh", "deploy"} /\ a.op \in env.ops
  BY <1>1, <1>2 DEF InPlace, Asking, Deciding, Concluding, Reading, Writing
<1>4. UNCHANGED <<prFile, prTmp, linked, historyTmp>> /\ (UNCHANGED history \/ PersistOutcome(p))
  BY DEF ReadRules, ReadRefs, ReadChecks, Compare, ReadReviews, WriteReport, Request, Assess, DryRun, Merge, GetNodeId,
         AutoMerge, Dispatch, Refused, ReadHistory, PersistOutcome, Calling, fileVars
<1>5. UNCHANGED history \/ "deploy" \in env.ops
  <2>1. CASE PersistOutcome(p)
    BY <1>1, <1>3, <2>1 DEF PersistOutcome, InPlace, Asking, Deciding, Concluding, Reading, Writing
  <2> QED BY <1>4, <2>1
<1>6. remote'.state # "none" <=> remote.state # "none"
  <2>1. CASE UNCHANGED remote
    BY <2>1
  <2>2. CASE Merge(p)
    <3>1. ASSUME NEW r \in mergePullRequest(agent[p].pr.head) PROVE r.remote.state # "none" <=> remote.state # "none"
      <4> DEFINE possible == /\ remote.state = "open" /\ ~remote.draft /\ remote.mergeable
                             /\ agent[p].pr.head \in {ByName, remote.head}
                 after == [remote EXCEPT !.state = "merged", !.merged = remote.head]
      <4>1. after.state = "merged"
        BY DEF PrInv, RemoteTyped
      <4>2. r \in Results(possible, after)
        BY <3>1 DEF mergePullRequest
      <4>3. possible => remote.state = "open"
        OBVIOUS
      <4> HIDE DEF possible, after
      <4> QED BY <4>1, <4>2, <4>3 DEF Results
    <3> QED BY <2>2, <3>1 DEF Merge
  <2>3. CASE AutoMerge(p)
    <3>1. \A r \in enableAutoMerge : r.remote.state # "none" <=> remote.state # "none"
      BY DEF enableAutoMerge, Results, PrInv, RemoteTyped
    <3> QED BY <2>3, <3>1 DEF AutoMerge
  <2>4. CASE Dispatch(p)
    <3>1. \A r \in triggerWorkflow : r.remote.state # "none" <=> remote.state # "none"
      BY DEF triggerWorkflow, Results, PrInv, RemoteTyped
    <3> QED BY <2>4, <3>1 DEF Dispatch
  <2>5. UNCHANGED remote \/ Merge(p) \/ AutoMerge(p) \/ Dispatch(p)
    BY DEF ReadRules, ReadRefs, ReadChecks, Compare, ReadReviews, WriteReport, Request, Assess, DryRun, GetNodeId,
           Refused, ReadHistory, PersistOutcome
  <2> QED BY <2>1, <2>2, <2>3, <2>4, <2>5
<1>7. \E b : agent' = [agent EXCEPT ![p] = b] /\ (b.at = "idle" \/ b.op = a.op)
  <2> agent \in [Process -> AgentRecords]
    BY DEF PrInv, TrueAgents
  <2>1. ASSUME NEW at, NEW f, agent' = [agent EXCEPT ![p].at = at, ![p].facts = f]
        PROVE  \E b : agent' = [agent EXCEPT ![p] = b] /\ b.op = a.op
    <3>1. PICK b : b = [a EXCEPT !.at = at, !.facts = f]
      OBVIOUS
    <3>2. agent' = [agent EXCEPT ![p] = b] /\ b.op = a.op
      BY <1>1, <2>1, <3>1 DEF AgentRecords
    <3> QED BY <3>2
  <2>2. ASSUME NEW at, NEW f, agent' = [agent EXCEPT ![p].at = at, ![p].entry = f]
        PROVE  \E b : agent' = [agent EXCEPT ![p] = b] /\ b.op = a.op
    <3>1. PICK b : b = [a EXCEPT !.at = at, !.entry = f]
      OBVIOUS
    <3>2. agent' = [agent EXCEPT ![p] = b] /\ b.op = a.op
      BY <1>1, <2>2, <3>1 DEF AgentRecords
    <3> QED BY <3>2
  <2>3. ASSUME NEW at, NEW f, agent' = [agent EXCEPT ![p].at = at, ![p].seen = f]
        PROVE  \E b : agent' = [agent EXCEPT ![p] = b] /\ b.op = a.op
    <3>1. PICK b : b = [a EXCEPT !.at = at, !.seen = f]
      OBVIOUS
    <3>2. agent' = [agent EXCEPT ![p] = b] /\ b.op = a.op
      BY <1>1, <2>3, <3>1 DEF AgentRecords
    <3> QED BY <3>2
  <2>4. ASSUME NEW at, NEW f, agent' = [agent EXCEPT ![p].at = at, ![p].log = f]
        PROVE  \E b : agent' = [agent EXCEPT ![p] = b] /\ b.op = a.op
    <3>1. PICK b : b = [a EXCEPT !.at = at, !.log = f]
      OBVIOUS
    <3>2. agent' = [agent EXCEPT ![p] = b] /\ b.op = a.op
      BY <1>1, <2>4, <3>1 DEF AgentRecords
    <3> QED BY <3>2
  <2>5. ASSUME NEW at, NEW f, agent' = [agent EXCEPT ![p].facts.sha = f, ![p].at = at]
        PROVE  \E b : agent' = [agent EXCEPT ![p] = b] /\ b.op = a.op
    <3>1. PICK b : b = [a EXCEPT !.facts.sha = f, !.at = at]
      OBVIOUS
    <3>2. agent' = [agent EXCEPT ![p] = b] /\ b.op = a.op
      BY <1>1, <2>5, <3>1 DEF AgentRecords
    <3> QED BY <3>2
  <2>6. ASSUME NEW at, Goto(p, at) PROVE \E b : agent' = [agent EXCEPT ![p] = b] /\ b.op = a.op
    <3>1. PICK b : b = [a EXCEPT !.at = at]
      OBVIOUS
    <3>2. agent' = [agent EXCEPT ![p] = b] /\ b.op = a.op
      BY <1>1, <2>6, <3>1 DEF AgentRecords, Goto
    <3> QED BY <3>2
  <2>7. ASSUME Quit(p) PROVE \E b : agent' = [agent EXCEPT ![p] = b] /\ b.at = "idle"
    <3>1. Idle.at = "idle"
      BY DEF Idle
    <3> QED BY <2>7, <3>1 DEF Quit
  <2>8. ASSUME NEW strategy, NEW ok, Conclude(p, strategy, ok) PROVE \E b : agent' = [agent EXCEPT ![p] = b] /\ b.op = a.op
    <3>1. PICK o : o = Outcome(p, strategy, ok)
      OBVIOUS
    <3>2. agent' = [agent EXCEPT ![p].at = "outcome", ![p].entry = o]
      BY <2>8, <3>1 DEF Conclude
    <3> QED BY <2>2, <3>2
  <2>9. CASE ReadRules(p) \/ ReadChecks(p) \/ Compare(p) \/ ReadReviews(p)
    BY <2>1, <2>7, <2>9 DEF ReadRules, ReadChecks, Compare, ReadReviews, Request
  <2>10. CASE ReadRefs(p)
    BY <2>5, <2>10 DEF ReadRefs
  <2>11. CASE WriteReport(p) \/ DryRun(p) \/ PersistOutcome(p)
    BY <2>7, <2>11 DEF WriteReport, DryRun, PersistOutcome
  <2>12. CASE Assess(p)
    BY <2>3, <2>12 DEF Assess
  <2>13. CASE Merge(p) \/ AutoMerge(p) \/ Dispatch(p) \/ Refused(p)
    BY <2>8, <2>13 DEF Merge, AutoMerge, Dispatch, Refused
  <2>14. CASE GetNodeId(p)
    BY <2>6, <2>8, <2>14 DEF GetNodeId
  <2>15. CASE ReadHistory(p)
    BY <2>4, <2>15 DEF ReadHistory
  <2> QED BY <2>9, <2>10, <2>11, <2>12, <2>13, <2>14, <2>15
<1>8. PICK b : agent' = [agent EXCEPT ![p] = b] /\ (b.at = "idle" \/ b.op = a.op)
  BY <1>7
<1> QED BY <1>1, <1>3, <1>4, <1>5, <1>6, <1>8, Aside
LEMMA CalmBegins ==
    ASSUME PrInv, CalmInv, Calm, UNCHANGED env, NEW p \in Process, NEW op, NEW b \in AgentRecords, BegunAs(p, op, b)
    PROVE  CalmInv'
<1>1. UNCHANGED <<remote, fileVars>> /\ \A q \in Process : agent[q].at = "idle"
  BY DEF BegunAs, Starts, Calm
<1>2. Settled /\ prTmp = Absent /\ historyTmp = Absent
  BY <1>1 DEF CalmInv
<1>3. prFile \in TruePrs /\ (prFile.kind # "pr" => prFile = Absent)
  BY DEF PrInv, TruePrs, PrMetadata
<1>4. CalmAt(b)
  <2>1. CASE op = "create"
    <3>1. prFile = Absent /\ remote.state = "none"
      BY <1>2, <1>3, <2>1 DEF BegunAs, Settled, Linked
    <3>2. Unwritten
      BY <1>2, <3>1 DEF Settled, Named, Unwritten
    <3> QED BY <1>2, <2>1, <3>1, <3>2 DEF BegunAs, CalmAt, Reading, Writing
  <2>2. CASE op \in {"refresh", "deploy"}
    BY <1>2, <2>2 DEF BegunAs, CalmAt
  <2>3. CASE op \in {"reviewers", "status"}
    <3>1. prFile.kind = "pr" /\ prFile # Absent /\ remote.state # "none" /\ linked
      BY <1>2, <1>3, <2>3 DEF BegunAs, TruePrs, PrMetadata, Absent, Settled, Linked
    <3>2. "deploy" \notin env.ops => history # Absent /\ prFile.requested = Users(history)
      BY <1>2, <3>1 DEF Settled, Named
    <3>3. b.pr = prFile /\ b.op = op /\ b.entry = "none" /\ b.at \in {"ask", "pr"} /\ (b.at = "pr" => op = "status" /\ b.ask = {})
      BY <2>3 DEF BegunAs
    <3> QED BY <1>2, <2>3, <3>1, <3>2, <3>3 DEF CalmAt, Writing
  <2> QED BY <2>1, <2>2, <2>3 DEF BegunAs
<1>5. CalmAt(b)'
  BY <1>1, <1>4, CalmStays
<1>6. b.at # "idle"
  BY DEF BegunAs
<1>7. agent' = [agent EXCEPT ![p] = b]
  BY DEF BegunAs
<1> QED BY <1>1, <1>5, <1>6, <1>7, CalmGoes

LEMMA CalmOthers ==
    ASSUME PrInv, CalmInv, Calm, UNCHANGED <<env, fileVars, agent>>, Others
    PROVE  CalmInv'
<1>1. remote'.state # "none" <=> remote.state # "none"
  BY OthersGrow DEF Grown, Others
<1>2. Settled' = Settled /\ \A q \in Process : CalmAt(agent[q])' = CalmAt(agent[q])
  <2>1. Settled' = Settled
    BY <1>1, SettledStays DEF fileVars
  <2>2. ASSUME NEW q \in Process PROVE CalmAt(agent[q])' = CalmAt(agent[q])
    <3>1. PICK a : a = agent[q]
      OBVIOUS
    <3>2. CalmAt(a)' = CalmAt(a)
      BY <1>1, CalmStays
    <3>3. a = agent'[q]
      BY <3>1
    <3> QED BY <3>1, <3>2, <3>3
  <2> QED BY <2>1, <2>2
<1> QED BY <1>2 DEF CalmInv, fileVars

LEMMA CalmCalls ==
    ASSUME Calm, NEW possible \in BOOLEAN, NEW after, NEW r \in Results(possible, after)
    PROVE  possible => r.ok /\ r.remote = after
BY DEF Calm, Results

LEMMA CalmCreated ==
    ASSUME Unwritten', prTmp' = Absent, historyTmp' = Absent, NEW b, b.op = "create", b.at \in {"ask", "tmp"},
           b.entry = "pr_created",
           "deploy" \notin env'.ops => /\ b.pr.requested \cup b.ask = Users(history') \cup b.ask
                                       /\ b.at # "ask" => b.ask \subseteq b.pr.requested
    PROVE  CalmAt(b)'
BY DEF CalmAt

LEMMA CalmCreates ==
    ASSUME PrInv, CalmInv, Calm, UNCHANGED env, NEW p \in Process, CreatePr(p)
    PROVE  CalmInv'
<1>1. PICK a \in AgentRecords : a = agent[p] /\ InPlace(a) /\ HandsTrue(a)
  BY EntryOf
<1>2. a.at = "create" /\ a.op = "create" /\ UNCHANGED fileVars /\ RemoteTyped
  BY <1>1 DEF CreatePr, Calling, PrInv, InPlace, Reading, Writing, Asking, Deciding, Concluding
<1>3. CalmAt(a) /\ \A q \in Process : q # p => agent[q].at = "idle"
  BY <1>1, <1>2, Alone
<1>4. remote.state = "none" /\ Unwritten /\ prTmp = Absent /\ historyTmp = Absent
  BY <1>2, <1>3 DEF CalmAt
<1>8. PICK ask \in SUBSET Reviewer :
            agent' = [agent EXCEPT ![p].at = IF ask = {} THEN "tmp" ELSE "ask", ![p].ask = ask,
                                   ![p].pr = Metadata(remote'.head, ask), ![p].entry = "pr_created"]
  <2>1. PICK draft \in BOOLEAN : \E r \in createPullRequest(draft) :
          /\ remote' = r.remote
          /\ \/ /\ r.ok
                /\ \E ask \in {{}, Reviewer} :
                      agent' = [agent EXCEPT ![p].at = IF ask = {} THEN "tmp" ELSE "ask", ![p].ask = ask,
                                             ![p].pr = Metadata(r.remote.head, ask), ![p].entry = "pr_created"]
             \/ ~r.ok /\ Quit(p)
    BY DEF CreatePr
  <2> DEFINE after == [remote EXCEPT !.state = "open", !.draft = draft]
  <2>2. PICK r \in Results(remote.state = "none", after) :
          /\ remote' = r.remote
          /\ \/ /\ r.ok
                /\ \E ask \in {{}, Reviewer} :
                      agent' = [agent EXCEPT ![p].at = IF ask = {} THEN "tmp" ELSE "ask", ![p].ask = ask,
                                             ![p].pr = Metadata(r.remote.head, ask), ![p].entry = "pr_created"]
             \/ ~r.ok /\ Quit(p)
    BY <2>1 DEF createPullRequest
  <2>3. r.ok
    <3> HIDE DEF after
    <3> QED BY <1>4, <2>2, CalmCalls
  <2> QED BY <2>2, <2>3
<1>9. PICK at \in {"tmp", "ask"} : at = IF ask = {} THEN "tmp" ELSE "ask"
  OBVIOUS
<1>10. PICK m : m = Metadata(remote'.head, ask)
  OBVIOUS
<1>11. PICK b : b = [a EXCEPT !.at = at, !.ask = ask, !.pr = m, !.entry = "pr_created"]
  OBVIOUS
<1>12. b.at = at /\ b.op = "create" /\ b.ask = ask /\ b.pr = m /\ b.entry = "pr_created" /\ m.requested = ask
  BY <1>2, <1>10, <1>11 DEF AgentRecords, Metadata
<1>13. agent' = [agent EXCEPT ![p] = b]
  <2>1. agent \in [Process -> AgentRecords]
    BY DEF PrInv, TrueAgents
  <2> QED BY <1>1, <1>8, <1>9, <1>10, <1>11, <2>1 DEF AgentRecords
<1>14. Unwritten' /\ prTmp' = Absent /\ historyTmp' = Absent /\ ("deploy" \notin env.ops => history = Absent)
  BY <1>2, <1>4 DEF Unwritten, fileVars
<1>15. "deploy" \notin env'.ops => Users(history') = {}
  BY <1>2, <1>14 DEF Users, fileVars
<1>16. CalmAt(b)'
  <2>1. "deploy" \notin env'.ops => /\ b.pr.requested \cup b.ask = Users(history') \cup b.ask
                                    /\ b.at # "ask" => b.ask \subseteq b.pr.requested
    BY <1>12, <1>15
  <2>2. b.at \in {"ask", "tmp"} /\ b.op = "create" /\ b.entry = "pr_created"
    BY <1>9, <1>12
  <2>3. Unwritten' /\ prTmp' = Absent /\ historyTmp' = Absent
    BY <1>14
  <2> QED BY <2>1, <2>2, <2>3, CalmCreated
<1>17. b.at # "idle"
  BY <1>9, <1>12
<1> QED BY <1>3, <1>13, <1>16, <1>17, CalmGoes

LEMMA CalmAsks ==
    ASSUME PrInv, CalmInv, Calm, UNCHANGED env, NEW p \in Process, AskReviewers(p)
    PROVE  CalmInv'
<1>1. PICK a \in AgentRecords : a = agent[p] /\ InPlace(a) /\ HandsTrue(a)
  BY EntryOf
<1>2. a.at = "ask" /\ a.op \in {"create", "reviewers"} /\ UNCHANGED fileVars /\ RemoteTyped
  BY <1>1 DEF AskReviewers, Calling, PrInv, InPlace, Reading, Writing, Asking, Deciding, Concluding
<1>3. CalmAt(a) /\ \A q \in Process : q # p => agent[q].at = "idle"
  BY <1>1, <1>2, Alone
<1>4. remote.state # "none" /\ a.pr # Absent /\ a.pr \in PrMetadata /\ a.entry \in {"none"} \cup Entries
  BY <1>1, <1>2 DEF HandsTrue, AgentRecords
<1> DEFINE after == [remote EXCEPT !.requested = remote.requested \cup a.ask]
<1>5. PICK r \in Results(remote.state # "none", after) :
        /\ remote' = r.remote
        /\ \/ /\ r.ok
              /\ agent' = [agent EXCEPT ![p].at = "tmp", ![p].pr.requested = @ \cup agent[p].ask,
                                        ![p].entry = IF @ = "none" THEN "reviewers_requested" ELSE @]
           \/ ~r.ok /\ Quit(p)
  BY <1>1 DEF AskReviewers, requestReviewers
<1>6. r.ok /\ r.remote = after
  <2> HIDE DEF after
  <2> QED BY <1>4, <1>5, CalmCalls
<1>7. remote'.state = remote.state
  BY <1>2, <1>5, <1>6 DEF RemoteTyped
<1>8. PICK m : m = [a.pr EXCEPT !.requested = a.pr.requested \cup a.ask]
  OBVIOUS
<1>9. PICK entry \in Entries : entry = IF a.entry = "none" THEN "reviewers_requested" ELSE a.entry
  BY <1>4 DEF Entries
<1>10. PICK b : b = [a EXCEPT !.at = "tmp", !.pr = m, !.entry = entry]
  OBVIOUS
<1>11. b.at = "tmp" /\ b.op = a.op /\ b.ask = a.ask /\ b.pr = m /\ b.entry = entry /\ m.requested = a.pr.requested \cup a.ask
  BY <1>4, <1>8, <1>10 DEF AgentRecords, PrMetadata
<1>12. agent' = [agent EXCEPT ![p] = b]
  <2>1. agent \in [Process -> AgentRecords]
    BY DEF PrInv, TrueAgents
  <2>2. agent' = [agent EXCEPT ![p].at = "tmp", ![p].pr.requested = @ \cup agent[p].ask,
                               ![p].entry = IF @ = "none" THEN "reviewers_requested" ELSE @]
    BY <1>5, <1>6
  <2> QED BY <1>1, <1>8, <1>9, <1>10, <2>1, <2>2 DEF AgentRecords
<1>13. CalmAt(b)
  <2>1. entry # "none"
    BY <1>9 DEF Entries
  <2>2. /\ IF a.op = "create" THEN Unwritten ELSE Settled
        /\ prTmp = Absent /\ historyTmp = Absent
        /\ a.op # "create" => prFile.kind = "pr" /\ linked
        /\ "deploy" \notin env.ops =>
                a.pr.requested \cup a.ask = Users(history) \cup a.ask /\ (a.op # "create" => history # Absent)
    BY <1>2, <1>3 DEF CalmAt
  <2> QED BY <1>2, <1>11, <2>1, <2>2 DEF CalmAt
<1>14. CalmAt(b)'
  BY <1>2, <1>7, <1>13, CalmStays
<1> QED BY <1>3, <1>11, <1>12, <1>14, CalmGoes

LEMMA CalmFetches ==
    ASSUME PrInv, CalmInv, Calm, UNCHANGED env, NEW p \in Process, FetchPr(p) \/ FetchSuites(p)
    PROVE  CalmInv'
<1>1. PICK a \in AgentRecords : a = agent[p] /\ InPlace(a) /\ HandsTrue(a)
  BY EntryOf
<1>2. a.at \in Reading /\ a.op = "status" /\ UNCHANGED <<remote, fileVars>>
  BY <1>1 DEF FetchPr, FetchSuites, Calling, InPlace, Reading, Writing, Asking, Deciding, Concluding
<1>3. CalmAt(a) /\ \A q \in Process : q # p => agent[q].at = "idle"
  BY <1>1, <1>2, Alone DEF Reading
<1>4. a.pr \in PrMetadata /\ a.entry = "none" /\ agent \in [Process -> AgentRecords] /\ Reads = {TRUE}
  BY <1>1, <1>2 DEF HandsTrue, AgentRecords, PrInv, TrueAgents, Reads, Calm
<1>5. /\ Settled /\ prTmp = Absent /\ historyTmp = Absent /\ prFile.kind = "pr" /\ linked /\ a.ask = {}
      /\ "deploy" \notin env.ops => a.pr.requested \cup a.ask = Users(history) \cup a.ask /\ history # Absent
  BY <1>2, <1>3, <1>4 DEF CalmAt, Reading
<1>6. ASSUME NEW b, agent' = [agent EXCEPT ![p] = b], b.at \in Reading \cup {"tmp"}, b.op = a.op, b.entry = a.entry,
             b.ask = a.ask, b.pr.requested = a.pr.requested
      PROVE  CalmInv'
  <2>1. b.at \notin {"feature", "readLog", "log", "renameLog", "create", "rename", "idle"}
    BY <1>6 DEF Reading
  <2>2. CalmAt(b)
    BY <1>2, <1>4, <1>5, <1>6, <2>1 DEF CalmAt
  <2>3. CalmAt(b)'
    BY <1>2, <2>2, CalmStays
  <2> QED BY <1>3, <1>6, <2>1, <2>3, CalmGoes
<1>7. CASE FetchPr(p)
  <2> DEFINE to == IF a.at = "pr" THEN "suites" ELSE "suitesAgain"
             head == IF a.at = "pr" THEN remote.head ELSE a.pr.head
  <2>1. agent' = [agent EXCEPT ![p].seen = getPullRequest, ![p].at = to, ![p].pr.head = head]
    BY <1>1, <1>4, <1>7 DEF FetchPr
  <2>2. to \in Reading
    BY DEF Reading
  <2> HIDE DEF to, head
  <2>3. PICK m : m = [a.pr EXCEPT !.head = head]
    OBVIOUS
  <2>4. PICK seen : seen = getPullRequest
    OBVIOUS
  <2>5. PICK b : b = [a EXCEPT !.seen = seen, !.at = to, !.pr = m]
    OBVIOUS
  <2>6. b.at = to /\ b.op = a.op /\ b.entry = a.entry /\ b.ask = a.ask /\ b.pr = m /\ m.requested = a.pr.requested
    BY <1>4, <2>3, <2>5 DEF AgentRecords, PrMetadata
  <2>7. agent' = [agent EXCEPT ![p] = b]
    BY <1>1, <1>4, <2>1, <2>3, <2>4, <2>5 DEF AgentRecords
  <2> QED BY <1>6, <2>2, <2>6, <2>7
<1>8. CASE FetchSuites(p)
  <2>1. CASE Goto(p, "prAgain")
    <3>1. PICK b : b = [a EXCEPT !.at = "prAgain"]
      OBVIOUS
    <3>2. b.at = "prAgain" /\ b.op = a.op /\ b.entry = a.entry /\ b.ask = a.ask /\ b.pr = a.pr
      BY <3>1 DEF AgentRecords
    <3>3. agent' = [agent EXCEPT ![p] = b]
      BY <1>1, <1>4, <2>1, <3>1 DEF Goto, AgentRecords
    <3> QED BY <1>6, <3>2, <3>3 DEF Reading
  <2>2. CASE ~Goto(p, "prAgain")
    <3>1. PICK reasons : reasons = Reasons(a.seen, getStatusChecks(a.seen.head))
      OBVIOUS
    <3>2. agent' = [agent EXCEPT ![p].at = "tmp", ![p].pr.ready = (reasons = {}), ![p].pr.reasons = reasons]
      BY <1>1, <1>4, <1>8, <2>2, <3>1 DEF FetchSuites
    <3>3. PICK m : m = [a.pr EXCEPT !.ready = (reasons = {}), !.reasons = reasons]
      OBVIOUS
    <3>4. PICK b : b = [a EXCEPT !.at = "tmp", !.pr = m]
      OBVIOUS
    <3>5. b.at = "tmp" /\ b.op = a.op /\ b.entry = a.entry /\ b.ask = a.ask /\ b.pr = m /\ m.requested = a.pr.requested
      BY <1>4, <3>3, <3>4 DEF AgentRecords, PrMetadata
    <3>6. agent' = [agent EXCEPT ![p] = b]
      BY <1>1, <1>4, <3>2, <3>3, <3>4 DEF AgentRecords
    <3> QED BY <1>6, <3>5, <3>6
  <2> QED BY <2>1, <2>2
<1> QED BY <1>7, <1>8
LEMMA UsersAppended ==
    ASSUME NEW old \in Seq([action : Entries, users : SUBSET Reviewer]),
           NEW new \in [action : Entries, users : SUBSET Reviewer], NEW actions, actions = Append(old, new)
    PROVE  UsersOf(actions) = UsersOf(old) \cup new.users
<1>1. PICK n \in Nat : n = Len(old) /\ DOMAIN old = 1..n
  OBVIOUS
<1>2. /\ DOMAIN actions = 1..(n + 1) /\ actions[n + 1] = new /\ \A i \in 1..n : actions[i] = old[i]
  BY <1>1
<1>3. \A u : (\E i \in 1..(n + 1) : u \in actions[i].users) <=> (\E i \in 1..n : u \in old[i].users) \/ u \in new.users
  <2>1. ASSUME NEW u, NEW i \in 1..(n + 1), u \in actions[i].users
        PROVE  (\E k \in 1..n : u \in old[k].users) \/ u \in new.users
    <3>1. i = n + 1 \/ i \in 1..n
      BY LastOrBefore
    <3> QED BY <1>2, <2>1, <3>1
  <2>2. n + 1 \in 1..(n + 1) /\ \A i \in 1..n : i \in 1..(n + 1)
    BY <1>1
  <2> QED BY <1>2, <2>1, <2>2
<1>4. \A u : u \in UsersOf(actions) <=> u \in UsersOf(old) \cup new.users
  BY <1>1, <1>2, <1>3 DEF UsersOf
<1> QED BY <1>4

\* The files of a command, written one after the other.
LEMMA CalmWrites ==
    ASSUME PrInv, CalmInv, Calm, UNCHANGED env, NEW p \in Process,
           WriteTmp(p) \/ Rename(p) \/ LinkFeature(p) \/ ReadLog(p) \/ WriteLog(p) \/ RenameLog(p)
    PROVE  CalmInv'
<1>1. PICK a \in AgentRecords : a = agent[p] /\ InPlace(a) /\ HandsTrue(a)
  BY EntryOf
<1>2. /\ a.at \in Writing /\ a.op \in {"create", "reviewers", "status"} /\ UNCHANGED remote
      /\ a.at \in {"tmp", "rename", "feature"} \/ a.at \in {"readLog", "log", "renameLog"}
  <2>1. a.at \in {"tmp", "rename", "feature"} \/ a.at \in {"readLog", "log", "renameLog"}
    BY <1>1 DEF WriteTmp, Rename, LinkFeature, ReadLog, WriteLog, RenameLog
  <2>2. UNCHANGED remote
    BY DEF WriteTmp, Rename, LinkFeature, ReadLog, WriteLog, RenameLog
  <2> QED BY <1>1, <2>1, <2>2 DEF InPlace, Reading, Writing, Asking, Deciding, Concluding
<1>3. CalmAt(a) /\ \A q \in Process : q # p => agent[q].at = "idle"
  BY <1>1, <1>2, Alone
<1>4. /\ a.pr # Absent /\ a.pr \in PrMetadata /\ agent \in [Process -> AgentRecords] /\ a.entry \in {"none"} \cup Entries
      /\ a.at \in {"readLog", "log", "renameLog"} => a.entry # "none"
      /\ a.op = "status" => a.entry = "none"
      /\ a.at = "log" => a.log # Absent /\ a.log \in TrueLogs
  BY <1>1, <1>2 DEF HandsTrue, AgentRecords, PrInv, TrueAgents
<1>5. /\ a.at # "rename" => prTmp = Absent
      /\ a.at # "renameLog" => historyTmp = Absent
      /\ a.op # "create" => prFile.kind = "pr" /\ linked
      /\ a.at = "rename" => prTmp = a.pr
      /\ a.at \in {"feature", "readLog", "log", "renameLog"} => prFile = a.pr
      /\ a.at \in {"readLog", "log", "renameLog"} => linked
      /\ a.entry = "none" => a.op = "status" /\ a.ask = {}
      /\ a.at \notin {"feature", "readLog", "log", "renameLog"} => IF a.op = "create" THEN Unwritten ELSE Settled
  BY <1>2, <1>3 DEF CalmAt
<1>6. ASSUME "deploy" \notin env.ops
      PROVE  /\ a.pr.requested = Users(history) \cup a.ask /\ a.ask \subseteq a.pr.requested
             /\ a.op # "create" => history # Absent
             /\ a.at = "log" => a.log = IF history = Absent THEN EmptyLog ELSE history
             /\ a.at = "renameLog" => historyTmp # Absent /\ a.pr.requested = Users(historyTmp)
  BY <1>2, <1>3, <1>6 DEF CalmAt
<1>7. ASSUME NEW at \in Writing, Goto(p, at)
      PROVE  \E b : /\ agent' = [agent EXCEPT ![p] = b]
                    /\ b.at = at /\ b.op = a.op /\ b.pr = a.pr /\ b.ask = a.ask /\ b.entry = a.entry
  <2>1. PICK b : b = [a EXCEPT !.at = at]
    OBVIOUS
  <2>2. b.at = at /\ b.op = a.op /\ b.pr = a.pr /\ b.ask = a.ask /\ b.entry = a.entry
    BY <2>1 DEF AgentRecords
  <2>3. agent' = [agent EXCEPT ![p] = b]
    BY <1>1, <1>4, <1>7, <2>1 DEF Goto, AgentRecords
  <2> QED BY <2>2, <2>3
<1>8. CASE WriteTmp(p)
  <2>1. a.at = "tmp" /\ prTmp' = a.pr /\ Goto(p, "rename") /\ UNCHANGED <<prFile, linked, history, historyTmp>>
    BY <1>1, <1>8 DEF WriteTmp
  <2>2. PICK b : /\ agent' = [agent EXCEPT ![p] = b] /\ b.at = "rename" /\ b.op = a.op /\ b.pr = a.pr /\ b.ask = a.ask
                 /\ b.entry = a.entry
    BY <1>7, <2>1 DEF Writing
  <2>3. Settled' = Settled /\ Unwritten' = Unwritten
    BY <1>2, <2>1, SettledStays DEF Unwritten
  <2>4. historyTmp = Absent /\ IF a.op = "create" THEN Unwritten ELSE Settled
    BY <1>5, <2>1
  <2>5. "deploy" \notin env'.ops => /\ a.pr.requested = Users(history') \cup a.ask /\ a.ask \subseteq a.pr.requested
                                    /\ a.op # "create" => history' # Absent
    BY <1>6, <2>1
  <2>6. CalmAt(b)'
    BY <1>5, <2>1, <2>2, <2>3, <2>4, <2>5 DEF CalmAt
  <2> QED BY <1>3, <2>2, <2>6, CalmGoes
<1>9. CASE Rename(p)
  <2>1. /\ a.at = "rename" /\ prFile' = a.pr /\ prTmp' = Absent /\ Goto(p, "feature") /\ UNCHANGED <<linked, history, historyTmp>>
    BY <1>1, <1>4, <1>5, <1>9 DEF Rename
  <2>2. PICK b : /\ agent' = [agent EXCEPT ![p] = b] /\ b.at = "feature" /\ b.op = a.op /\ b.pr = a.pr /\ b.ask = a.ask
                 /\ b.entry = a.entry
    BY <1>7, <2>1 DEF Writing
  <2>3. historyTmp' = Absent /\ (a.op # "create" => a.pr.kind = "pr" /\ linked')
    BY <1>4, <1>5, <2>1 DEF PrMetadata
  <2>4. "deploy" \notin env'.ops => /\ a.pr.requested = Users(history') \cup a.ask /\ a.ask \subseteq a.pr.requested
                                    /\ a.op # "create" => history' # Absent
    BY <1>6, <2>1
  <2>5. CalmAt(b)'
    BY <1>5, <2>1, <2>2, <2>3, <2>4 DEF CalmAt
  <2> QED BY <1>3, <2>2, <2>5, CalmGoes
<1>10. CASE LinkFeature(p)
  <2>1. a.at = "feature" /\ linked' = TRUE /\ UNCHANGED <<prFile, prTmp, history, historyTmp>> /\ prFile.kind = "pr"
    BY <1>1, <1>4, <1>5, <1>10 DEF LinkFeature, Calm, PrMetadata
  <2>2. CASE a.entry = "none"
    <3>1. a.op = "status" /\ a.ask = {} /\ prTmp = Absent /\ historyTmp = Absent /\ prFile = a.pr /\ prFile # Absent
      BY <1>4, <1>5, <2>1, <2>2
    <3>2. Linked'
      BY <2>1 DEF Linked
    <3>3. Named'
      <4>1. "deploy" \notin env.ops => history # Absent /\ prFile.requested = Users(history)
        BY <1>6, <3>1
      <4> QED BY <2>1, <3>1, <4>1 DEF Named, Users
    <3>4. Quit(p)
      BY <1>1, <1>10, <2>2 DEF LinkFeature
    <3> QED BY <1>3, <2>1, <3>1, <3>2, <3>3, <3>4, CalmEnds DEF Settled
  <2>3. CASE a.entry # "none"
    <3>1. Goto(p, "readLog")
      BY <1>1, <1>10, <2>3 DEF LinkFeature
    <3>2. PICK b : /\ agent' = [agent EXCEPT ![p] = b] /\ b.at = "readLog" /\ b.op = a.op /\ b.pr = a.pr /\ b.ask = a.ask
                   /\ b.entry = a.entry
      BY <1>7, <3>1 DEF Writing
    <3>3. "deploy" \notin env'.ops => /\ a.pr.requested = Users(history') \cup a.ask /\ a.ask \subseteq a.pr.requested
                                      /\ a.op # "create" => history' # Absent
      BY <1>6, <2>1
    <3>4. prTmp' = Absent /\ historyTmp' = Absent /\ prFile' = a.pr
      BY <1>5, <2>1
    <3>5. CalmAt(b)'
      BY <2>1, <2>3, <3>2, <3>3, <3>4 DEF CalmAt
    <3> QED BY <1>3, <3>2, <3>5, CalmGoes
  <2> QED BY <2>2, <2>3
<1>11. CASE ReadLog(p)
  <2>0. PICK found : found = IF history = Absent THEN EmptyLog ELSE history
    OBVIOUS
  <2>1. a.at = "readLog" /\ agent' = [agent EXCEPT ![p].at = "log", ![p].log = found] /\ UNCHANGED fileVars
    BY <1>1, <1>11, <2>0 DEF ReadLog
  <2>2. PICK b : /\ agent' = [agent EXCEPT ![p] = b] /\ b.at = "log" /\ b.op = a.op /\ b.pr = a.pr /\ b.ask = a.ask
                 /\ b.entry = a.entry /\ b.log = found
    <3>1. PICK b : b = [a EXCEPT !.at = "log", !.log = found]
      OBVIOUS
    <3>2. /\ b.at = "log" /\ b.op = a.op /\ b.pr = a.pr /\ b.ask = a.ask /\ b.entry = a.entry /\ b.log = found
      BY <3>1 DEF AgentRecords
    <3>3. agent' = [agent EXCEPT ![p] = b]
      BY <1>1, <1>4, <2>1, <3>1 DEF AgentRecords
    <3> QED BY <3>2, <3>3
  <2>3. /\ prTmp = Absent /\ historyTmp = Absent /\ prFile = a.pr /\ linked /\ a.entry # "none"
        /\ a.op # "create" => prFile.kind = "pr"
    BY <1>4, <1>5, <2>1
  <2>4. CalmAt(b)
    BY <1>6, <2>0, <2>2, <2>3 DEF CalmAt
  <2>5. CalmAt(b)'
    BY <1>2, <2>1, <2>4, CalmStays
  <2> QED BY <1>3, <2>2, <2>5, CalmGoes
<1>12. CASE WriteLog(p)
  <2>1. PICK new : new = [action |-> a.entry, users |-> a.ask]
    OBVIOUS
  <2>2. /\ a.at = "log" /\ historyTmp' = [a.log EXCEPT !.actions = Append(@, new)] /\ Goto(p, "renameLog")
        /\ UNCHANGED <<prFile, prTmp, linked, history>>
    BY <1>1, <1>12, <2>1 DEF WriteLog
  <2>3. PICK b : /\ agent' = [agent EXCEPT ![p] = b] /\ b.at = "renameLog" /\ b.op = a.op /\ b.pr = a.pr /\ b.ask = a.ask
                 /\ b.entry = a.entry
    BY <1>7, <2>2 DEF Writing
  <2>4. historyTmp' # Absent /\ Users(historyTmp') = Users(a.log) \cup a.ask
    <3>1. PICK old \in Seq([action : Entries, users : SUBSET Reviewer]) : old = a.log.actions
      BY <1>4, <2>2 DEF TrueLogs
    <3>2. PICK actions : actions = Append(old, new)
      OBVIOUS
    <3>3. historyTmp'.kind = "log" /\ historyTmp'.actions = actions
      BY <1>4, <2>2, <3>1, <3>2 DEF TrueLogs
    <3>4. new \in [action : Entries, users : SUBSET Reviewer] /\ new.users = a.ask
      BY <1>4, <2>1, <2>2 DEF AgentRecords
    <3>5. UsersOf(actions) = UsersOf(old) \cup a.ask
      <4>1. UsersOf(actions) = UsersOf(old) \cup new.users
        BY <3>1, <3>2, <3>4, UsersAppended
      <4> QED BY <3>4, <4>1
    <3>6. historyTmp' # Absent
      BY <3>3 DEF Absent
    <3>7. a.log # Absent
      BY <1>4, <2>2
    <3> QED BY <3>1, <3>3, <3>5, <3>6, <3>7 DEF Users
  <2>5. ASSUME "deploy" \notin env'.ops
        PROVE  /\ a.pr.requested = Users(history') \cup a.ask /\ a.ask \subseteq a.pr.requested
               /\ a.op # "create" => history' # Absent
               /\ a.pr.requested = Users(historyTmp')
    <3>1. Users(a.log) = Users(history)
      <4>1. UsersOf(EmptyLog.actions) = {}
        <5>1. EmptyLog.actions = <<>>
          BY DEF EmptyLog
        <5> QED BY <5>1 DEF UsersOf
      <4>2. EmptyLog # Absent
        BY DEF EmptyLog, Absent
      <4>3. Users(EmptyLog) = {} /\ Users(Absent) = {}
        BY <4>1, <4>2 DEF Users
      <4> QED BY <1>6, <2>2, <2>5, <4>3
    <3> QED BY <1>6, <2>2, <2>4, <2>5, <3>1
  <2>6. prTmp' = Absent /\ prFile' = a.pr /\ linked' /\ (a.op # "create" => prFile'.kind = "pr") /\ a.entry # "none"
    BY <1>4, <1>5, <2>2
  <2>7. CalmAt(b)'
    BY <2>3, <2>4, <2>5, <2>6 DEF CalmAt
  <2> QED BY <1>3, <2>3, <2>7, CalmGoes
<1>13. CASE RenameLog(p)
  <2>1. /\ a.at = "renameLog" /\ Quit(p) /\ UNCHANGED <<prFile, prTmp, linked>>
        /\ IF historyTmp = Absent THEN UNCHANGED <<history, historyTmp>>
                                  ELSE history' = historyTmp /\ historyTmp' = Absent
    BY <1>1, <1>13 DEF RenameLog
  <2>2. prTmp' = Absent /\ historyTmp' = Absent /\ prFile' = a.pr /\ linked' /\ prFile'.kind = "pr"
    BY <1>4, <1>5, <2>1 DEF PrMetadata
  <2>3. Linked'
    BY <2>2 DEF Linked
  <2>4. Named'
    <3>1. ASSUME "deploy" \notin env.ops PROVE history' # Absent /\ prFile'.requested = Users(history')
      BY <1>6, <2>1, <2>2, <3>1
    <3> QED BY <1>4, <2>2, <3>1 DEF Named, Users
  <2> QED BY <1>3, <2>1, <2>2, <2>3, <2>4, CalmEnds DEF Settled
<1> QED BY <1>8, <1>9, <1>10, <1>11, <1>12, <1>13
LEMMA CalmStep == PrInv /\ PrInv' /\ CalmInv /\ [Next]_vars => CalmInv'
<1> SUFFICES ASSUME PrInv, PrInv', CalmInv, [Next]_vars PROVE CalmInv'
  OBVIOUS
<1>1. UNCHANGED env
  BY DEF Next, vars
<1>2. CASE ~Calm
  BY <1>1, <1>2 DEF CalmInv, Calm
<1>3. CASE UNCHANGED <<prVars, env>>
  <2>1. UNCHANGED <<env, fileVars, remote, agent>>
    BY <1>3 DEF prVars
  <2>2. Settled' = Settled
    BY <2>1, SettledStays DEF fileVars
  <2>3. ASSUME NEW q \in Process PROVE CalmAt(agent[q])' = CalmAt(agent[q])
    <3>1. PICK a : a = agent[q] /\ a = agent'[q]
      BY <2>1
    <3>2. CalmAt(a)' = CalmAt(a)
      BY <2>1, CalmStays
    <3> QED BY <3>1, <3>2
  <2> QED BY <2>1, <2>2, <2>3 DEF CalmInv, Calm, fileVars
<1>4. CASE Calm /\ DeploymentNext
  <2>1. ASSUME NEW p \in Process,
               \/ BeginCreate(p) \/ CreatePr(p)
               \/ \E ask \in SUBSET Reviewer \ {{}} : BeginReviewers(p, ask)
               \/ AskReviewers(p)
               \/ BeginStatus(p) \/ FetchPr(p) \/ FetchSuites(p)
               \/ WriteTmp(p) \/ Rename(p) \/ LinkFeature(p)
               \/ ReadLog(p) \/ WriteLog(p) \/ RenameLog(p)
               \/ BeginRefresh(p) \/ ReadRules(p) \/ ReadRefs(p) \/ ReadChecks(p) \/ Compare(p)
               \/ ReadReviews(p) \/ WriteReport(p)
        PROVE  CalmInv'
    <3>1. CASE BeginCreate(p) \/ (\E ask \in SUBSET Reviewer \ {{}} : BeginReviewers(p, ask)) \/ BeginStatus(p) \/ BeginRefresh(p)
      <4>1. PICK op : \E b \in AgentRecords : BegunAs(p, op, b)
        BY <3>1, Begun
      <4> QED BY <1>1, <1>4, <4>1, CalmBegins
    <3>2. CASE CreatePr(p)
      BY <1>1, <1>4, <3>2, CalmCreates
    <3>3. CASE AskReviewers(p)
      BY <1>1, <1>4, <3>3, CalmAsks
    <3>4. CASE FetchPr(p) \/ FetchSuites(p)
      BY <1>1, <1>4, <3>4, CalmFetches
    <3>5. CASE WriteTmp(p) \/ Rename(p) \/ LinkFeature(p) \/ ReadLog(p) \/ WriteLog(p) \/ RenameLog(p)
      BY <1>1, <1>4, <3>5, CalmWrites
    <3>6. CASE ReadRules(p) \/ ReadRefs(p) \/ ReadChecks(p) \/ Compare(p) \/ ReadReviews(p) \/ WriteReport(p)
      BY <1>1, <1>4, <3>6, AsideSteps
    <3> QED BY <2>1, <3>1, <3>2, <3>3, <3>4, <3>5, <3>6
  <2>2. ASSUME NEW p \in Process,
               \/ \E force \in BOOLEAN : BeginDeploy(p, force)
               \/ Assess(p) \/ DryRun(p) \/ Merge(p) \/ GetNodeId(p) \/ AutoMerge(p) \/ Dispatch(p) \/ Refused(p)
               \/ ReadHistory(p) \/ PersistOutcome(p) \/ CrashAgent(p)
        PROVE  CalmInv'
    <3>1. CASE \E force \in BOOLEAN : BeginDeploy(p, force)
      <4>1. PICK op : \E b \in AgentRecords : BegunAs(p, op, b)
        BY <3>1, Begun
      <4> QED BY <1>1, <1>4, <4>1, CalmBegins
    <3>2. CASE CrashAgent(p)
      BY <1>4, <3>2 DEF CrashAgent, Calm
    <3>3. CASE \/ Assess(p) \/ DryRun(p) \/ Merge(p) \/ GetNodeId(p) \/ AutoMerge(p) \/ Dispatch(p) \/ Refused(p)
               \/ ReadHistory(p) \/ PersistOutcome(p)
      BY <1>1, <1>4, <3>3, AsideSteps
    <3> QED BY <2>2, <3>1, <3>2, <3>3
  <2>3. ASSUME Others /\ UNCHANGED <<fileVars, agent, commands, lock>> PROVE CalmInv'
    BY <1>1, <1>4, <2>3, CalmOthers
  <2> QED BY <1>4, <2>1, <2>2, <2>3 DEF DeploymentNext, PullRequestsNext
<1>5. UNCHANGED <<prVars, env>> \/ DeploymentNext
  BY DEF Next, vars, deployVars
<1> QED BY <1>2, <1>3, <1>4, <1>5

LEMMA FileFollows == PrInv /\ CalmInv => PrFileAgrees
<1> SUFFICES ASSUME PrInv, CalmInv PROVE PrFileAgrees
  OBVIOUS
<1>1. prFile.kind = "pr" => prFile \in TruePrs /\ prFile # Absent
  BY DEF PrInv, Absent
<1>2. prFile.kind = "pr" => remote.state # "none" /\ prFile.requested \subseteq remote.requested /\ prFile.head <= remote.head
  BY <1>1 DEF TruePrs
<1>3. ASSUME Quiet, Calm
      PROVE  /\ remote.state # "none" => prFile.kind = "pr" /\ linked
             /\ prFile.kind = "pr" /\ "deploy" \notin env.ops =>
                    prFile.requested = UNION {history.actions[i].users : i \in DOMAIN history.actions}
  <2>1. Linked /\ Named
    BY <1>3 DEF CalmInv, Quiet, Settled
  <2>2. prFile.kind = "pr" /\ "deploy" \notin env.ops => history # Absent /\ prFile.requested = Users(history)
    BY <1>1, <2>1 DEF Named
  <2> QED BY <2>1, <2>2 DEF Linked, Users, UsersOf
<1> QED BY <1>2, <1>3 DEF PrFileAgrees, Calm
-----------------------------------------------------------------------------
\* While only deployments write the history.
LEMMA KeptStart == Init => KeptInv
<1> SUFFICES ASSUME Init PROVE KeptInv
  OBVIOUS
<1>1. /\ env \in Environment /\ remote = [NoPullRequest EXCEPT !.state = env.start] /\ agent = [p \in Process |-> Idle]
  BY DEF Init, PullRequestsInit
<1>2. remote.state \in {"none", "open"} /\ remote.merged = 0
  BY <1>1, GitHubSettings DEF NoPullRequest
<1>3. \A p \in Process : agent[p].at = "idle"
  BY <1>1 DEF Idle
<1> QED BY <1>2, <1>3 DEF KeptInv

\* A merged pull request has its outcome, in the history or in the hands of who merged it.
Witnessed ==
    \/ \E i \in DOMAIN Outcomes(history) : Merged(Outcomes(history)[i])
    \/ \E p \in Process : agent[p].at \in Concluding /\ Merged(agent[p].entry)

\* A process that has no outcome yet goes on.
LEMMA KeptGoes ==
    ASSUME PrInv, KeptInv, Keeping, UNCHANGED <<env, lock, history>>, NEW p \in Process, agent[p].at \notin Concluding,
           NEW b, agent' = [agent EXCEPT ![p] = b], b.at # "persist",
           remote'.state = "merged" <=> remote'.merged # 0,
           \/ remote'.auto
           \/ remote'.merged = remote.merged /\ remote.auto = remote'.auto
           \/ b.at \in Concluding /\ Merged(b.entry)
    PROVE  KeptInv'
<1>1. agent'[p] = b /\ \A q \in Process : q # p => agent'[q] = agent[q]
  BY DEF PrInv
<1>2. \A q \in Process : agent'[q].at = "persist" =>
            lock' = q /\ agent'[q].log.outcomes = Append(Outcomes(history'), agent'[q].entry)
  BY <1>1 DEF KeptInv
<1>3. Witnessed => Witnessed'
  <2> SUFFICES ASSUME Witnessed PROVE Witnessed'
    OBVIOUS
  <2>1. CASE \E i \in DOMAIN Outcomes(history) : Merged(Outcomes(history)[i])
    BY <2>1 DEF Witnessed
  <2>2. CASE \E q \in Process : agent[q].at \in Concluding /\ Merged(agent[q].entry)
    <3>1. PICK q \in Process : agent[q].at \in Concluding /\ Merged(agent[q].entry)
      BY <2>2
    <3>2. agent'[q] = agent[q]
      BY <1>1, <3>1
    <3>3. agent'[q].at \in Concluding /\ Merged(agent'[q].entry)
      BY <3>1, <3>2
    <3> QED BY <3>3 DEF Witnessed
  <2> QED BY <2>1, <2>2 DEF Witnessed
<1>4. b.at \in Concluding /\ Merged(b.entry) => Witnessed'
  BY <1>1 DEF Witnessed
<1>5. remote'.merged # 0 /\ ~remote'.auto => Witnessed'
  <2>1. remote.merged # 0 /\ ~remote.auto => Witnessed
    BY DEF KeptInv, Witnessed
  <2> QED BY <1>3, <1>4, <2>1
<1> QED BY <1>2, <1>5 DEF KeptInv, Witnessed

LEMMA KeptQuits ==
    ASSUME PrInv, KeptInv, Keeping, UNCHANGED <<env, lock, history, remote>>, NEW p \in Process,
           agent[p].at \notin Concluding, Quit(p)
    PROVE  KeptInv'
<1>1. Idle.at # "persist"
  BY DEF Idle
<1> QED BY <1>1, KeptGoes DEF Quit, KeptInv

\* Under Keeping every busy process deploys.
LEMMA Deploying ==
    ASSUME PrInv, Keeping, NEW p \in Process, agent[p].at # "idle"
    PROVE  agent[p].at \in {"error"} \cup Deciding \cup Concluding
BY EntryOf DEF Keeping, InPlace

LEMMA KeptBegins ==
    ASSUME PrInv, KeptInv, Keeping, UNCHANGED <<env, lock>>, NEW p \in Process, NEW op, NEW b \in AgentRecords, BegunAs(p, op, b)
    PROVE  KeptInv'
<1>1. /\ agent[p].at = "idle" /\ op \in env.ops /\ UNCHANGED <<remote, fileVars>> /\ agent' = [agent EXCEPT ![p] = b]
      /\ b.at # "persist"
  BY DEF BegunAs, Starts
<1> QED BY <1>1, KeptGoes DEF Concluding, KeptInv, fileVars

LEMMA KeptMerges ==
    ASSUME PrInv, KeptInv, Keeping, UNCHANGED env, NEW p \in Process, Merge(p)
    PROVE  KeptInv'
<1>1. PICK a \in AgentRecords : a = agent[p]
  BY EntryOf
<1> DEFINE possible == remote.state = "open" /\ ~remote.draft /\ remote.mergeable /\ a.pr.head \in {ByName, remote.head}
           after == [remote EXCEPT !.state = "merged", !.merged = remote.head]
<1>2. PICK r \in Results(possible, after) : remote' = r.remote /\ Conclude(p, "merge", r.ok)
  BY <1>1 DEF Merge, mergePullRequest
<1>3. a.at = "merge" /\ UNCHANGED <<history, lock>> /\ RemoteTyped /\ agent \in [Process -> AgentRecords]
  BY <1>1 DEF Merge, Calling, PrInv, fileVars, TrueAgents
<1>4. /\ r.ok => possible /\ r.remote = after
      /\ r.ok \/ remote' = remote
  <2>1. possible \in BOOLEAN
    BY <1>3 DEF RemoteTyped
  <2> HIDE DEF possible, after
  <2>2. "lost" \notin env.events
    BY DEF Keeping
  <2> QED BY <1>2, <2>1, <2>2, ResultsAre
<1>5. PICK o : o = Outcome(p, "merge", r.ok)
  OBVIOUS
<1>6. o.ok = r.ok /\ o.strategy = "merge"
  BY <1>5 DEF Outcome
<1>7. PICK b : b = [a EXCEPT !.at = "outcome", !.entry = o]
  OBVIOUS
<1>8. b.at = "outcome" /\ b.entry = o
  BY <1>7 DEF AgentRecords
<1>9. agent' = [agent EXCEPT ![p] = b]
  <2>1. agent' = [agent EXCEPT ![p].at = "outcome", ![p].entry = o]
    BY <1>2, <1>5 DEF Conclude
  <2> QED BY <1>1, <1>3, <1>7, <2>1 DEF AgentRecords
<1>10. CASE r.ok
  <2>1. remote'.state = "merged" /\ remote'.merged # 0
    <3>1. remote.head # 0
      BY <1>3, Commits DEF RemoteTyped, ByName
    <3>2. after.state = "merged" /\ after.merged = remote.head
      BY <1>3 DEF RemoteTyped
    <3>3. remote' = after
      BY <1>2, <1>4, <1>10
    <3> HIDE DEF possible, after
    <3> QED BY <3>1, <3>2, <3>3
  <2>2. b.at \in Concluding /\ Merged(b.entry)
    BY <1>6, <1>8, <1>10 DEF Concluding, Merged
  <2>3. a.at \notin Concluding /\ b.at # "persist"
    BY <1>3, <1>8 DEF Concluding
  <2> HIDE DEF possible, after
  <2> QED BY <1>1, <1>3, <1>9, <2>1, <2>2, <2>3, KeptGoes
<1>11. CASE remote' = remote
  <2>1. a.at \notin Concluding /\ b.at # "persist"
    BY <1>3, <1>8 DEF Concluding
  <2>2. remote'.state = "merged" <=> remote'.merged # 0
    BY <1>11 DEF KeptInv
  <2> HIDE DEF possible, after
  <2> QED BY <1>1, <1>3, <1>9, <1>11, <2>1, <2>2, KeptGoes
<1> QED BY <1>4, <1>10, <1>11

LEMMA KeptCalls ==
    ASSUME PrInv, KeptInv, Keeping, UNCHANGED env, NEW p \in Process,
           Assess(p) \/ DryRun(p) \/ GetNodeId(p) \/ AutoMerge(p) \/ Dispatch(p) \/ Refused(p)
    PROVE  KeptInv'
<1>1. PICK a \in AgentRecords : a = agent[p]
  BY EntryOf
<1>2. a.at \notin Concluding /\ UNCHANGED <<history, lock>> /\ RemoteTyped /\ agent \in [Process -> AgentRecords]
  BY <1>1 DEF Assess, DryRun, GetNodeId, AutoMerge, Dispatch, Refused, Calling, PrInv, fileVars, TrueAgents, Concluding
<1>3. /\ remote'.state = "merged" <=> remote'.merged # 0
      /\ remote'.auto \/ (remote'.merged = remote.merged /\ remote.auto = remote'.auto)
  <2>1. CASE UNCHANGED remote
    BY <2>1 DEF KeptInv
  <2>2. ASSUME NEW after, NEW r \in Results(TRUE, after), remote' = r.remote,
               after.state = remote.state, after.merged = remote.merged, after.auto = remote.auto \/ after.auto = TRUE
        PROVE  /\ remote'.state = "merged" <=> remote'.merged # 0
               /\ remote'.auto \/ (remote'.merged = remote.merged /\ remote.auto = remote'.auto)
    <3>1. remote' = remote \/ remote' = after
      BY <2>2, ResultsAre
    <3> QED BY <2>2, <3>1 DEF KeptInv
  <2>3. CASE AutoMerge(p)
    <3>1. PICK after : after = IF remote.state = "open" /\ "refuse" \notin env.events THEN [remote EXCEPT !.auto = TRUE] ELSE remote
      OBVIOUS
    <3>2. after.state = remote.state /\ after.merged = remote.merged /\ (after.auto = remote.auto \/ after.auto = TRUE)
      BY <1>2, <3>1 DEF RemoteTyped
    <3>3. \E r \in Results(TRUE, after) : remote' = r.remote
      BY <2>3, <3>1 DEF AutoMerge, enableAutoMerge
    <3> QED BY <2>2, <3>2, <3>3
  <2>4. CASE Dispatch(p)
    <3>1. PICK after : after = [remote EXCEPT !.dispatched = TRUE]
      OBVIOUS
    <3>2. after.state = remote.state /\ after.merged = remote.merged /\ after.auto = remote.auto
      BY <1>2, <3>1 DEF RemoteTyped
    <3>3. UNCHANGED remote \/ \E r \in Results(TRUE, after) : remote' = r.remote
      BY <2>4, <3>1 DEF Dispatch, triggerWorkflow
    <3> QED BY <2>1, <2>2, <3>2, <3>3
  <2>5. UNCHANGED remote \/ AutoMerge(p) \/ Dispatch(p)
    BY DEF Assess, DryRun, GetNodeId, Refused
  <2> QED BY <2>1, <2>3, <2>4, <2>5
<1>4. \E b : agent' = [agent EXCEPT ![p] = b] /\ b.at # "persist"
  <2>1. ASSUME NEW at, NEW f, agent' = [agent EXCEPT ![p].at = at, ![p].seen = f], at # "persist"
        PROVE  \E b : agent' = [agent EXCEPT ![p] = b] /\ b.at # "persist"
    <3>1. PICK b : b = [a EXCEPT !.at = at, !.seen = f]
      OBVIOUS
    <3>2. agent' = [agent EXCEPT ![p] = b] /\ b.at = at
      BY <1>1, <1>2, <2>1, <3>1 DEF AgentRecords
    <3> QED BY <2>1, <3>2
  <2>2. ASSUME NEW strategy, NEW ok, Conclude(p, strategy, ok)
        PROVE  \E b : agent' = [agent EXCEPT ![p] = b] /\ b.at # "persist"
    <3>1. PICK o : o = Outcome(p, strategy, ok)
      OBVIOUS
    <3>2. agent' = [agent EXCEPT ![p].at = "outcome", ![p].entry = o]
      BY <2>2, <3>1 DEF Conclude
    <3>3. PICK b : b = [a EXCEPT !.at = "outcome", !.entry = o]
      OBVIOUS
    <3>4. agent' = [agent EXCEPT ![p] = b] /\ b.at = "outcome"
      BY <1>1, <1>2, <3>2, <3>3 DEF AgentRecords
    <3> QED BY <3>4
  <2>3. CASE Assess(p)
    <3>1. PICK ok \in BOOLEAN, strategy \in {"blocked", "dispatch", "merge", "auto"} :
               agent' = [agent EXCEPT ![p].at = IF ~ok THEN "error" ELSE IF strategy = "auto" THEN "node" ELSE strategy,
                                      ![p].seen = getPullRequest]
      <4>1. a.force \in BOOLEAN
        BY DEF AgentRecords
      <4>2. Strategy(Blockers(a.report, getPullRequest), a.force, a.report) \in {"blocked", "dispatch", "merge", "auto"}
        BY <4>1, Strategies
      <4>3. Reads \subseteq BOOLEAN
        BY DEF Reads
      <4> QED BY <1>1, <2>3, <4>2, <4>3 DEF Assess
    <3> DEFINE at == IF ~ok THEN "error" ELSE IF strategy = "auto" THEN "node" ELSE strategy
    <3>2. at # "persist"
      BY <3>1
    <3> HIDE DEF at
    <3>3. agent' = [agent EXCEPT ![p].at = at, ![p].seen = getPullRequest]
      BY <3>1 DEF at
    <3> QED BY <2>1, <3>2, <3>3
  <2>4. CASE AutoMerge(p) \/ Dispatch(p) \/ Refused(p)
    BY <2>2, <2>4 DEF AutoMerge, Dispatch, Refused
  <2>5. CASE DryRun(p)
    <3>1. Idle.at # "persist"
      BY DEF Idle
    <3> QED BY <2>5, <3>1 DEF DryRun, Quit
  <2>6. CASE GetNodeId(p)
    <3>1. CASE Goto(p, "auto")
      <4>1. PICK b : b = [a EXCEPT !.at = "auto"]
        OBVIOUS
      <4>2. agent' = [agent EXCEPT ![p] = b] /\ b.at = "auto"
        BY <1>1, <1>2, <3>1, <4>1 DEF Goto, AgentRecords
      <4> QED BY <4>2
    <3> QED BY <2>2, <2>6, <3>1 DEF GetNodeId
  <2> QED BY <2>3, <2>4, <2>5, <2>6
<1>5. PICK b : agent' = [agent EXCEPT ![p] = b] /\ b.at # "persist"
  BY <1>4
<1> QED BY <1>1, <1>2, <1>3, <1>5, KeptGoes

LEMMA KeptOthers ==
    ASSUME PrInv, KeptInv, Keeping, UNCHANGED <<env, fileVars, agent, lock>>, Others
    PROVE  KeptInv'
<1>1. RemoteTyped /\ remote.state = "open" /\ remote.head # 0
  BY Commits DEF PrInv, RemoteTyped, Others, ByName
<1>2. remote.merged = 0
  BY <1>1 DEF KeptInv
<1>3. \/ remote'.state # "merged" /\ remote'.merged = 0
      \/ remote.auto /\ remote'.auto /\ remote'.state = "merged" /\ remote'.merged # 0
  <2>1. CASE /\ remote.auto /\ remote' = [remote EXCEPT !.state = "merged", !.merged = remote.head]
    BY <1>1, <2>1 DEF RemoteTyped
  <2>2. CASE remote'.state \in {"open", "closed"} /\ remote'.merged = remote.merged
    BY <1>2, <2>2
  <2> QED BY <1>1, <2>1, <2>2 DEF Others, RemoteTyped
<1>4. \A p \in Process : agent'[p].at = "persist" =>
            lock' = p /\ agent'[p].log.outcomes = Append(Outcomes(history'), agent'[p].entry)
  BY DEF KeptInv, fileVars
<1> QED BY <1>3, <1>4 DEF KeptInv

\* The history is read and written under the lock.
LEMMA KeptReads ==
    ASSUME PrInv, KeptInv, Keeping, UNCHANGED env, NEW p \in Process, ReadHistory(p)
    PROVE  KeptInv'
<1>1. PICK a \in AgentRecords : a = agent[p]
  BY EntryOf
<1>2. PICK log : log = [EmptyLog EXCEPT !.outcomes = Append(Outcomes(history), a.entry)]
  OBVIOUS
<1>3. /\ a.at = "outcome" /\ UNCHANGED <<remote, fileVars>> /\ lock = Nobody /\ lock' = p
      /\ agent' = [agent EXCEPT ![p].at = "persist", ![p].log = log]
  BY <1>1, <1>2 DEF ReadHistory, Acquire, Outcomes
<1>4. log.outcomes = Append(Outcomes(history), a.entry)
  BY <1>2 DEF EmptyLog
<1>5. PICK b : b = [a EXCEPT !.at = "persist", !.log = log]
  OBVIOUS
<1>6. b.at = "persist" /\ b.log = log /\ b.entry = a.entry
  BY <1>5 DEF AgentRecords
<1>7. agent \in [Process -> AgentRecords]
  BY DEF PrInv, TrueAgents
<1>8. agent'[p] = b /\ \A q \in Process : q # p => agent'[q] = agent[q]
  BY <1>1, <1>3, <1>5, <1>7 DEF AgentRecords
<1>9. \A q \in Process : agent[q].at # "persist"
  BY <1>3, DirectoryAssumption DEF KeptInv
<1>10. \A q \in Process : agent'[q].at = "persist" =>
            lock' = q /\ agent'[q].log.outcomes = Append(Outcomes(history'), agent'[q].entry)
  <2> SUFFICES ASSUME NEW q \in Process, agent'[q].at = "persist"
      PROVE  lock' = q /\ agent'[q].log.outcomes = Append(Outcomes(history'), agent'[q].entry)
    OBVIOUS
  <2>1. q = p
    BY <1>8, <1>9
  <2>2. Outcomes(history') = Outcomes(history)
    BY <1>3 DEF fileVars
  <2> QED BY <1>3, <1>4, <1>6, <1>8, <2>1, <2>2
<1>11. \A q \in Process : agent[q].at \in Concluding /\ Merged(agent[q].entry) =>
            agent'[q].at \in Concluding /\ Merged(agent'[q].entry)
  BY <1>1, <1>6, <1>8 DEF Concluding
<1>12. Witnessed => Witnessed'
  <2>1. history' = history
    BY <1>3 DEF fileVars
  <2> QED BY <1>11, <2>1 DEF Witnessed
<1> QED BY <1>3, <1>10, <1>12 DEF KeptInv, Witnessed

LEMMA KeptWrites ==
    ASSUME PrInv, KeptInv, Keeping, UNCHANGED env, NEW p \in Process, PersistOutcome(p)
    PROVE  KeptInv'
<1>1. PICK a \in AgentRecords : a = agent[p] /\ HandsTrue(a)
  BY EntryOf
<1>2. /\ a.at = "persist" /\ UNCHANGED remote /\ lock = p /\ lock' = Nobody /\ history' = a.log /\ Quit(p)
  BY <1>1 DEF PersistOutcome, Release
<1>3. a.log # Absent /\ a.log.outcomes = Append(Outcomes(history), a.entry)
  BY <1>1, <1>2 DEF HandsTrue, KeptInv
<1>4. Outcomes(history') = Append(Outcomes(history), a.entry)
  BY <1>2, <1>3 DEF Outcomes
<1>5. Outcomes(history) \in Seq(TrueOutcomes)
  BY FilesTrue DEF Outcomes, TrueLogs
<1>6. PICK old \in Seq(TrueOutcomes), n \in Nat : old = Outcomes(history) /\ n = Len(old) /\ DOMAIN old = 1..n
  BY <1>5
<1>7. PICK new : /\ new = Outcomes(history') /\ DOMAIN new = 1..(n + 1) /\ new[n + 1] = a.entry
                 /\ \A i \in 1..n : new[i] = old[i]
  BY <1>4, <1>6
<1>8. agent \in [Process -> AgentRecords]
  BY DEF PrInv, TrueAgents
<1>9. agent'[p].at = "idle" /\ \A q \in Process : q # p => agent'[q] = agent[q]
  BY <1>2, <1>8 DEF Quit, Idle
<1>10. \A q \in Process : agent'[q].at # "persist"
  <2>1. \A q \in Process : q # p => agent[q].at # "persist"
    BY <1>2 DEF KeptInv
  <2> QED BY <1>9, <2>1
<1>11. Witnessed => Witnessed'
  <2>1. CASE \E i \in DOMAIN Outcomes(history) : Merged(Outcomes(history)[i])
    <3>1. PICK i \in 1..n : Merged(old[i])
      BY <1>6, <2>1
    <3>2. i \in 1..(n + 1) /\ Merged(new[i])
      BY <1>6, <1>7, <3>1
    <3> QED BY <1>7, <3>2 DEF Witnessed
  <2>2. ASSUME NEW q \in Process, agent[q].at \in Concluding, Merged(agent[q].entry) PROVE Witnessed'
    <3>1. CASE q = p
      <4>1. n + 1 \in 1..(n + 1) /\ Merged(new[n + 1])
        BY <1>1, <1>6, <1>7, <2>2, <3>1
      <4> QED BY <1>7, <4>1 DEF Witnessed
    <3>2. CASE q # p
      BY <1>9, <2>2, <3>2 DEF Witnessed
    <3> QED BY <3>1, <3>2
  <2> QED BY <2>1, <2>2 DEF Witnessed
<1> QED BY <1>2, <1>10, <1>11 DEF KeptInv, Witnessed

LEMMA KeptStep == PrInv /\ KeptInv /\ [Next]_vars => KeptInv'
<1> SUFFICES ASSUME PrInv, KeptInv, [Next]_vars PROVE KeptInv'
  OBVIOUS
<1>1. UNCHANGED env
  BY DEF Next, vars
<1>2. CASE ~Keeping
  BY <1>1, <1>2 DEF KeptInv, Keeping
<1>3. CASE UNCHANGED deployVars
  <2>1. UNCHANGED <<remote, history, agent, lock>>
    BY <1>3 DEF deployVars, prVars, fileVars
  <2> QED BY <1>1, <2>1 DEF KeptInv, Keeping
<1>4. CASE env.part # "pullRequest" /\ UNCHANGED prVars
  <2>1. UNCHANGED <<remote, history, agent>>
    BY <1>4 DEF prVars, fileVars
  <2>2. \A p \in Process : agent[p].at = "idle"
    BY <1>4 DEF PrInv
  <2> QED BY <1>1, <2>1, <2>2 DEF KeptInv, Keeping
<1>5. CASE Keeping /\ DeploymentNext
  <2>1. ASSUME NEW p \in Process, UNCHANGED lock,
               \/ BeginCreate(p) \/ CreatePr(p)
               \/ \E ask \in SUBSET Reviewer \ {{}} : BeginReviewers(p, ask)
               \/ AskReviewers(p)
               \/ BeginStatus(p) \/ FetchPr(p) \/ FetchSuites(p)
               \/ WriteTmp(p) \/ Rename(p) \/ LinkFeature(p)
               \/ ReadLog(p) \/ WriteLog(p) \/ RenameLog(p)
               \/ BeginRefresh(p) \/ ReadRules(p) \/ ReadRefs(p) \/ ReadChecks(p) \/ Compare(p)
               \/ ReadReviews(p) \/ WriteReport(p)
        PROVE  KeptInv'
    <3>1. CASE BeginCreate(p) \/ (\E ask \in SUBSET Reviewer \ {{}} : BeginReviewers(p, ask)) \/ BeginStatus(p) \/ BeginRefresh(p)
      <4>1. PICK op : \E b \in AgentRecords : BegunAs(p, op, b)
        BY <3>1, Begun
      <4> QED BY <1>1, <1>5, <2>1, <4>1, KeptBegins
    <3>2. CASE \/ CreatePr(p) \/ AskReviewers(p) \/ FetchPr(p) \/ FetchSuites(p)
               \/ WriteTmp(p) \/ Rename(p) \/ LinkFeature(p) \/ ReadLog(p) \/ WriteLog(p) \/ RenameLog(p)
               \/ ReadRules(p) \/ ReadRefs(p) \/ ReadChecks(p) \/ Compare(p) \/ ReadReviews(p) \/ WriteReport(p)
      <4>1. agent[p].at \in {"create", "ask"} \cup Reading \cup Writing \cup Asking
        BY <3>2 DEF CreatePr, AskReviewers, FetchPr, FetchSuites, WriteTmp, Rename, LinkFeature, ReadLog, WriteLog, RenameLog,
                    ReadRules, ReadRefs, ReadChecks, Compare, ReadReviews, WriteReport, Request, Reading, Writing, Asking
      <4> QED BY <1>5, <4>1, Deploying DEF Reading, Writing, Asking, Deciding, Concluding
    <3> QED BY <2>1, <3>1, <3>2
  <2>2. ASSUME NEW p \in Process,
               \/ \E force \in BOOLEAN : BeginDeploy(p, force)
               \/ Assess(p) \/ DryRun(p) \/ Merge(p) \/ GetNodeId(p) \/ AutoMerge(p) \/ Dispatch(p) \/ Refused(p)
               \/ ReadHistory(p) \/ PersistOutcome(p) \/ CrashAgent(p)
        PROVE  KeptInv'
    <3>1. CASE \E force \in BOOLEAN : BeginDeploy(p, force)
      <4>1. PICK op : \E b \in AgentRecords : BegunAs(p, op, b)
        BY <3>1, Begun
      <4>2. UNCHANGED lock
        BY <3>1 DEF BeginDeploy
      <4> QED BY <1>1, <1>5, <4>1, <4>2, KeptBegins
    <3>2. CASE CrashAgent(p)
      BY <1>5, <3>2 DEF CrashAgent, Keeping
    <3>3. CASE Assess(p) \/ DryRun(p) \/ GetNodeId(p) \/ AutoMerge(p) \/ Dispatch(p) \/ Refused(p)
      BY <1>1, <1>5, <3>3, KeptCalls
    <3>4. CASE Merge(p)
      BY <1>1, <1>5, <3>4, KeptMerges
    <3>5. CASE ReadHistory(p)
      BY <1>1, <1>5, <3>5, KeptReads
    <3>6. CASE PersistOutcome(p)
      BY <1>1, <1>5, <3>6, KeptWrites
    <3> QED BY <2>2, <3>1, <3>2, <3>3, <3>4, <3>5, <3>6
  <2>3. ASSUME Others /\ UNCHANGED <<fileVars, agent, commands, lock>> PROVE KeptInv'
    BY <1>1, <1>5, <2>3, KeptOthers
  <2> QED BY <1>5, <2>1, <2>2, <2>3 DEF DeploymentNext, PullRequestsNext
<1>6. UNCHANGED deployVars \/ DeploymentNext \/ (env.part # "pullRequest" /\ UNCHANGED prVars)
  BY DEF Next, vars, deployVars
<1> QED BY <1>2, <1>3, <1>4, <1>5, <1>6

LEMMA KeptFollows == KeptInv => OutcomesKept
<1> SUFFICES ASSUME KeptInv, Keeping, Quiet, remote.merged # 0, ~remote.auto
    PROVE  \E i \in DOMAIN history.outcomes : history.outcomes[i].ok /\ history.outcomes[i].strategy = "merge"
  BY DEF OutcomesKept, Keeping
<1>1. \A p \in Process : agent[p].at \notin Concluding
  BY DEF Quiet, Concluding
<1>2. PICK i \in DOMAIN Outcomes(history) : Merged(Outcomes(history)[i])
  BY <1>1 DEF KeptInv
<1>3. Outcomes(history) = history.outcomes
  <2>1. DOMAIN <<>> = {}
    OBVIOUS
  <2> QED BY <1>2, <2>1 DEF Outcomes
<1> QED BY <1>2, <1>3 DEF Merged
-----------------------------------------------------------------------------
RecordsInv == PrInv /\ CalmInv /\ KeptInv

LEMMA RecordsStart == Init => RecordsInv
BY PrStart, CalmStart, KeptStart DEF RecordsInv

LEMMA RecordsStep == RecordsInv /\ [Next]_vars => RecordsInv'
BY PrStep, CalmStep, KeptStep DEF RecordsInv

LEMMA RecordsFollow == RecordsInv => RecordsAgree /\ OutcomesAgree
BY ReportFollows, OutcomesFollow, FileFollows, KeptFollows DEF RecordsInv, RecordsAgree, OutcomesAgree

(***************************************************************************)
(* Whatever GitHub, the other commands and the reviewers do meanwhile,     *)
(* pr.json claims no more than GitHub knows, a report that a refresh put   *)
(* together from several answers is true of the commit it names, and its   *)
(* verdicts agree; after commands that follow one another without failing  *)
(* a pull request is recorded and deployment.json names its reviewers.     *)
(* (persistPRData, logDeploymentAction, evaluateCompliance)                *)
(***************************************************************************)
THEOREM RecordsTrue == Spec => []RecordsAgree
<1> QED BY RecordsStart, RecordsStep, RecordsFollow, PTL DEF Spec

(***************************************************************************)
(* An outcome of triggerDeployment that says success happened, at the      *)
(* commit pr.json had when the deployment began; without force, on a       *)
(* report of that commit, the rules were satisfied; and no outcome of a    *)
(* merge is lost while deployments alone write deployment.json, however    *)
(* many of them run side by side.                                          *)
(* (executeManualMerge, assessMergeReadiness, persistDeploymentOutcome)    *)
(***************************************************************************)
THEOREM OutcomesHold == Spec => []OutcomesAgree
<1> QED BY RecordsStart, RecordsStep, RecordsFollow, PTL DEF Spec
-----------------------------------------------------------------------------
(* Agents.tla *)

LEMMA ItemAdded ==
    ASSUME NEW S, NEW some \in Seq(S), NEW x \in S, NEW more, more = Append(some, x), NEW n, n = Len(some) + 1
    PROVE  /\ more \in Seq(S) /\ Len(more) = n /\ DOMAIN more = DOMAIN some \cup {n} /\ more[n] = x
           /\ n \in Nat /\ n \notin DOMAIN some /\ \A k \in DOMAIN some : more[k] = some[k]
OBVIOUS

CalledManifest == [id : Provider, version : Nat]
NextManifest == [id : Provider \cup {Nobody}, version : Nat]
AgentSession ==
    [by : Process, at : {"chosen", "waiting", "failed", "answered", "closing", "done", "past", "lost"}, began : Int,
     tried : Seq(CalledManifest), failures : Seq(env.answers \cup {"transient", "permanent"}), next : NextManifest, hash : Nat,
     cost : Nat, charged : Int]
AgentAdapter ==
    [registry : [Provider -> Nat], prices : [Provider -> Nat], tracking : BOOLEAN, counted : Seq(Nat), accepted : SUBSET Nat]
CostFiles == [ok : BOOLEAN, file : Seq(Nat), log : Seq(Nat)]

AgentsTyped ==
    /\ env \in Environment
    /\ manifestFile \in [Provider -> Nat]
    /\ adapter \in [Process -> AgentAdapter]
    /\ session \in Seq(AgentSession)
    /\ costs \in CostFiles
    /\ sessionLog \in Seq(Nat)
    /\ ticks \in Nat

AtWork(a) == a.tracking \/ a.registry # NoManifests
KnownVersion(i, v) == v \in 1..Len(env.manifests[i])

\* What an adapter has registered is in the files; its prices are those of its manifests unless one of them came later.
Configured(a) ==
    /\ a = NoAdapter \/ AtWork(a)
    /\ \A i \in Provider : /\ a.registry[i] # 0 => KnownVersion(i, a.registry[i])
                           /\ a.prices[i] # 0 => KnownVersion(i, a.prices[i])
    /\ env.events \cap {"late", "edit"} = {} => a.prices = a.registry

AdaptersConfigured ==
    /\ \A p \in Process : \A a : a = adapter[p] => Configured(a)
    /\ env.part = "agents" => \A i \in Provider : KnownVersion(i, manifestFile[i])

\* A session before its next call.
ToCall(s, a) ==
    /\ s.next.id \in Provider /\ KnownVersion(s.next.id, s.next.version)
    /\ s.at = "chosen" => s.tried = <<>> /\ Matches(Manifest(s.next.id, s.next.version))
    /\ s.at = "waiting" => /\ s.tried # <<>> /\ Len(s.tried) <= env.fallbacks
                           /\ \A k \in DOMAIN s.failures : s.failures[k] = "transient"
                           /\ \A k \in DOMAIN s.tried : s.tried[k].id # s.next.id
    /\ s.at = "chosen" \/ "edit" \notin env.events => a.registry[s.next.id] = s.next.version

\* The providers that a session has called.
CalledOnce(s) ==
    /\ Len(s.tried) <= env.fallbacks + 1
    /\ \A j, k \in DOMAIN s.tried : j # k => s.tried[j].id # s.tried[k].id
    /\ \A k \in DOMAIN s.failures : k < Len(s.tried) => s.failures[k] = "transient"
    /\ s.tried # <<>> => Matches(Manifest(s.tried[1].id, s.tried[1].version))
    /\ s.hash # 0 /\ s.hash # Seqs!Last(s.tried).version => "edit" \in env.events /\ Len(s.tried) > 1

SessionSound(s, a) ==
    /\ CalledOnce(s)
    /\ s.at \notin {"done", "past", "lost"} => AtWork(a)
    /\ s.at \in {"chosen", "waiting", "failed"} => s.hash = 0 /\ s.charged = -1 /\ Len(s.failures) = Len(s.tried)
    /\ s.at \in {"chosen", "waiting"} => ToCall(s, a)
    /\ s.at = "failed" => s.tried # <<>>
    /\ s.at = "answered" => a.tracking /\ s.charged >= 0
    /\ env.events \cap {"late", "edit"} = {} /\ s.charged >= 0 => s.charged = s.cost

SessionsSound ==
    \A n \in DOMAIN session : \A s, a : s = session[n] /\ a = adapter[s.by] => SessionSound(s, a)

Started(p, t) ==
    {n \in DOMAIN session : session[n].by = p /\ session[n].at \notin {"past", "lost"} /\ session[n].began \in {t - 1, t}}

SessionsAccepted ==
    /\ \A n \in DOMAIN session : session[n].began <= ticks
    /\ \A p \in Process :
        /\ adapter[p].accepted \subseteq DOMAIN session
        /\ \A n \in DOMAIN session :
            session[n].by = p /\ session[n].at \notin {"past", "lost"} /\ session[n].began >= ticks - 1 => n \in adapter[p].accepted
        /\ \A t \in Nat : Cardinality(Started(p, t)) <= env.limit

Once(list) == \A j, k \in DOMAIN list : j # k => list[j] # list[k]

SessionsRecorded ==
    /\ Once(sessionLog)
    /\ \A k \in DOMAIN sessionLog : sessionLog[k] \in DOMAIN session /\ session[sessionLog[k]].at \in {"done", "past"}
    /\ "failure" \notin env.events =>
        \A n \in DOMAIN session : session[n].at \in {"done", "past"} => \E k \in DOMAIN sessionLog : sessionLog[k] = n

Tally(list) ==
    /\ Once(list)
    /\ \A k \in DOMAIN list : /\ list[k] \in DOMAIN session /\ session[list[k]].charged >= 0
                              /\ session[list[k]].at \notin {"chosen", "waiting", "failed"}

CostsCounted ==
    /\ \A p \in Process : Tally(adapter[p].counted)
    /\ Tally(costs.file) /\ Tally(costs.log)
    /\ \A k \in DOMAIN costs.log : session[costs.log[k]].at # "answered"

AnsweredBy(p) == {n \in DOMAIN session : session[n].by = p /\ session[n].at = "answered"}

OneAfterTheOther ==
    env.events \cap {"overlap", "crash", "failure"} = {} =>
        /\ costs.ok
        /\ \A p, q \in Process : AtWork(adapter[p]) /\ AtWork(adapter[q]) => p = q
        /\ \A p \in Process : adapter[p].tracking =>
            /\ Elements(adapter[p].counted) = Elements(costs.log) \cup AnsweredBy(p)
            /\ Len(costs.file) <= Len(adapter[p].counted)
            /\ \A k \in DOMAIN costs.file : costs.file[k] = adapter[p].counted[k]
        /\ (\A p \in Process : ~adapter[p].tracking) => Elements(costs.file) = Elements(costs.log)

AgentsInv ==
    /\ AgentsTyped /\ AdaptersConfigured /\ SessionsSound /\ SessionsAccepted /\ SessionsRecorded /\ CostsCounted
    /\ OneAfterTheOther

LEMMA NoAdapterIs ==
    /\ NoAdapter \in AgentAdapter /\ NoAdapter.registry = NoManifests /\ NoAdapter.prices = NoManifests /\ NoAdapter.tracking = FALSE
    /\ NoAdapter.counted = <<>> /\ NoAdapter.accepted = {} /\ ~AtWork(NoAdapter)
    /\ NoManifests \in [Provider -> Nat] /\ \A i \in Provider : NoManifests[i] = 0
<1>1. NoManifests \in [Provider -> Nat] /\ \A i \in Provider : NoManifests[i] = 0
  BY DEF NoManifests
<1>2. <<>> \in Seq(Nat)
  OBVIOUS
<1>3. /\ NoAdapter.registry = NoManifests /\ NoAdapter.prices = NoManifests /\ NoAdapter.tracking = FALSE
      /\ NoAdapter.counted = <<>> /\ NoAdapter.accepted = {}
  BY DEF NoAdapter
<1>4. NoAdapter \in AgentAdapter
  BY <1>1, <1>2 DEF NoAdapter, AgentAdapter
<1> QED BY <1>1, <1>3, <1>4 DEF AtWork

\* What the invariants say depends on the settings alone, and those stay.
LEMMA SettingsStay ==
    ASSUME env' = env
    PROVE  /\ AgentSession' = AgentSession
           /\ \A i, v : KnownVersion(i, v)' <=> KnownVersion(i, v)
           /\ \A a : Configured(a)' <=> Configured(a)
           /\ \A s, a : SessionSound(s, a)' <=> SessionSound(s, a)
<1>1. AgentSession' = AgentSession
  BY DEF AgentSession
<1>2. \A i, v : (KnownVersion(i, v)' <=> KnownVersion(i, v)) /\ Manifest(i, v)' = Manifest(i, v)
  BY DEF KnownVersion, Manifest
<1>3. \A m : Matches(m)' <=> Matches(m)
  BY DEF Matches, Models
<1>4. \A a : Configured(a)' <=> Configured(a)
  BY <1>2 DEF Configured
<1>5. \A i, v : Matches(Manifest(i, v))' <=> Matches(Manifest(i, v))
  BY DEF Matches, Models, Manifest
<1>6. \A s, a : ToCall(s, a)' <=> ToCall(s, a)
  BY <1>2, <1>5 DEF ToCall
<1>7. \A s : CalledOnce(s)' <=> CalledOnce(s)
  BY <1>5 DEF CalledOnce
<1>8. \A s, a : SessionSound(s, a)' <=> SessionSound(s, a)
  BY <1>6, <1>7 DEF SessionSound
<1> QED BY <1>1, <1>2, <1>4, <1>8

LEMMA AgentsStart == Init => AgentsInv
<1> SUFFICES ASSUME Init PROVE AgentsInv
  OBVIOUS
<1>1. /\ env \in Environment /\ manifestFile = [i \in Provider |-> 1] /\ adapter = [p \in Process |-> NoAdapter]
      /\ session = <<>> /\ costs = [ok |-> TRUE, file |-> <<>>, log |-> <<>>] /\ sessionLog = <<>> /\ ticks = 0
  BY DEF Init, AgentsInit
<1>2. \A p \in Process : adapter[p] = NoAdapter
  BY <1>1
<1>3. DOMAIN session = {} /\ session \in Seq(AgentSession) /\ sessionLog \in Seq(Nat) /\ DOMAIN sessionLog = {}
  BY <1>1
<1>4. costs \in CostFiles /\ costs.file = <<>> /\ costs.log = <<>> /\ costs.ok
  <2>1. <<>> \in Seq(Nat)
    OBVIOUS
  <2> QED BY <1>1, <2>1 DEF CostFiles
<1>5. AgentsTyped
  <2>1. adapter \in [Process -> AgentAdapter] /\ manifestFile \in [Provider -> Nat] /\ ticks \in Nat
    BY <1>1, NoAdapterIs
  <2> QED BY <1>1, <1>3, <1>4, <2>1 DEF AgentsTyped
<1>6. AdaptersConfigured
  <2>1. Configured(NoAdapter)
    BY NoAdapterIs DEF Configured
  <2>2. ASSUME env.part = "agents", NEW i \in Provider PROVE KnownVersion(i, manifestFile[i])
    <3>1. Len(env.manifests[i]) \in Nat \ {0}
      BY <1>1, <2>2, AgentsAssumption
    <3>2. manifestFile[i] = 1
      BY <1>1
    <3> QED BY <3>1, <3>2 DEF KnownVersion
  <2> QED BY <1>2, <2>1, <2>2 DEF AdaptersConfigured
<1>7. SessionsSound
  BY <1>3 DEF SessionsSound
<1>8. SessionsAccepted
  <2>1. ASSUME NEW p, NEW t PROVE Cardinality(Started(p, t)) = 0
    <3>1. Started(p, t) = {}
      BY <1>3 DEF Started
    <3> QED BY <3>1, FS_EmptySet
  <2>2. 0 <= env.limit
    BY <1>1, AgentsAssumption
  <2> QED BY <1>2, <1>3, <2>1, <2>2, NoAdapterIs DEF SessionsAccepted
<1>9. SessionsRecorded
  BY <1>3 DEF SessionsRecorded, Once
<1>10. CostsCounted
  <2>1. DOMAIN <<>> = {}
    OBVIOUS
  <2>2. Tally(<<>>)
    BY <2>1 DEF Tally, Once
  <2> QED BY <1>2, <1>4, <2>1, <2>2, NoAdapterIs DEF CostsCounted
<1>11. OneAfterTheOther
  <2>1. \A p \in Process : ~AtWork(adapter[p]) /\ ~adapter[p].tracking
    BY <1>2, NoAdapterIs
  <2> QED BY <1>4, <2>1 DEF OneAfterTheOther
<1> QED BY <1>5, <1>6, <1>7, <1>8, <1>9, <1>10, <1>11 DEF AgentsInv

LEMMA StartedIs ==
    ASSUME AgentsTyped, NEW p, NEW t
    PROVE  IsFiniteSet(Started(p, t)) /\ Cardinality(Started(p, t)) \in Nat
<1>1. DOMAIN session = 1..Len(session) /\ Len(session) \in Nat
  BY DEF AgentsTyped
<1>2. Started(p, t) \subseteq 1..Len(session)
  BY <1>1 DEF Started
<1>3. IsFiniteSet(1..Len(session))
  BY <1>1, FS_Interval
<1> QED BY <1>2, <1>3, FS_Subset, FS_CardinalityType

\* What one adapter does besides its sessions.
LEMMA AdapterMoves ==
    ASSUME AgentsInv, env' = env, NEW p \in Process, NEW b \in AgentAdapter, adapter' = [adapter EXCEPT ![p] = b],
           UNCHANGED <<manifestFile, session, costs, sessionLog, ticks>>,
           Configured(b), b.accepted = adapter[p].accepted, Tally(b.counted),
           \A n \in DOMAIN session : session[n].by = p => SessionSound(session[n], b)
    PROVE  /\ AgentsTyped' /\ AdaptersConfigured' /\ SessionsSound' /\ SessionsAccepted' /\ SessionsRecorded' /\ CostsCounted'
           /\ adapter'[p] = b /\ \A q \in Process : q # p => adapter'[q] = adapter[q]
<1>1. AgentsTyped /\ AdaptersConfigured /\ SessionsSound /\ SessionsAccepted /\ SessionsRecorded /\ CostsCounted
  BY DEF AgentsInv
<1>2. adapter' \in [Process -> AgentAdapter] /\ adapter'[p] = b /\ \A q \in Process : q # p => adapter'[q] = adapter[q]
  BY <1>1 DEF AgentsTyped
<1>3. /\ AgentSession' = AgentSession
      /\ \A i, v : KnownVersion(i, v)' <=> KnownVersion(i, v)
      /\ \A a : Configured(a)' <=> Configured(a)
      /\ \A s, a : SessionSound(s, a)' <=> SessionSound(s, a)
  BY SettingsStay
<1>4. AgentsTyped'
  BY <1>1, <1>2, <1>3 DEF AgentsTyped, AgentAdapter, CostFiles
<1>5. AdaptersConfigured'
  <2>1. ASSUME NEW q \in Process, NEW a, a = adapter'[q] PROVE Configured(a)'
    <3>1. CASE q = p
      BY <1>2, <1>3, <2>1, <3>1
    <3>2. CASE q # p
      BY <1>1, <1>2, <1>3, <2>1, <3>2 DEF AdaptersConfigured
    <3> QED BY <3>1, <3>2
  <2>2. \A q \in Process : \A a : a = adapter'[q] => Configured(a)'
    BY <2>1
  <2> QED BY <1>1, <1>3, <2>2 DEF AdaptersConfigured, KnownVersion
<1>6. SessionsSound'
  <2>1. ASSUME NEW n \in DOMAIN session, NEW s, s = session[n], NEW a, a = adapter'[s.by] PROVE SessionSound(s, a)'
    <3>1. s.by \in Process
      <4>1. s \in AgentSession
        BY <1>1, <2>1 DEF AgentsTyped
      <4> QED BY <4>1 DEF AgentSession
    <3>2. CASE s.by = p
      BY <1>2, <1>3, <2>1, <3>2
    <3>3. CASE s.by # p
      BY <1>1, <1>2, <1>3, <2>1, <3>1, <3>3 DEF SessionsSound
    <3> QED BY <3>2, <3>3
  <2>2. \A n \in DOMAIN session' : \A s, a : s = session'[n] /\ a = adapter'[s.by] => SessionSound(s, a)'
    BY <2>1
  <2> QED BY <2>2 DEF SessionsSound
<1>7. SessionsAccepted'
  <2>1. \A q \in Process : adapter'[q].accepted = adapter[q].accepted
    BY <1>2
  <2>2. \A q \in Process, t \in Nat : Started(q, t)' = Started(q, t)
    BY DEF Started
  <2>3. \A q \in Process, t \in Nat : Cardinality(Started(q, t))' = Cardinality(Started(q, t))
    BY <2>2
  <2> QED BY <1>1, <2>1, <2>3 DEF SessionsAccepted
<1>8. SessionsRecorded'
  BY <1>1 DEF SessionsRecorded, Once
<1>9. CostsCounted'
  <2>1. \A list : Tally(list)' <=> Tally(list)
    BY DEF Tally, Once
  <2>2. ASSUME NEW q \in Process, NEW list, list = adapter'[q].counted PROVE Tally(list)'
    <3>1. CASE q = p
      BY <1>2, <2>1, <2>2, <3>1
    <3>2. CASE q # p
      BY <1>1, <1>2, <2>1, <2>2, <3>2 DEF CostsCounted
    <3> QED BY <3>1, <3>2
  <2>3. \A q \in Process : \A list : list = adapter'[q].counted => Tally(list)'
    BY <2>2
  <2>4. \A list : list = costs.file \/ list = costs.log => Tally(list)'
    BY <1>1, <2>1 DEF CostsCounted
  <2> QED BY <1>1, <2>3, <2>4 DEF CostsCounted, Tally, Once
<1> QED BY <1>2, <1>4, <1>5, <1>6, <1>7, <1>8, <1>9

\* A session is sound with what its adapter has registered and whether it tracks costs.
LEMMA SameSettings ==
    ASSUME NEW s, NEW a, NEW b, a.registry = b.registry, a.tracking = b.tracking
    PROVE  (SessionSound(s, a) <=> SessionSound(s, b)) /\ (AtWork(a) <=> AtWork(b))
BY DEF SessionSound, AtWork, ToCall

\* Session n of a, which was s and open, moves to j, and its adapter to b.
SessionMove(n, s, a, j, b) ==
    /\ n \in DOMAIN session /\ s = session[n] /\ a = adapter[s.by] /\ s.at \notin {"done", "past", "lost"}
    /\ j \in AgentSession /\ session' = [session EXCEPT ![n] = j] /\ j.by = s.by /\ j.began = s.began /\ j.at \notin {"past", "lost"}
    /\ b \in AgentAdapter /\ adapter' = [adapter EXCEPT ![s.by] = b]
    /\ b.registry = a.registry /\ b.prices = a.prices /\ b.tracking = a.tracking /\ b.accepted = a.accepted
    /\ s.at \notin {"chosen", "waiting", "failed"} => j.charged = s.charged /\ j.at \notin {"chosen", "waiting", "failed"}
    /\ UNCHANGED <<env, manifestFile, ticks>> /\ costs' \in CostFiles /\ sessionLog' \in Seq(Nat)

\* What a step of an open session leaves true.
LEMMA SessionMoves ==
    ASSUME AgentsInv, NEW n, NEW s, NEW a, NEW j, NEW b, SessionMove(n, s, a, j, b), SessionSound(j, a)
    PROVE  /\ AgentsTyped' /\ AdaptersConfigured' /\ SessionsSound' /\ SessionsAccepted'
           /\ \A list : Tally(list) => Tally(list)'
           /\ DOMAIN session' = DOMAIN session /\ session'[n] = j /\ \A m \in DOMAIN session : m # n => session'[m] = session[m]
           /\ adapter'[s.by] = b /\ \A q \in Process : q # s.by => adapter'[q] = adapter[q]
           /\ s \in AgentSession /\ s.by \in Process /\ a \in AgentAdapter /\ AtWork(a)
<1>0. /\ n \in DOMAIN session /\ s = session[n] /\ a = adapter[s.by] /\ s.at \notin {"done", "past", "lost"}
      /\ j \in AgentSession /\ session' = [session EXCEPT ![n] = j] /\ j.by = s.by /\ j.began = s.began /\ j.at \notin {"past", "lost"}
      /\ b \in AgentAdapter /\ adapter' = [adapter EXCEPT ![s.by] = b]
      /\ b.registry = a.registry /\ b.prices = a.prices /\ b.tracking = a.tracking /\ b.accepted = a.accepted
      /\ s.at \notin {"chosen", "waiting", "failed"} => j.charged = s.charged /\ j.at \notin {"chosen", "waiting", "failed"}
      /\ env' = env /\ manifestFile' = manifestFile /\ ticks' = ticks /\ costs' \in CostFiles /\ sessionLog' \in Seq(Nat)
  BY DEF SessionMove
<1> USE <1>0
<1>1. AgentsTyped /\ AdaptersConfigured /\ SessionsSound /\ SessionsAccepted
  BY DEF AgentsInv
<1>2. s \in AgentSession /\ s.by \in Process
  <2>1. s \in AgentSession
    BY <1>1 DEF AgentsTyped
  <2> QED BY <2>1 DEF AgentSession
<1>3. a \in AgentAdapter
  BY <1>1, <1>2 DEF AgentsTyped
<1>4. adapter' \in [Process -> AgentAdapter] /\ adapter'[s.by] = b /\ \A q \in Process : q # s.by => adapter'[q] = adapter[q]
  BY <1>1, <1>2 DEF AgentsTyped
<1>5. /\ session' \in Seq(AgentSession) /\ DOMAIN session' = DOMAIN session /\ session'[n] = j
      /\ \A m \in DOMAIN session : m # n => session'[m] = session[m]
  BY <1>1 DEF AgentsTyped
<1>6. /\ AgentSession' = AgentSession
      /\ \A i, v : KnownVersion(i, v)' <=> KnownVersion(i, v)
      /\ \A x : Configured(x)' <=> Configured(x)
      /\ \A t, x : SessionSound(t, x)' <=> SessionSound(t, x)
  BY SettingsStay
<1>7. AgentsTyped'
  BY <1>1, <1>4, <1>5, <1>6 DEF AgentsTyped, AgentAdapter, CostFiles
<1>8. SessionSound(s, a) /\ AtWork(a)
  <2>1. SessionSound(s, a)
    BY <1>1 DEF SessionsSound
  <2> QED BY <2>1 DEF SessionSound
<1>9. AdaptersConfigured'
  <2>1. Configured(a)
    BY <1>1, <1>2 DEF AdaptersConfigured
  <2>2. AtWork(b)
    BY <1>8, SameSettings
  <2>3. Configured(b)
    BY <2>1, <2>2 DEF Configured
  <2>4. ASSUME NEW q \in Process, NEW x, x = adapter'[q] PROVE Configured(x)'
    <3>1. CASE q = s.by
      BY <1>4, <1>6, <2>3, <2>4, <3>1
    <3>2. CASE q # s.by
      BY <1>1, <1>4, <1>6, <2>4, <3>2 DEF AdaptersConfigured
    <3> QED BY <3>1, <3>2
  <2>5. \A q \in Process : \A x : x = adapter'[q] => Configured(x)'
    BY <2>4
  <2> QED BY <1>1, <1>6, <2>5 DEF AdaptersConfigured, KnownVersion
<1>10. SessionsSound'
  <2>1. SessionSound(j, b)
    BY SameSettings
  <2>2. ASSUME NEW m \in DOMAIN session, NEW t, t = session'[m], NEW x, x = adapter'[t.by] PROVE SessionSound(t, x)'
    <3>1. CASE m = n
      BY <1>4, <1>5, <1>6, <2>1, <2>2, <3>1
    <3>2. CASE m # n
      <4>1. t = session[m] /\ t \in AgentSession
        BY <1>1, <1>5, <2>2, <3>2 DEF AgentsTyped
      <4>2. t.by \in Process
        BY <4>1 DEF AgentSession
      <4>3. CASE t.by = s.by
        <5>1. SessionSound(t, a)
          BY <1>1, <4>1, <4>3 DEF SessionsSound
        <5>2. SessionSound(t, b)
          BY <5>1, SameSettings
        <5> QED BY <1>4, <1>6, <2>2, <4>3, <5>2
      <4>4. CASE t.by # s.by
        BY <1>1, <1>4, <1>6, <2>2, <4>1, <4>2, <4>4 DEF SessionsSound
      <4> QED BY <4>3, <4>4
    <3> QED BY <3>1, <3>2
  <2>3. \A m \in DOMAIN session' : \A t, x : t = session'[m] /\ x = adapter'[t.by] => SessionSound(t, x)'
    BY <1>5, <2>2
  <2> QED BY <2>3 DEF SessionsSound
<1>11. SessionsAccepted'
  <2>1. \A q \in Process : adapter'[q].accepted = adapter[q].accepted
    BY <1>4
  <2>2. \A m \in DOMAIN session : /\ session'[m].by = session[m].by /\ session'[m].began = session[m].began
                                  /\ session'[m].at \in {"past", "lost"} <=> session[m].at \in {"past", "lost"}
    BY <1>5
  <2>3. \A q \in Process, t \in Nat : Started(q, t)' = Started(q, t)
    BY <1>5, <2>2 DEF Started
  <2>4. \A q \in Process, t \in Nat : Cardinality(Started(q, t))' = Cardinality(Started(q, t))
    BY <2>3
  <2> QED BY <1>1, <1>5, <2>1, <2>2, <2>4 DEF SessionsAccepted
<1>12. \A list : Tally(list) => Tally(list)'
  BY <1>5 DEF Tally, Once
<1> QED BY <1>2, <1>3, <1>4, <1>5, <1>7, <1>8, <1>9, <1>10, <1>11, <1>12

\* A session that is not done is not recorded, and what was counted stays counted.
LEMMA NotRecordedYet ==
    ASSUME AgentsInv, env' = env, NEW n \in DOMAIN session, session[n].at \notin {"done", "past", "lost"}, sessionLog' = sessionLog,
           DOMAIN session' = DOMAIN session, \A m \in DOMAIN session : m # n => session'[m] = session[m],
           session'[n].at \notin {"done", "past"}
    PROVE  SessionsRecorded'
<1>1. SessionsRecorded
  BY DEF AgentsInv
<1>2. \A k \in DOMAIN sessionLog : sessionLog[k] \in DOMAIN session /\ sessionLog[k] # n
  BY <1>1 DEF SessionsRecorded
<1> QED BY <1>1, <1>2 DEF SessionsRecorded, Once

\* A session that goes on without an answer, or after one that nobody counts.
LEMMA SessionGoesOn ==
    ASSUME AgentsInv, env' = env, NEW n \in DOMAIN session, NEW s, s = session[n], NEW j \in AgentSession,
           session' = [session EXCEPT ![n] = j], j.by = s.by, j.began = s.began, s.at \in {"chosen", "waiting", "failed"},
           j.at \in {"waiting", "failed", "closing"}, NEW a, a = adapter[s.by], SessionSound(j, a),
           UNCHANGED <<manifestFile, adapter, costs, sessionLog, ticks>>
    PROVE  AgentsInv'
<1>1. /\ AgentsTyped /\ AdaptersConfigured /\ SessionsSound /\ SessionsRecorded /\ CostsCounted /\ OneAfterTheOther
  BY DEF AgentsInv
<1>2. s \in AgentSession /\ s.by \in Process
  <2>1. s \in AgentSession
    BY <1>1 DEF AgentsTyped
  <2> QED BY <2>1 DEF AgentSession
<1>3. a \in AgentAdapter
  BY <1>1, <1>2 DEF AgentsTyped
<1>4. adapter' = [adapter EXCEPT ![s.by] = a] /\ costs' \in CostFiles /\ sessionLog' \in Seq(Nat)
  BY <1>1, <1>2 DEF AgentsTyped
<1>5. SessionMove(n, s, a, j, a)
  BY <1>3, <1>4 DEF SessionMove
<1>6. /\ AgentsTyped' /\ AdaptersConfigured' /\ SessionsSound' /\ SessionsAccepted'
      /\ \A list : Tally(list) => Tally(list)'
      /\ DOMAIN session' = DOMAIN session /\ session'[n] = j /\ \A m \in DOMAIN session : m # n => session'[m] = session[m]
  BY <1>5, SessionMoves
<1>7. SessionsRecorded'
  BY <1>6, NotRecordedYet
<1>8. CostsCounted'
  <2>1. \A k \in DOMAIN costs.log : session'[costs.log[k]].at # "answered"
    BY <1>1, <1>6 DEF CostsCounted, Tally
  <2> QED BY <1>1, <1>6, <2>1 DEF CostsCounted
<1>9. OneAfterTheOther'
  <2>1. \A p \in Process : AnsweredBy(p)' = AnsweredBy(p)
    BY <1>6 DEF AnsweredBy
  <2> QED BY <1>1, <2>1 DEF OneAfterTheOther, AtWork
<1> QED BY <1>6, <1>7, <1>8, <1>9 DEF AgentsInv

LEMMA SameCalls ==
    ASSUME NEW s, NEW j, j.tried = s.tried, j.failures = s.failures, j.hash = s.hash, CalledOnce(s)
    PROVE  CalledOnce(j)
BY DEF CalledOnce

LEMMA NextTried ==
    ASSUME AgentsInv, env' = env, NEW n \in DOMAIN session, TryNext(n)
    PROVE  AgentsInv'
<1>1. /\ AgentsTyped /\ AdaptersConfigured /\ SessionsSound /\ SessionsRecorded /\ CostsCounted /\ OneAfterTheOther
  BY DEF AgentsInv
<1> PICK s \in AgentSession : s = session[n]
  BY <1>1 DEF AgentsTyped
<1>2. s.by \in Process /\ s.tried \in Seq(CalledManifest) /\ s.failures \in Seq(env.answers \cup {"transient", "permanent"})
  BY DEF AgentSession
<1> PICK a \in AgentAdapter : a = adapter[s.by]
  BY <1>1, <1>2 DEF AgentsTyped
<1>3. SessionSound(s, a) /\ Configured(a)
  BY <1>1, <1>2 DEF SessionsSound, AdaptersConfigured
<1> PICK next : next = Manifest(Seqs!Last(s.tried).id, Seqs!Last(s.tried).version).fallback
  OBVIOUS
<1>4. /\ s.at = "failed" /\ UNCHANGED <<manifestFile, adapter, costs, sessionLog, ticks>>
      /\ session' = [session EXCEPT ![n] =
                IF FallsBack(s) THEN [s EXCEPT !.at = "waiting", !.next = [id |-> next, version |-> a.registry[next]]]
                ELSE [s EXCEPT !.at = "closing"]]
  BY DEF TryNext
<1>5. PICK j \in AgentSession :
        /\ session' = [session EXCEPT ![n] = j] /\ j.by = s.by /\ j.began = s.began /\ j.at \in {"waiting", "closing"}
        /\ SessionSound(j, a)
  <2> PICK tried \in Seq(CalledManifest) : tried = s.tried
    BY <1>2
  <2> PICK failures \in Seq(env.answers \cup {"transient", "permanent"}) : failures = s.failures
    BY <1>2
  <2>1. /\ CalledOnce(s) /\ AtWork(a) /\ s.hash = 0 /\ s.charged = -1 /\ Len(failures) = Len(tried) /\ tried # <<>>
    BY <1>3, <1>4 DEF SessionSound
  <2>2. CASE FallsBack(s)
    <3>1. /\ Seqs!Last(failures) = "transient" /\ Len(tried) - 1 < env.fallbacks /\ next \in Provider
          /\ a.registry[next] # 0 /\ \A k \in DOMAIN tried : tried[k].id # next
      BY <2>2 DEF FallsBack
    <3>2. PICK v : v = a.registry[next]
      OBVIOUS
    <3>3. v \in Nat /\ KnownVersion(next, v) /\ a.registry[next] = v
      BY <1>3, <3>1, <3>2 DEF Configured, AgentAdapter
    <3>4. PICK x : x = [id |-> next, version |-> v]
      OBVIOUS
    <3>5. x \in NextManifest /\ x.id = next /\ x.version = v
      BY <3>1, <3>3, <3>4 DEF NextManifest
    <3>6. PICK i : i = [s EXCEPT !.at = "waiting"]
      OBVIOUS
    <3>7. PICK j : j = [i EXCEPT !.next = x]
      OBVIOUS
    <3>8. /\ i \in AgentSession /\ i.at = "waiting" /\ i.by = s.by /\ i.began = s.began /\ i.tried = tried /\ i.failures = failures
          /\ i.hash = s.hash /\ i.cost = s.cost /\ i.charged = s.charged
      BY <3>6 DEF AgentSession
    <3>9. /\ j \in AgentSession /\ j.at = "waiting" /\ j.by = s.by /\ j.began = s.began /\ j.tried = tried /\ j.failures = failures
          /\ j.hash = s.hash /\ j.cost = s.cost /\ j.charged = s.charged /\ j.next = x
      BY <3>5, <3>7, <3>8 DEF AgentSession
    <3>10. session' = [session EXCEPT ![n] = j]
      <4>1. j = [s EXCEPT !.at = "waiting", !.next = [id |-> next, version |-> a.registry[next]]]
        BY <3>2, <3>4, <3>6, <3>7 DEF AgentSession
      <4> QED BY <1>4, <2>2, <4>1
    <3>11. CalledOnce(j)
      BY <2>1, <3>9, SameCalls
    <3>12. Len(tried) <= env.fallbacks
      <4>1. env.fallbacks \in Nat
        BY <1>1, AgentsAssumption DEF AgentsTyped
      <4>2. PICK most \in Nat : most = env.fallbacks
        BY <4>1
      <4>3. Len(tried) \in Nat /\ Len(tried) - 1 < most
        BY <3>1, <4>2
      <4>4. Len(tried) <= most
        BY <4>3
      <4> QED BY <4>2, <4>4
    <3>13. \A k \in DOMAIN failures : failures[k] = "transient"
      <4>1. Len(failures) \in Nat /\ DOMAIN failures = 1..Len(failures)
        OBVIOUS
      <4>2. failures[Len(failures)] = "transient"
        BY <3>1 DEF Seqs!Last
      <4>3. \A k \in 1..Len(failures) : k < Len(failures) => failures[k] = "transient"
        BY <2>1, <4>1 DEF CalledOnce
      <4>4. \A k \in 1..Len(failures) : k < Len(failures) \/ k = Len(failures)
        BY <4>1
      <4> QED BY <4>1, <4>2, <4>3, <4>4
    <3>14. ToCall(j, a)
      <4>1. j.next.id = next /\ j.next.version = v
        BY <3>5, <3>9
      <4>2. j.at # "chosen"
        BY <3>9
      <4>3. j.tried # <<>> /\ Len(j.tried) <= env.fallbacks
        BY <2>1, <3>9, <3>12
      <4>4. \A k \in DOMAIN j.failures : j.failures[k] = "transient"
        BY <3>9, <3>13
      <4>5. \A k \in DOMAIN j.tried : j.tried[k].id # j.next.id
        BY <3>1, <3>9, <4>1
      <4> QED BY <3>1, <3>3, <4>1, <4>2, <4>3, <4>4, <4>5 DEF ToCall
    <3>15. SessionSound(j, a)
      <4>1. /\ CalledOnce(j) /\ AtWork(a) /\ j.at = "waiting" /\ j.hash = 0 /\ j.charged = -1 /\ Len(j.failures) = Len(j.tried)
            /\ ToCall(j, a)
        BY <2>1, <3>9, <3>11, <3>14
      <4> QED BY <4>1 DEF SessionSound
    <3> QED BY <3>9, <3>10, <3>15
  <2>3. CASE ~FallsBack(s)
    <3> PICK j : j = [s EXCEPT !.at = "closing"]
      OBVIOUS
    <3>1. /\ j \in AgentSession /\ j.at = "closing" /\ j.by = s.by /\ j.began = s.began /\ j.tried = s.tried /\ j.failures = s.failures
          /\ j.hash = s.hash /\ j.cost = s.cost /\ j.charged = s.charged
      BY DEF AgentSession
    <3>2. CalledOnce(j)
      BY <2>1, <3>1, SameCalls
    <3>3. SessionSound(j, a)
      BY <2>1, <3>1, <3>2 DEF SessionSound
    <3> QED BY <1>4, <2>3, <3>1, <3>3
  <2> QED BY <2>2, <2>3
<1> QED BY <1>4, <1>5, SessionGoesOn

\* One more provider is called.
LEMMA CalledNext ==
    ASSUME AgentsInv, NEW s \in AgentSession, NEW a, SessionSound(s, a), s.at \in {"chosen", "waiting"}, NEW j,
           j.tried = Append(s.tried, s.next), j.hash = 0 \/ j.hash = a.registry[s.next.id],
           j.failures = s.failures \/ \E c : j.failures = Append(s.failures, c)
    PROVE  /\ CalledOnce(j) /\ j.tried \in Seq(CalledManifest) /\ Len(j.tried) = Len(s.tried) + 1 /\ j.tried # <<>>
           /\ s.next \in CalledManifest
<1>1. PICK tried \in Seq(CalledManifest) : tried = s.tried
  BY DEF AgentSession
<1>2. PICK failures : failures = s.failures /\ failures \in Seq(env.answers \cup {"transient", "permanent"})
  BY DEF AgentSession
<1>3. /\ CalledOnce(s) /\ ToCall(s, a) /\ Len(s.failures) = Len(s.tried)
  BY DEF SessionSound
<1>4. PICK x : x = s.next
  OBVIOUS
<1>5. x \in CalledManifest /\ s.next \in CalledManifest
  <2>1. x \in NextManifest /\ x.id \in Provider
    BY <1>3, <1>4 DEF AgentSession, ToCall
  <2> QED BY <1>4, <2>1 DEF NextManifest, CalledManifest
<1>6. PICK n : n = Len(tried)
  OBVIOUS
<1>7. n \in Nat /\ DOMAIN tried = 1..n /\ Len(failures) = n /\ DOMAIN failures = 1..n /\ (tried = <<>> <=> n = 0)
  BY <1>1, <1>2, <1>3, <1>6
<1>8. PICK more : more = Append(tried, x)
  OBVIOUS
<1>9. /\ more \in Seq(CalledManifest) /\ Len(more) = n + 1 /\ DOMAIN more = 1..(n + 1) /\ more[n + 1] = x
      /\ \A k \in 1..n : more[k] = tried[k]
  BY <1>1, <1>5, <1>6, <1>7, <1>8
<1>10. j.tried = more /\ more # <<>>
  BY <1>1, <1>4, <1>7, <1>8, <1>9
<1>11. env.fallbacks \in Nat
  BY AgentsAssumption DEF AgentsInv, AgentsTyped
<1>12. n <= env.fallbacks /\ \A k \in 1..n : tried[k].id # x.id /\ failures[k] = "transient"
  <2>1. CASE s.at = "chosen"
    <3>1. n = 0
      BY <1>1, <1>3, <1>7, <2>1 DEF ToCall
    <3> QED BY <1>11, <3>1
  <2>2. CASE s.at = "waiting"
    <3>1. /\ Len(s.tried) <= env.fallbacks /\ (\A k \in DOMAIN s.failures : s.failures[k] = "transient")
          /\ \A k \in DOMAIN s.tried : s.tried[k].id # s.next.id
      BY <1>3, <2>2 DEF ToCall
    <3>2. n <= env.fallbacks
      BY <1>1, <1>6, <3>1
    <3> QED BY <1>1, <1>2, <1>4, <1>7, <3>1, <3>2
  <2> QED BY <2>1, <2>2
<1>13. Len(more) <= env.fallbacks + 1
  <2>1. PICK most \in Nat : most = env.fallbacks
    BY <1>11
  <2>2. n + 1 <= most + 1
    BY <1>7, <1>12, <2>1
  <2> QED BY <1>9, <2>1, <2>2
<1>14. \A i, k \in DOMAIN more : i # k => more[i].id # more[k].id
  <2>1. \A i, k \in 1..n : i # k => tried[i].id # tried[k].id
    BY <1>1, <1>3, <1>7 DEF CalledOnce
  <2>2. \A i \in 1..(n + 1) : i \in 1..n \/ i = n + 1
    BY <1>7
  <2> QED BY <1>9, <1>12, <2>1, <2>2
<1>15. \A k \in DOMAIN j.failures : k < Len(more) => j.failures[k] = "transient"
  <2>1. ASSUME NEW k \in DOMAIN j.failures, k < n + 1 PROVE k \in 1..n /\ j.failures[k] = failures[k]
    <3>1. CASE j.failures = s.failures
      BY <1>2, <1>7, <2>1, <3>1
    <3>2. CASE \E c : j.failures = Append(s.failures, c)
      <4>1. PICK c : j.failures = Append(failures, c)
        BY <1>2, <3>2
      <4> QED BY <1>2, <1>7, <2>1, <4>1
    <3> QED BY <3>1, <3>2
  <2> QED BY <1>9, <1>12, <2>1
<1>16. Matches(Manifest(more[1].id, more[1].version))
  <2>1. CASE n = 0
    <3>1. s.at = "chosen"
      BY <1>1, <1>3, <1>7, <2>1 DEF ToCall
    <3>2. Matches(Manifest(x.id, x.version))
      BY <1>3, <1>4, <3>1 DEF ToCall
    <3> QED BY <1>9, <2>1, <3>2
  <2>2. CASE n # 0
    <3>1. more[1] = tried[1]
      BY <1>7, <1>9, <2>2
    <3>2. Matches(Manifest(tried[1].id, tried[1].version))
      BY <1>1, <1>3, <1>7, <2>2 DEF CalledOnce
    <3> QED BY <3>1, <3>2
  <2> QED BY <2>1, <2>2
<1>17. Seqs!Last(more) = x
  BY <1>9 DEF Seqs!Last
<1>18. j.hash # 0 /\ j.hash # x.version => "edit" \in env.events /\ Len(more) > 1
  <2> SUFFICES ASSUME j.hash # 0, j.hash # x.version PROVE "edit" \in env.events /\ Len(more) > 1
    OBVIOUS
  <2>1. a.registry[s.next.id] # s.next.version
    BY <1>4
  <2>2. s.at = "waiting" /\ "edit" \in env.events
    BY <1>3, <2>1 DEF ToCall
  <2>3. n # 0
    BY <1>1, <1>3, <1>7, <2>2 DEF ToCall
  <2> QED BY <1>7, <1>9, <2>2, <2>3
<1> QED BY <1>1, <1>5, <1>6, <1>9, <1>10, <1>13, <1>14, <1>15, <1>16, <1>17, <1>18 DEF CalledOnce

LEMMA PricesAreNumbers ==
    ASSUME env \in Environment, env.part = "agents", NEW i \in Provider, NEW v, KnownVersion(i, v), NEW x \in Models(Manifest(i, v))
    PROVE  Manifest(i, v).models[x].price \in Nat
BY AgentsAssumption DEF KnownVersion, Models, Manifest

LEMMA ChargeIs ==
    ASSUME AgentsInv, env.part = "agents", NEW p \in Process, NEW i \in Provider, NEW a, a = adapter[p]
    PROVE  /\ Charge(p, i) \in Nat
           /\ a.prices[i] # 0 /\ env.model \in Models(Manifest(i, a.prices[i])) =>
                Charge(p, i) = Manifest(i, a.prices[i]).models[env.model].price
<1>1. PICK v : v = a.prices[i]
  OBVIOUS
<1>2. AgentsTyped /\ Configured(a)
  BY DEF AgentsInv, AdaptersConfigured
<1>3. v # 0 => KnownVersion(i, v)
  BY <1>1, <1>2 DEF Configured
<1>4. Charge(p, i) = IF v = 0 \/ env.model \notin Models(Manifest(i, v)) THEN env.price ELSE Manifest(i, v).models[env.model].price
  BY <1>1 DEF Charge
<1>5. env \in Environment /\ env.price \in Nat
  BY <1>2, AgentsAssumption DEF AgentsTyped
<1>6. v # 0 /\ env.model \in Models(Manifest(i, v)) => Manifest(i, v).models[env.model].price \in Nat
  BY <1>3, <1>5, PricesAreNumbers
<1> QED BY <1>1, <1>4, <1>5, <1>6

\* The session that is answered while costs are tracked is counted, once.
LEMMA AnswerCounted ==
    ASSUME AgentsInv, NEW n, NEW s, NEW a, NEW j, NEW b, SessionMove(n, s, a, j, b), SessionSound(j, a),
           s.at \in {"chosen", "waiting"}, j.at = "answered", a.tracking, j.charged >= 0, b.counted = Append(a.counted, n),
           UNCHANGED <<costs, sessionLog>>
    PROVE  AgentsInv'
<1>1. AgentsTyped /\ SessionsRecorded /\ CostsCounted /\ OneAfterTheOther
  BY DEF AgentsInv
<1>2. /\ AgentsTyped' /\ AdaptersConfigured' /\ SessionsSound' /\ SessionsAccepted'
      /\ \A list : Tally(list) => Tally(list)'
      /\ DOMAIN session' = DOMAIN session /\ session'[n] = j /\ \A m \in DOMAIN session : m # n => session'[m] = session[m]
      /\ adapter'[s.by] = b /\ \A q \in Process : q # s.by => adapter'[q] = adapter[q]
      /\ s \in AgentSession /\ s.by \in Process /\ a \in AgentAdapter /\ AtWork(a)
  BY SessionMoves
<1>3. /\ n \in DOMAIN session /\ s = session[n] /\ a = adapter[s.by] /\ j.by = s.by /\ env' = env
      /\ b.registry = a.registry /\ b.tracking = a.tracking
  BY DEF SessionMove
<1>4. SessionsRecorded'
  BY <1>2, <1>3, NotRecordedYet
<1>5. PICK counted \in Seq(Nat) : counted = a.counted
  BY <1>2 DEF AgentAdapter
<1>6. n \in Nat
  BY <1>1, <1>3 DEF AgentsTyped
<1>7. PICK m : m = Len(counted) + 1
  OBVIOUS
<1>8. PICK more : more = Append(counted, n)
  OBVIOUS
<1>9. /\ more \in Seq(Nat) /\ Len(more) = m /\ DOMAIN more = DOMAIN counted \cup {m} /\ more[m] = n
      /\ m \in Nat /\ m \notin DOMAIN counted /\ \A k \in DOMAIN counted : more[k] = counted[k]
  BY <1>5, <1>6, <1>7, <1>8, ItemAdded
<1>10. b.counted = more
  BY <1>5, <1>8
<1>11. Tally(counted)
  BY <1>1, <1>2, <1>3, <1>5 DEF CostsCounted
<1>12. \A k \in DOMAIN counted : counted[k] # n
  BY <1>3, <1>11 DEF Tally
<1>13. Tally(more)'
  <2>1. Once(more)
    BY <1>9, <1>11, <1>12 DEF Tally, Once
  <2>2. Tally(counted)'
    BY <1>2, <1>11
  <2>3. \A k \in DOMAIN counted : /\ counted[k] \in DOMAIN session' /\ session'[counted[k]].charged >= 0
                                  /\ session'[counted[k]].at \notin {"chosen", "waiting", "failed"}
    BY <2>2 DEF Tally
  <2>4. n \in DOMAIN session' /\ session'[n].charged >= 0 /\ session'[n].at \notin {"chosen", "waiting", "failed"}
    BY <1>2, <1>3
  <2> QED BY <1>9, <2>1, <2>3, <2>4 DEF Tally, Once
<1>14. CostsCounted'
  <2>1. ASSUME NEW q \in Process, NEW list, list = adapter'[q].counted PROVE Tally(list)'
    <3>1. CASE q = s.by
      BY <1>2, <1>10, <1>13, <2>1, <3>1
    <3>2. CASE q # s.by
      BY <1>1, <1>2, <2>1, <3>2 DEF CostsCounted
    <3> QED BY <3>1, <3>2
  <2>2. \A q \in Process : \A list : list = adapter'[q].counted => Tally(list)'
    BY <2>1
  <2>3. Tally(costs.file)' /\ Tally(costs.log)'
    BY <1>1, <1>2 DEF CostsCounted
  <2>4. \A k \in DOMAIN costs.log : session'[costs.log[k]].at # "answered"
    BY <1>1, <1>2, <1>3 DEF CostsCounted, Tally
  <2> QED BY <2>2, <2>3, <2>4 DEF CostsCounted
<1>15. OneAfterTheOther'
  <2> SUFFICES ASSUME env.events \cap {"overlap", "crash", "failure"} = {}
               PROVE  /\ costs.ok
                      /\ \A p, q \in Process : AtWork(adapter'[p]) /\ AtWork(adapter'[q]) => p = q
                      /\ \A p \in Process : adapter'[p].tracking =>
                            /\ Elements(adapter'[p].counted) = Elements(costs.log) \cup AnsweredBy(p)'
                            /\ Len(costs.file) <= Len(adapter'[p].counted)
                            /\ \A k \in DOMAIN costs.file : costs.file[k] = adapter'[p].counted[k]
                      /\ (\A p \in Process : ~adapter'[p].tracking) => Elements(costs.file) = Elements(costs.log)
    BY <1>3 DEF OneAfterTheOther, AtWork
  <2>1. /\ costs.ok
        /\ \A p, q \in Process : AtWork(adapter[p]) /\ AtWork(adapter[q]) => p = q
        /\ Elements(counted) = Elements(costs.log) \cup AnsweredBy(s.by)
        /\ Len(costs.file) <= Len(counted)
        /\ \A k \in DOMAIN costs.file : costs.file[k] = counted[k]
    BY <1>1, <1>2, <1>3, <1>5 DEF OneAfterTheOther
  <2>2. \A p \in Process : AtWork(adapter'[p]) <=> AtWork(adapter[p])
    BY <1>2, <1>3 DEF AtWork
  <2>3. \A p \in Process : adapter'[p].tracking => p = s.by
    BY <1>2, <1>3, <2>1, <2>2 DEF AtWork
  <2>4. Elements(more) = Elements(costs.log) \cup AnsweredBy(s.by)'
    <3>1. AnsweredBy(s.by)' = AnsweredBy(s.by) \cup {n}
      BY <1>2, <1>3 DEF AnsweredBy
    <3>2. Elements(more) = Elements(counted) \cup {n}
      BY <1>9 DEF Elements
    <3> QED BY <2>1, <3>1, <3>2
  <2>5. Len(costs.file) <= Len(more) /\ \A k \in DOMAIN costs.file : costs.file[k] = more[k]
    <3>1. PICK old \in Seq(Nat) : old = costs.file
      BY <1>1 DEF AgentsTyped, CostFiles
    <3>2. Len(old) <= Len(more) /\ \A k \in DOMAIN old : k \in DOMAIN counted
      BY <1>5, <1>7, <1>9, <2>1, <3>1
    <3> QED BY <1>9, <2>1, <3>1, <3>2
  <2>6. adapter'[s.by].tracking /\ adapter'[s.by].counted = more
    BY <1>2, <1>3, <1>10
  <2> QED BY <1>2, <2>1, <2>2, <2>3, <2>4, <2>5, <2>6
<1> QED BY <1>2, <1>4, <1>14, <1>15 DEF AgentsInv

\* A provider answers, and the session is counted if costs are tracked.
LEMMA ProviderAnswers ==
    ASSUME AgentsInv, env' = env, env.part = "agents", NEW n \in DOMAIN session, NEW s, s = session[n], NEW m,
           m = Manifest(s.next.id, s.next.version), s.at \in {"chosen", "waiting"}, env.model \in Models(m), NEW answered,
           answered = [[s EXCEPT !.tried = Append(@, s.next)] EXCEPT
                            !.at = "answered", !.hash = adapter[s.by].registry[s.next.id], !.cost = m.models[env.model].price],
           session' = [session EXCEPT ![n] =
                IF adapter[s.by].tracking THEN [answered EXCEPT !.charged = Charge(s.by, s.next.id)] ELSE [answered EXCEPT !.at = "closing"]],
           adapter' = Counted(s.by, n), UNCHANGED <<manifestFile, costs, sessionLog, ticks>>
    PROVE  AgentsInv'
<1>1. AgentsTyped /\ AdaptersConfigured /\ SessionsSound
  BY DEF AgentsInv
<1>2. s \in AgentSession /\ s.by \in Process /\ s.tried \in Seq(CalledManifest)
  <2>1. s \in AgentSession
    BY <1>1 DEF AgentsTyped
  <2> QED BY <2>1 DEF AgentSession
<1>3. PICK a \in AgentAdapter : a = adapter[s.by]
  BY <1>1, <1>2 DEF AgentsTyped
<1>4. SessionSound(s, a) /\ Configured(a)
  BY <1>1, <1>2, <1>3 DEF SessionsSound, AdaptersConfigured
<1>5. /\ ToCall(s, a) /\ AtWork(a) /\ s.hash = 0 /\ s.charged = -1
  BY <1>4 DEF SessionSound
<1>6. PICK i \in Provider : i = s.next.id /\ KnownVersion(i, s.next.version)
  BY <1>5 DEF ToCall
<1>7. PICK cost \in Nat : cost = m.models[env.model].price
  <2>1. env \in Environment
    BY <1>1 DEF AgentsTyped
  <2> QED BY <1>6, <2>1, PricesAreNumbers
<1>8. PICK hash \in Nat : hash = a.registry[i]
  BY <1>6 DEF AgentAdapter
<1>9. PICK tried : tried = Append(s.tried, s.next)
  OBVIOUS
<1>10. PICK j1 : j1 = [s EXCEPT !.tried = tried]
  OBVIOUS
<1>11. PICK j2 : j2 = [j1 EXCEPT !.hash = hash]
  OBVIOUS
<1>12. PICK j3 : j3 = [j2 EXCEPT !.cost = cost]
  OBVIOUS
<1>13. j1.tried = tried
  BY <1>2, <1>10 DEF AgentSession
<1>14. tried \in Seq(CalledManifest) /\ tried # <<>>
  <2>1. s.next \in CalledManifest
    <3>1. s.next \in NextManifest
      BY <1>2 DEF AgentSession
    <3> QED BY <1>6, <3>1 DEF NextManifest, CalledManifest
  <2> QED BY <1>2, <1>9, <2>1
<1>15. /\ j1 \in AgentSession /\ j1.tried = tried /\ j1.failures = s.failures /\ j1.by = s.by /\ j1.began = s.began
       /\ j1.hash = 0 /\ j1.charged = -1
  BY <1>2, <1>5, <1>10, <1>14 DEF AgentSession
<1>16. /\ j2 \in AgentSession /\ j2.tried = tried /\ j2.failures = s.failures /\ j2.by = s.by /\ j2.began = s.began
       /\ j2.hash = hash /\ j2.charged = -1
  BY <1>8, <1>11, <1>15 DEF AgentSession
<1>17. /\ j3 \in AgentSession /\ j3.tried = tried /\ j3.failures = s.failures /\ j3.by = s.by /\ j3.began = s.began
       /\ j3.hash = hash /\ j3.charged = -1 /\ j3.cost = cost
  BY <1>7, <1>12, <1>16 DEF AgentSession
<1>18. answered = [j3 EXCEPT !.at = "answered"]
  BY <1>2, <1>3, <1>6, <1>7, <1>8, <1>9, <1>10, <1>11, <1>12 DEF AgentSession
<1>19. CalledOnce(j3)
  <2>1. j3.tried = Append(s.tried, s.next) /\ (j3.hash = 0 \/ j3.hash = a.registry[s.next.id]) /\ j3.failures = s.failures
    BY <1>6, <1>8, <1>9, <1>17
  <2> QED BY <1>2, <1>4, <2>1, CalledNext
<1>20. CASE a.tracking
  <2>1. PICK charge : charge = Charge(s.by, s.next.id)
    OBVIOUS
  <2>2. /\ charge \in Nat
        /\ a.prices[i] # 0 /\ env.model \in Models(Manifest(i, a.prices[i])) => charge = Manifest(i, a.prices[i]).models[env.model].price
    BY <1>2, <1>3, <1>6, <2>1, ChargeIs
  <2>3. PICK j4 : j4 = [j3 EXCEPT !.at = "answered"]
    OBVIOUS
  <2>4. /\ j4 \in AgentSession /\ j4.tried = tried /\ j4.failures = s.failures /\ j4.by = s.by /\ j4.began = s.began
        /\ j4.hash = hash /\ j4.charged = -1 /\ j4.cost = cost /\ j4.at = "answered"
    BY <1>17, <2>3 DEF AgentSession
  <2>5. PICK j : j = [j4 EXCEPT !.charged = charge]
    OBVIOUS
  <2>6. /\ j \in AgentSession /\ j.tried = tried /\ j.failures = s.failures /\ j.by = s.by /\ j.began = s.began
        /\ j.hash = hash /\ j.charged = charge /\ j.cost = cost /\ j.at = "answered"
    BY <2>2, <2>4, <2>5 DEF AgentSession
  <2>7. session' = [session EXCEPT ![n] = j]
    BY <1>3, <1>18, <1>20, <2>1, <2>3, <2>5
  <2>8. PICK counted \in Seq(Nat) : counted = a.counted
    BY DEF AgentAdapter
  <2>9. PICK more : more = Append(counted, n)
    OBVIOUS
  <2>10. PICK b : b = [a EXCEPT !.counted = more]
    OBVIOUS
  <2>11. n \in Nat /\ more \in Seq(Nat)
    BY <1>1, <2>8, <2>9 DEF AgentsTyped
  <2>12. /\ b \in AgentAdapter /\ b.counted = more /\ b.registry = a.registry /\ b.prices = a.prices /\ b.tracking = a.tracking
         /\ b.accepted = a.accepted
    BY <2>10, <2>11 DEF AgentAdapter
  <2>13. adapter' = [adapter EXCEPT ![s.by] = b]
    <3>1. adapter' = [adapter EXCEPT ![s.by].counted = Append(@, n)]
      BY <1>2, <1>3, <1>20 DEF Counted
    <3> QED BY <1>1, <1>2, <1>3, <2>8, <2>9, <2>10, <3>1 DEF AgentsTyped
  <2>14. SessionMove(n, s, a, j, b)
    <3>1. costs' \in CostFiles /\ sessionLog' \in Seq(Nat)
      BY <1>1 DEF AgentsTyped
    <3> QED BY <1>3, <2>6, <2>7, <2>12, <2>13, <3>1 DEF SessionMove
  <2>15. env.events \cap {"late", "edit"} = {} => charge = cost
    <3> SUFFICES ASSUME env.events \cap {"late", "edit"} = {} PROVE charge = cost
      OBVIOUS
    <3>1. a.prices = a.registry /\ a.registry[s.next.id] = s.next.version
      BY <1>4, <1>5 DEF Configured, ToCall
    <3>2. s.next.version # 0
      <4>1. Len(env.manifests[i]) \in Nat
        BY <1>1, AgentsAssumption DEF AgentsTyped
      <4> QED BY <1>6, <4>1 DEF KnownVersion
    <3>3. a.prices[i] # 0 /\ Manifest(i, a.prices[i]) = m
      BY <1>6, <3>1, <3>2
    <3> QED BY <1>7, <2>2, <3>3
  <2>16. CalledOnce(j)
    BY <1>17, <1>19, <2>6, SameCalls
  <2>17. SessionSound(j, a)
    BY <1>5, <1>20, <2>2, <2>6, <2>15, <2>16 DEF SessionSound
  <2>18. j.charged >= 0 /\ b.counted = Append(a.counted, n)
    BY <2>2, <2>6, <2>8, <2>9, <2>12
  <2> QED BY <1>20, <2>6, <2>14, <2>17, <2>18, AnswerCounted
<1>21. CASE ~a.tracking
  <2>1. PICK j : j = [j3 EXCEPT !.at = "closing"]
    OBVIOUS
  <2>2. /\ j \in AgentSession /\ j.tried = tried /\ j.failures = s.failures /\ j.by = s.by /\ j.began = s.began
        /\ j.hash = hash /\ j.charged = -1 /\ j.cost = cost /\ j.at = "closing"
    BY <1>17, <2>1 DEF AgentSession
  <2>3. session' = [session EXCEPT ![n] = j]
    <3>1. j = [answered EXCEPT !.at = "closing"]
      BY <1>17, <1>18, <2>1 DEF AgentSession
    <3> QED BY <1>3, <1>21, <3>1
  <2>4. adapter' = adapter
    <3>1. adapter' = [adapter EXCEPT ![s.by].counted = @]
      BY <1>3, <1>21 DEF Counted
    <3>2. [a EXCEPT !.counted = @] = a
      BY DEF AgentAdapter
    <3>3. adapter' = [adapter EXCEPT ![s.by] = a]
      BY <1>3, <3>1, <3>2
    <3> QED BY <1>1, <1>2, <1>3, <3>3 DEF AgentsTyped
  <2>5. CalledOnce(j)
    BY <1>17, <1>19, <2>2, SameCalls
  <2>6. SessionSound(j, a)
    BY <1>5, <2>2, <2>5 DEF SessionSound
  <2> QED BY <1>3, <2>2, <2>3, <2>4, <2>6, SessionGoesOn
<1> QED BY <1>20, <1>21

\* A provider fails.
LEMMA ProviderFails ==
    ASSUME AgentsInv, env' = env, env.part = "agents", NEW n \in DOMAIN session, NEW s, s = session[n],
           s.at \in {"chosen", "waiting"}, NEW c \in env.answers \cup {"permanent"},
           session' = [session EXCEPT ![n] = [[s EXCEPT !.tried = Append(@, s.next)] EXCEPT !.at = "failed", !.failures = Append(@, c)]],
           UNCHANGED <<manifestFile, adapter, costs, sessionLog, ticks>>
    PROVE  AgentsInv'
<1>1. AgentsTyped /\ SessionsSound
  BY DEF AgentsInv
<1>2. s \in AgentSession /\ s.by \in Process
  <2>1. s \in AgentSession
    BY <1>1 DEF AgentsTyped
  <2> QED BY <2>1 DEF AgentSession
<1>3. PICK a \in AgentAdapter : a = adapter[s.by]
  BY <1>1, <1>2 DEF AgentsTyped
<1>4. SessionSound(s, a)
  BY <1>1, <1>2, <1>3 DEF SessionsSound
<1>5. /\ AtWork(a) /\ s.hash = 0 /\ s.charged = -1 /\ Len(s.failures) = Len(s.tried)
  BY <1>4 DEF SessionSound
<1>6. PICK failures \in Seq(env.answers \cup {"transient", "permanent"}) : failures = s.failures
  BY <1>2 DEF AgentSession
<1>7. PICK more : more = Append(failures, c)
  OBVIOUS
<1>8. more \in Seq(env.answers \cup {"transient", "permanent"}) /\ Len(more) = Len(failures) + 1
  BY <1>7
<1>9. PICK tried : tried = Append(s.tried, s.next)
  OBVIOUS
<1>10. PICK j1 : j1 = [s EXCEPT !.tried = tried]
  OBVIOUS
<1>11. PICK j2 : j2 = [j1 EXCEPT !.at = "failed"]
  OBVIOUS
<1>12. PICK j : j = [j2 EXCEPT !.failures = more]
  OBVIOUS
<1>13. j.tried = tried /\ j.failures = more /\ j.hash = 0
  BY <1>2, <1>5, <1>10, <1>11, <1>12 DEF AgentSession
<1>14. /\ CalledOnce(j) /\ j.tried \in Seq(CalledManifest) /\ Len(j.tried) = Len(s.tried) + 1 /\ j.tried # <<>>
  <2>1. j.tried = Append(s.tried, s.next) /\ j.hash = 0 /\ j.failures = Append(s.failures, c)
    BY <1>6, <1>7, <1>9, <1>13
  <2> QED BY <1>2, <1>4, <2>1, CalledNext
<1>15. j1 \in AgentSession /\ j1.by = s.by /\ j1.began = s.began /\ j1.charged = -1
  BY <1>2, <1>5, <1>10, <1>13, <1>14 DEF AgentSession
<1>16. j2 \in AgentSession /\ j2.by = s.by /\ j2.began = s.began /\ j2.charged = -1 /\ j2.at = "failed"
  BY <1>11, <1>15 DEF AgentSession
<1>17. j \in AgentSession /\ j.by = s.by /\ j.began = s.began /\ j.charged = -1 /\ j.at = "failed"
  BY <1>8, <1>12, <1>16 DEF AgentSession
<1>18. session' = [session EXCEPT ![n] = j]
  <2>1. j = [[s EXCEPT !.tried = Append(@, s.next)] EXCEPT !.at = "failed", !.failures = Append(@, c)]
    BY <1>2, <1>6, <1>7, <1>9, <1>10, <1>11, <1>12 DEF AgentSession
  <2> QED BY <2>1
<1>19. SessionSound(j, a)
  <2>1. Len(j.failures) = Len(j.tried)
    BY <1>5, <1>6, <1>8, <1>13, <1>14
  <2> QED BY <1>5, <1>13, <1>14, <1>17, <2>1 DEF SessionSound
<1> QED BY <1>3, <1>17, <1>18, <1>19, SessionGoesOn

LEMMA ProviderInvoked ==
    ASSUME AgentsInv, env' = env, env.part = "agents", NEW n \in DOMAIN session, Invoke(n)
    PROVE  AgentsInv'
<1>1. PICK s : s = session[n]
  OBVIOUS
<1>2. PICK m : m = Manifest(s.next.id, s.next.version)
  OBVIOUS
<1>3. PICK answered : answered = [[s EXCEPT !.tried = Append(@, s.next)] EXCEPT
                            !.at = "answered", !.hash = adapter[s.by].registry[s.next.id], !.cost = m.models[env.model].price]
  OBVIOUS
<1>4. /\ s.at \in {"chosen", "waiting"} /\ UNCHANGED <<manifestFile, costs, sessionLog, ticks>>
      /\ \/ /\ env.model \in Models(m)
            /\ session' = [session EXCEPT ![n] =
                    IF adapter[s.by].tracking THEN [answered EXCEPT !.charged = Charge(s.by, s.next.id)]
                    ELSE [answered EXCEPT !.at = "closing"]]
            /\ adapter' = Counted(s.by, n)
         \/ /\ \E c \in env.answers \cup (IF env.model \in Models(m) THEN {} ELSE {"permanent"}) :
                    session' = [session EXCEPT ![n] =
                        [[s EXCEPT !.tried = Append(@, s.next)] EXCEPT !.at = "failed", !.failures = Append(@, c)]]
            /\ UNCHANGED adapter
  BY <1>1, <1>2, <1>3, Zenon DEF Invoke
<1>5. CASE /\ env.model \in Models(m)
           /\ session' = [session EXCEPT ![n] =
                    IF adapter[s.by].tracking THEN [answered EXCEPT !.charged = Charge(s.by, s.next.id)]
                    ELSE [answered EXCEPT !.at = "closing"]]
           /\ adapter' = Counted(s.by, n)
  BY <1>1, <1>2, <1>3, <1>4, <1>5, ProviderAnswers
<1>6. CASE /\ \E c \in env.answers \cup (IF env.model \in Models(m) THEN {} ELSE {"permanent"}) :
                    session' = [session EXCEPT ![n] =
                        [[s EXCEPT !.tried = Append(@, s.next)] EXCEPT !.at = "failed", !.failures = Append(@, c)]]
           /\ UNCHANGED adapter
  <2>1. PICK c \in env.answers \cup {"permanent"} :
            session' = [session EXCEPT ![n] = [[s EXCEPT !.tried = Append(@, s.next)] EXCEPT !.at = "failed", !.failures = Append(@, c)]]
    BY <1>6
  <2> QED BY <1>1, <1>4, <1>6, <2>1, ProviderFails
<1> QED BY <1>4, <1>5, <1>6

LEMMA SessionIs ==
    ASSUME AgentsTyped, NEW n \in DOMAIN session
    PROVE  session[n] \in AgentSession /\ session[n].by \in Process
<1>1. session[n] \in AgentSession
  BY DEF AgentsTyped
<1> QED BY <1>1 DEF AgentSession

LEMMA CostLogAppended ==
    ASSUME AgentsInv, env' = env, NEW n \in DOMAIN session, AppendCostLog(n)
    PROVE  AgentsInv'
<1>1. AgentsTyped /\ SessionsSound /\ CostsCounted /\ OneAfterTheOther
  BY DEF AgentsInv
<1>2. PICK s : s = session[n] /\ s \in AgentSession /\ s.by \in Process
  BY <1>1, SessionIs
<1>3. PICK a \in AgentAdapter : a = adapter[s.by]
  BY <1>1, <1>2 DEF AgentsTyped
<1>4. SessionSound(s, a)
  BY <1>1, <1>2, <1>3 DEF SessionsSound
<1>5. PICK j : j = [s EXCEPT !.at = "closing"]
  OBVIOUS
<1>6. /\ j \in AgentSession /\ j.at = "closing" /\ j.by = s.by /\ j.began = s.began /\ j.tried = s.tried /\ j.failures = s.failures
      /\ j.hash = s.hash /\ j.cost = s.cost /\ j.charged = s.charged
  BY <1>2, <1>5 DEF AgentSession
<1>7. /\ s.at = "answered" /\ session' = [session EXCEPT ![n] = j] /\ UNCHANGED <<manifestFile, adapter, sessionLog, ticks>>
      /\ costs' = [costs EXCEPT !.log = Append(@, n)] \/ ("failure" \in env.events /\ costs' = costs)
  BY <1>1, <1>2, <1>5 DEF AppendCostLog, AgentsTyped
<1>8. CalledOnce(s) /\ AtWork(a) /\ a.tracking /\ s.charged >= 0 /\ (env.events \cap {"late", "edit"} = {} => s.charged = s.cost)
  BY <1>4, <1>7 DEF SessionSound
<1>9. SessionSound(j, a)
  <2>1. CalledOnce(j)
    BY <1>6, <1>8, SameCalls
  <2> QED BY <1>6, <1>8, <2>1 DEF SessionSound
<1>10. PICK log \in Seq(Nat) : log = costs.log
  BY <1>1 DEF AgentsTyped, CostFiles
<1>11. PICK m : m = Len(log) + 1
  OBVIOUS
<1>12. PICK more : more = Append(log, n)
  OBVIOUS
<1>13. n \in Nat
  BY <1>1 DEF AgentsTyped
<1>14. /\ more \in Seq(Nat) /\ Len(more) = m /\ DOMAIN more = DOMAIN log \cup {m} /\ more[m] = n
       /\ m \in Nat /\ m \notin DOMAIN log /\ \A k \in DOMAIN log : more[k] = log[k]
  BY <1>10, <1>11, <1>12, <1>13, ItemAdded
<1>15. /\ costs' \in CostFiles /\ costs'.ok = costs.ok /\ costs'.file = costs.file
       /\ costs'.log = more \/ ("failure" \in env.events /\ costs'.log = log)
  BY <1>1, <1>7, <1>10, <1>12, <1>14 DEF AgentsTyped, CostFiles
<1>16. SessionMove(n, s, a, j, a)
  <2>1. adapter' = [adapter EXCEPT ![s.by] = a] /\ sessionLog' \in Seq(Nat)
    BY <1>1, <1>2, <1>3, <1>7 DEF AgentsTyped
  <2> QED BY <1>2, <1>3, <1>6, <1>7, <1>15, <2>1 DEF SessionMove
<1>17. /\ AgentsTyped' /\ AdaptersConfigured' /\ SessionsSound' /\ SessionsAccepted'
       /\ \A list : Tally(list) => Tally(list)'
       /\ DOMAIN session' = DOMAIN session /\ session'[n] = j /\ \A i \in DOMAIN session : i # n => session'[i] = session[i]
  BY <1>9, <1>16, SessionMoves
<1>18. SessionsRecorded'
  BY <1>2, <1>6, <1>7, <1>17, NotRecordedYet
<1>19. Tally(log) /\ \A k \in DOMAIN log : session[log[k]].at # "answered"
  BY <1>1, <1>10 DEF CostsCounted
<1>20. \A k \in DOMAIN log : log[k] # n /\ log[k] \in DOMAIN session
  BY <1>2, <1>7, <1>19 DEF Tally
<1>21. Tally(more)' /\ \A k \in DOMAIN more : session'[more[k]].at # "answered"
  <2>1. Once(more)
    BY <1>14, <1>19, <1>20 DEF Tally, Once
  <2>2. Tally(log)'
    BY <1>17, <1>19
  <2>3. \A k \in DOMAIN log : /\ log[k] \in DOMAIN session' /\ session'[log[k]].charged >= 0
                              /\ session'[log[k]].at \notin {"chosen", "waiting", "failed"}
    BY <2>2 DEF Tally
  <2>4. n \in DOMAIN session' /\ session'[n].charged >= 0 /\ session'[n].at \notin {"chosen", "waiting", "failed", "answered"}
    BY <1>6, <1>8, <1>17
  <2>5. \A k \in DOMAIN log : session'[log[k]].at # "answered"
    BY <1>17, <1>19, <1>20
  <2> QED BY <1>14, <2>1, <2>3, <2>4, <2>5 DEF Tally, Once
<1>22. Tally(log)' /\ \A k \in DOMAIN log : session'[log[k]].at # "answered"
  BY <1>17, <1>19, <1>20
<1>23. CostsCounted'
  <2>1. \A list : (\E p \in Process : list = adapter[p].counted) \/ list = costs.file => Tally(list)'
    BY <1>1, <1>17 DEF CostsCounted
  <2>3. \A list : list = costs'.log => Tally(list)' /\ \A k \in DOMAIN list : session'[list[k]].at # "answered"
    BY <1>15, <1>21, <1>22
  <2>4. \A list : list = costs'.file => Tally(list)'
    BY <1>15, <2>1
  <2>5. \A p \in Process : \A list : list = adapter'[p].counted => Tally(list)'
    BY <1>7, <2>1
  <2> QED BY <2>3, <2>4, <2>5 DEF CostsCounted
<1>24. OneAfterTheOther'
  <2> SUFFICES ASSUME env.events \cap {"overlap", "crash", "failure"} = {}
               PROVE  /\ costs'.ok
                      /\ \A p, q \in Process : AtWork(adapter'[p]) /\ AtWork(adapter'[q]) => p = q
                      /\ \A p \in Process : adapter'[p].tracking =>
                            /\ Elements(adapter'[p].counted) = Elements(costs'.log) \cup AnsweredBy(p)'
                            /\ Len(costs'.file) <= Len(adapter'[p].counted)
                            /\ \A k \in DOMAIN costs'.file : costs'.file[k] = adapter'[p].counted[k]
                      /\ (\A p \in Process : ~adapter'[p].tracking) => Elements(costs'.file) = Elements(costs'.log)
    BY DEF OneAfterTheOther, AtWork
  <2>1. /\ costs.ok
        /\ \A p, q \in Process : AtWork(adapter[p]) /\ AtWork(adapter[q]) => p = q
        /\ \A p \in Process : adapter[p].tracking =>
            /\ Elements(adapter[p].counted) = Elements(costs.log) \cup AnsweredBy(p)
            /\ Len(costs.file) <= Len(adapter[p].counted)
            /\ \A k \in DOMAIN costs.file : costs.file[k] = adapter[p].counted[k]
    BY <1>1 DEF OneAfterTheOther
  <2>2. \A p \in Process : adapter[p].tracking => p = s.by
    BY <1>2, <1>3, <1>8, <2>1 DEF AtWork
  <2>3. costs'.log = more
    BY <1>15
  <2>4. Elements(log) \cup AnsweredBy(s.by) = Elements(more) \cup AnsweredBy(s.by)'
    <3>1. AnsweredBy(s.by)' = AnsweredBy(s.by) \ {n}
      BY <1>6, <1>17 DEF AnsweredBy
    <3>2. n \in AnsweredBy(s.by)
      BY <1>2, <1>7 DEF AnsweredBy
    <3>3. Elements(more) = Elements(log) \cup {n}
      BY <1>14 DEF Elements
    <3> QED BY <3>1, <3>2, <3>3
  <2>5. \A p \in Process : adapter[p].tracking => Elements(adapter[p].counted) = Elements(more) \cup AnsweredBy(p)'
    BY <1>10, <2>1, <2>2, <2>4
  <2>6. adapter' = adapter /\ adapter[s.by].tracking
    BY <1>3, <1>7, <1>8
  <2> QED BY <1>2, <1>15, <2>1, <2>3, <2>5, <2>6
<1> QED BY <1>17, <1>18, <1>23, <1>24 DEF AgentsInv

LEMMA SessionClosed ==
    ASSUME AgentsInv, env' = env, NEW n \in DOMAIN session, CloseSession(n)
    PROVE  AgentsInv'
<1>1. AgentsTyped /\ SessionsSound /\ SessionsRecorded /\ CostsCounted /\ OneAfterTheOther
  BY DEF AgentsInv
<1>2. PICK s : s = session[n] /\ s \in AgentSession /\ s.by \in Process
  BY <1>1, SessionIs
<1>3. PICK a \in AgentAdapter : a = adapter[s.by]
  BY <1>1, <1>2 DEF AgentsTyped
<1>4. SessionSound(s, a)
  BY <1>1, <1>2, <1>3 DEF SessionsSound
<1>5. PICK j : j = [s EXCEPT !.at = "done"]
  OBVIOUS
<1>6. /\ j \in AgentSession /\ j.at = "done" /\ j.by = s.by /\ j.began = s.began /\ j.tried = s.tried /\ j.failures = s.failures
      /\ j.hash = s.hash /\ j.cost = s.cost /\ j.charged = s.charged
  BY <1>2, <1>5 DEF AgentSession
<1>7. /\ s.at = "closing" /\ session' = [session EXCEPT ![n] = j] /\ UNCHANGED <<manifestFile, adapter, costs, ticks>>
      /\ sessionLog' = Append(sessionLog, n) \/ ("failure" \in env.events /\ sessionLog' = sessionLog)
  BY <1>1, <1>2, <1>5 DEF CloseSession, RecordTelemetry, AgentsTyped
<1>8. CalledOnce(s) /\ AtWork(a) /\ (env.events \cap {"late", "edit"} = {} /\ s.charged >= 0 => s.charged = s.cost)
  BY <1>4, <1>7 DEF SessionSound
<1>9. SessionSound(j, a)
  <2>1. CalledOnce(j)
    BY <1>6, <1>8, SameCalls
  <2> QED BY <1>6, <1>8, <2>1 DEF SessionSound
<1>10. PICK m : m = Len(sessionLog) + 1
  OBVIOUS
<1>11. PICK more : more = Append(sessionLog, n)
  OBVIOUS
<1>12. sessionLog \in Seq(Nat) /\ n \in Nat
  BY <1>1 DEF AgentsTyped
<1>13. /\ more \in Seq(Nat) /\ DOMAIN more = DOMAIN sessionLog \cup {m} /\ more[m] = n
       /\ m \in Nat /\ m \notin DOMAIN sessionLog /\ \A k \in DOMAIN sessionLog : more[k] = sessionLog[k]
  BY <1>10, <1>11, <1>12, ItemAdded
<1>14. SessionMove(n, s, a, j, a)
  <2>1. adapter' = [adapter EXCEPT ![s.by] = a] /\ costs' \in CostFiles /\ sessionLog' \in Seq(Nat)
    BY <1>1, <1>2, <1>3, <1>7, <1>11, <1>13 DEF AgentsTyped
  <2> QED BY <1>2, <1>3, <1>6, <1>7, <2>1 DEF SessionMove
<1>15. /\ AgentsTyped' /\ AdaptersConfigured' /\ SessionsSound' /\ SessionsAccepted'
       /\ \A list : Tally(list) => Tally(list)'
       /\ DOMAIN session' = DOMAIN session /\ session'[n] = j /\ \A i \in DOMAIN session : i # n => session'[i] = session[i]
  BY <1>9, <1>14, SessionMoves
<1>16. \A k \in DOMAIN sessionLog : /\ sessionLog[k] \in DOMAIN session /\ sessionLog[k] # n
                                    /\ session'[sessionLog[k]].at \in {"done", "past"}
  BY <1>1, <1>2, <1>7, <1>15 DEF SessionsRecorded
<1>17. SessionsRecorded'
  <2>1. CASE sessionLog' = more
    <3>1. Once(more)
      BY <1>1, <1>13, <1>16 DEF SessionsRecorded, Once
    <3>2. \A k \in DOMAIN more : more[k] \in DOMAIN session' /\ session'[more[k]].at \in {"done", "past"}
      BY <1>6, <1>13, <1>15, <1>16
    <3>3. ASSUME "failure" \notin env.events, NEW i \in DOMAIN session, session'[i].at \in {"done", "past"}
          PROVE  \E k \in DOMAIN more : more[k] = i
      <4>1. CASE i = n
        BY <1>13, <4>1
      <4>2. CASE i # n
        <5>1. \E k \in DOMAIN sessionLog : sessionLog[k] = i
          BY <1>1, <1>15, <3>3, <4>2 DEF SessionsRecorded
        <5> QED BY <1>13, <5>1
      <4> QED BY <4>1, <4>2
    <3> QED BY <1>15, <2>1, <3>1, <3>2, <3>3 DEF SessionsRecorded, Once
  <2>2. CASE "failure" \in env.events /\ sessionLog' = sessionLog
    BY <1>1, <1>15, <1>16, <2>2 DEF SessionsRecorded, Once
  <2> QED BY <1>7, <1>11, <2>1, <2>2
<1>18. CostsCounted'
  <2>1. \A k \in DOMAIN costs.log : session'[costs.log[k]].at # "answered"
    BY <1>1, <1>6, <1>15 DEF CostsCounted, Tally
  <2> QED BY <1>1, <1>7, <1>15, <2>1 DEF CostsCounted
<1>19. OneAfterTheOther'
  <2>1. \A p \in Process : AnsweredBy(p)' = AnsweredBy(p)
    BY <1>2, <1>6, <1>7, <1>15 DEF AnsweredBy
  <2> QED BY <1>1, <1>7, <2>1 DEF OneAfterTheOther, AtWork
<1> QED BY <1>15, <1>17, <1>18, <1>19 DEF AgentsInv

\* A session that has ended is sound whatever its process does.
LEMMA EndedSound ==
    ASSUME NEW s, NEW a, NEW b, NEW r, SessionSound(s, a), s.at \in {"done", "past", "lost"}, r.tried = s.tried, r.failures = s.failures,
           r.hash = s.hash, r.charged = s.charged, r.cost = s.cost, r.at \in {"done", "past", "lost"}
    PROVE  SessionSound(r, b)
<1>1. CalledOnce(s) /\ (env.events \cap {"late", "edit"} = {} /\ s.charged >= 0 => s.charged = s.cost)
  BY DEF SessionSound
<1>2. CalledOnce(r)
  BY <1>1, SameCalls
<1> QED BY <1>1, <1>2 DEF SessionSound

\* What changes neither sessions nor adapters.
LEMMA FilesMove ==
    ASSUME AgentsInv, env' = env, UNCHANGED <<adapter, session, sessionLog>>, NEW files \in CostFiles, costs' = files,
           NEW manifests \in [Provider -> Nat], manifestFile' = manifests,
           env.part = "agents" => \A i \in Provider : KnownVersion(i, manifests[i]), NEW hour \in Nat, ticks' = hour, hour >= ticks,
           Tally(files.file), Tally(files.log), \A k \in DOMAIN files.log : session[files.log[k]].at # "answered"
    PROVE  AgentsTyped' /\ AdaptersConfigured' /\ SessionsSound' /\ SessionsAccepted' /\ SessionsRecorded' /\ CostsCounted'
<1>1. AgentsTyped /\ AdaptersConfigured /\ SessionsSound /\ SessionsAccepted /\ SessionsRecorded /\ CostsCounted
  BY DEF AgentsInv
<1>2. /\ AgentSession' = AgentSession
      /\ \A i, v : KnownVersion(i, v)' <=> KnownVersion(i, v)
      /\ \A a : Configured(a)' <=> Configured(a)
      /\ \A s, a : SessionSound(s, a)' <=> SessionSound(s, a)
  BY SettingsStay
<1>3. AgentsTyped'
  BY <1>1, <1>2 DEF AgentsTyped, AgentAdapter, CostFiles
<1>4. AdaptersConfigured'
  <2>1. \A p \in Process : \A a : a = adapter[p] => Configured(a)'
    BY <1>1, <1>2 DEF AdaptersConfigured
  <2>2. env.part = "agents" => \A i \in Provider : KnownVersion(i, manifests[i])'
    BY <1>2
  <2> QED BY <2>1, <2>2 DEF AdaptersConfigured, KnownVersion
<1>5. SessionsSound'
  <2>1. \A n \in DOMAIN session : \A s, a : s = session[n] /\ a = adapter[s.by] => SessionSound(s, a)'
    BY <1>1, <1>2 DEF SessionsSound
  <2> QED BY <2>1 DEF SessionsSound
<1>6. SessionsAccepted'
  <2>1. \A p \in Process, t \in Nat : Started(p, t)' = Started(p, t)
    BY DEF Started
  <2>2. \A p \in Process, t \in Nat : Cardinality(Started(p, t))' = Cardinality(Started(p, t))
    BY <2>1
  <2>3. ASSUME NEW n \in DOMAIN session
        PROVE  session[n].began <= hour /\ (session[n].began >= hour - 1 => session[n].began >= ticks - 1)
    <3>1. session[n].began \in Int
      <4>1. session[n] \in AgentSession
        BY <1>1, SessionIs
      <4> QED BY <4>1 DEF AgentSession
    <3>2. session[n].began <= ticks /\ ticks \in Nat
      BY <1>1 DEF SessionsAccepted, AgentsTyped
    <3>3. PICK began \in Int : began = session[n].began
      BY <3>1
    <3>4. PICK before \in Nat : before = ticks
      BY <3>2
    <3> QED BY <3>2, <3>3, <3>4
  <2> QED BY <1>1, <2>2, <2>3 DEF SessionsAccepted
<1>7. SessionsRecorded'
  BY <1>1 DEF SessionsRecorded, Once
<1>8. CostsCounted'
  <2>1. \A list : Tally(list)' <=> Tally(list)
    BY DEF Tally, Once
  <2>2. \A p \in Process : \A list : list = adapter[p].counted => Tally(list)'
    BY <1>1, <2>1 DEF CostsCounted
  <2>3. Tally(files.file)' /\ Tally(files.log)'
    BY <2>1
  <2> QED BY <2>2, <2>3 DEF CostsCounted
<1> QED BY <1>3, <1>4, <1>5, <1>6, <1>7, <1>8

LEMMA CostsFlushed ==
    ASSUME AgentsInv, env' = env, NEW p \in Process, FlushCosts(p)
    PROVE  AgentsInv'
<1>1. AgentsTyped /\ AdaptersConfigured /\ CostsCounted /\ OneAfterTheOther
  BY DEF AgentsInv
<1>2. PICK a \in AgentAdapter : a = adapter[p]
  BY <1>1 DEF AgentsTyped
<1>3. PICK counted \in Seq(Nat) : counted = a.counted
  BY DEF AgentAdapter
<1>4. PICK files : files = [costs EXCEPT !.ok = TRUE, !.file = counted]
  OBVIOUS
<1>5. /\ a.tracking /\ costs' = files /\ UNCHANGED <<manifestFile, adapter, session, sessionLog, ticks>>
  BY <1>2, <1>3, <1>4 DEF FlushCosts
<1>6. files \in CostFiles /\ files.ok /\ files.file = counted /\ files.log = costs.log
  BY <1>1, <1>4 DEF AgentsTyped, CostFiles
<1>7. Tally(files.file) /\ Tally(files.log) /\ \A k \in DOMAIN files.log : session[files.log[k]].at # "answered"
  BY <1>1, <1>2, <1>3, <1>6 DEF CostsCounted
<1>8. AgentsTyped' /\ AdaptersConfigured' /\ SessionsSound' /\ SessionsAccepted' /\ SessionsRecorded' /\ CostsCounted'
  <2>1. /\ manifestFile \in [Provider -> Nat] /\ ticks \in Nat /\ ticks >= ticks
        /\ env.part = "agents" => \A i \in Provider : KnownVersion(i, manifestFile[i])
    BY <1>1 DEF AgentsTyped, AdaptersConfigured
  <2> QED BY <1>5, <1>6, <1>7, <2>1, FilesMove
<1>9. OneAfterTheOther'
  <2> SUFFICES ASSUME env.events \cap {"overlap", "crash", "failure"} = {}
               PROVE  /\ files.ok
                      /\ \A q, r \in Process : AtWork(adapter[q]) /\ AtWork(adapter[r]) => q = r
                      /\ \A q \in Process : adapter[q].tracking =>
                            /\ Elements(adapter[q].counted) = Elements(files.log) \cup AnsweredBy(q)
                            /\ Len(files.file) <= Len(adapter[q].counted)
                            /\ \A k \in DOMAIN files.file : files.file[k] = adapter[q].counted[k]
                      /\ ~(\A q \in Process : ~adapter[q].tracking)
    <3>1. \A q \in Process : AnsweredBy(q)' = AnsweredBy(q)
      BY <1>5 DEF AnsweredBy
    <3> QED BY <1>5, <3>1 DEF OneAfterTheOther, AtWork
  <2>1. /\ \A q, r \in Process : AtWork(adapter[q]) /\ AtWork(adapter[r]) => q = r
        /\ Elements(counted) = Elements(costs.log) \cup AnsweredBy(p)
    BY <1>1, <1>2, <1>3, <1>5 DEF OneAfterTheOther
  <2>2. \A q \in Process : adapter[q].tracking => q = p
    BY <1>2, <1>5, <2>1 DEF AtWork
  <2>3. Len(counted) <= Len(counted)
    BY <1>3
  <2>4. adapter[p].counted = counted /\ adapter[p].tracking
    BY <1>2, <1>3, <1>5
  <2> QED BY <1>6, <2>1, <2>2, <2>3, <2>4
<1> QED BY <1>8, <1>9 DEF AgentsInv

LEMMA ManifestEdited ==
    ASSUME AgentsInv, env' = env, env.part = "agents", NEW i \in Provider, EditManifest(i)
    PROVE  AgentsInv'
<1>1. AgentsTyped /\ AdaptersConfigured /\ CostsCounted /\ OneAfterTheOther
  BY DEF AgentsInv
<1>2. PICK v \in Nat : v = manifestFile[i]
  BY <1>1 DEF AgentsTyped
<1>3. PICK manifests : manifests = [manifestFile EXCEPT ![i] = v + 1]
  OBVIOUS
<1>4. v < Len(env.manifests[i]) /\ manifestFile' = manifests /\ UNCHANGED <<adapter, session, costs, sessionLog, ticks>>
  BY <1>2, <1>3 DEF EditManifest
<1>5. manifests \in [Provider -> Nat] /\ manifests[i] = v + 1 /\ \A x \in Provider : x # i => manifests[x] = manifestFile[x]
  BY <1>1, <1>2, <1>3 DEF AgentsTyped
<1>6. KnownVersion(i, v + 1)
  <2>1. Len(env.manifests[i]) \in Nat
    BY <1>1, AgentsAssumption DEF AgentsTyped
  <2>2. PICK most \in Nat : most = Len(env.manifests[i])
    BY <2>1
  <2>3. v + 1 \in 1..most
    BY <1>4, <2>2
  <2> QED BY <2>2, <2>3 DEF KnownVersion
<1>7. \A x \in Provider : KnownVersion(x, manifests[x])
  BY <1>1, <1>5, <1>6 DEF AdaptersConfigured
<1>8. AgentsTyped' /\ AdaptersConfigured' /\ SessionsSound' /\ SessionsAccepted' /\ SessionsRecorded' /\ CostsCounted'
  <2>1. /\ costs \in CostFiles /\ ticks \in Nat /\ ticks >= ticks /\ Tally(costs.file) /\ Tally(costs.log)
        /\ \A k \in DOMAIN costs.log : session[costs.log[k]].at # "answered"
    BY <1>1 DEF AgentsTyped, CostsCounted
  <2> QED BY <1>4, <1>5, <1>7, <2>1, FilesMove
<1>9. OneAfterTheOther'
  <2>1. \A q \in Process : AnsweredBy(q)' = AnsweredBy(q)
    BY <1>4 DEF AnsweredBy
  <2> QED BY <1>1, <1>4, <2>1 DEF OneAfterTheOther, AtWork
<1> QED BY <1>8, <1>9 DEF AgentsInv

LEMMA TimePasses ==
    ASSUME AgentsInv, env' = env, HourPasses
    PROVE  AgentsInv'
<1>1. AgentsTyped /\ AdaptersConfigured /\ CostsCounted /\ OneAfterTheOther
  BY DEF AgentsInv
<1>2. PICK hour \in Nat : hour = ticks + 1 /\ hour >= ticks
  BY <1>1 DEF AgentsTyped
<1>3. ticks' = hour /\ UNCHANGED <<manifestFile, adapter, session, costs, sessionLog>>
  BY <1>2 DEF HourPasses
<1>4. AgentsTyped' /\ AdaptersConfigured' /\ SessionsSound' /\ SessionsAccepted' /\ SessionsRecorded' /\ CostsCounted'
  <2>1. /\ costs \in CostFiles /\ Tally(costs.file) /\ Tally(costs.log) /\ manifestFile \in [Provider -> Nat]
        /\ \A k \in DOMAIN costs.log : session[costs.log[k]].at # "answered"
        /\ env.part = "agents" => \A i \in Provider : KnownVersion(i, manifestFile[i])
    BY <1>1 DEF AgentsTyped, CostsCounted, AdaptersConfigured
  <2> QED BY <1>2, <1>3, <2>1, FilesMove
<1>5. OneAfterTheOther'
  <2>1. \A q \in Process : AnsweredBy(q)' = AnsweredBy(q)
    BY <1>3 DEF AnsweredBy
  <2> QED BY <1>1, <1>3, <2>1 DEF OneAfterTheOther, AtWork
<1> QED BY <1>4, <1>5 DEF AgentsInv

LEMMA ManifestLoaded ==
    ASSUME AgentsInv, env' = env, env.part = "agents", NEW p \in Process, NEW i \in Provider, LoadManifest(p, i)
    PROVE  AgentsInv'
<1>1. AgentsTyped /\ AdaptersConfigured /\ SessionsSound /\ CostsCounted /\ OneAfterTheOther
  BY DEF AgentsInv
<1>2. PICK a \in AgentAdapter : a = adapter[p]
  BY <1>1 DEF AgentsTyped
<1>3. PICK v \in Nat : v = manifestFile[i]
  BY <1>1 DEF AgentsTyped
<1>4. PICK price \in Nat : price = (IF a.tracking THEN v ELSE a.prices[i])
  BY <1>3 DEF AgentAdapter
<1>5. PICK registered \in [Provider -> Nat] : registered = [a.registry EXCEPT ![i] = v]
  BY <1>3 DEF AgentAdapter
<1>6. PICK prices \in [Provider -> Nat] : prices = [a.prices EXCEPT ![i] = price]
  BY <1>4 DEF AgentAdapter
<1>7. PICK b1 : b1 = [a EXCEPT !.registry = registered]
  OBVIOUS
<1>8. PICK b : b = [b1 EXCEPT !.prices = prices]
  OBVIOUS
<1>9. /\ b1 \in AgentAdapter /\ b1.registry = registered /\ b1.prices = a.prices /\ b1.tracking = a.tracking
      /\ b1.counted = a.counted /\ b1.accepted = a.accepted
  BY <1>7 DEF AgentAdapter
<1>10. /\ b \in AgentAdapter /\ b.registry = registered /\ b.prices = prices /\ b.tracking = a.tracking
       /\ b.counted = a.counted /\ b.accepted = a.accepted
  BY <1>8, <1>9 DEF AgentAdapter
<1>11. /\ "edit" \in env.events /\ ~Unused(p) /\ (\A s \in OpenSessions(p) : session[s].at # "chosen")
       /\ UNCHANGED <<manifestFile, session, costs, sessionLog, ticks>>
  BY DEF LoadManifest
<1>12. adapter' = [adapter EXCEPT ![p] = b]
  <2>1. adapter' = [adapter EXCEPT ![p].registry[i] = v, ![p].prices[i] = IF a.tracking THEN v ELSE @]
    BY <1>2, <1>3 DEF LoadManifest
  <2>2. b = [a EXCEPT !.registry[i] = v, !.prices[i] = IF a.tracking THEN v ELSE @]
    BY <1>4, <1>5, <1>6, <1>7, <1>8 DEF AgentAdapter
  <2> QED BY <1>1, <1>2, <2>1, <2>2 DEF AgentsTyped
<1>13. Configured(a) /\ a # NoAdapter /\ KnownVersion(i, v)
  BY <1>1, <1>2, <1>3, <1>11 DEF AdaptersConfigured, Unused
<1>14. AtWork(a) /\ AtWork(b)
  <2>1. v # 0
    <3>1. Len(env.manifests[i]) \in Nat
      BY <1>1, AgentsAssumption DEF AgentsTyped
    <3> QED BY <1>13, <3>1 DEF KnownVersion
  <2>2. registered # NoManifests
    <3>1. registered[i] = v
      BY <1>3, <1>5 DEF AgentAdapter
    <3> QED BY <2>1, <3>1, NoAdapterIs
  <2> QED BY <1>10, <1>13, <2>2 DEF AtWork, Configured
<1>15. Configured(b)
  <2>1. ASSUME NEW x \in Provider
        PROVE  (registered[x] # 0 => KnownVersion(x, registered[x])) /\ (prices[x] # 0 => KnownVersion(x, prices[x]))
    <3>1. registered[x] = IF x = i THEN v ELSE a.registry[x]
      BY <1>3, <1>5 DEF AgentAdapter
    <3>2. prices[x] = IF x = i THEN price ELSE a.prices[x]
      BY <1>4, <1>6 DEF AgentAdapter
    <3> QED BY <1>4, <1>13, <3>1, <3>2 DEF Configured
  <2>2. env.events \cap {"late", "edit"} # {}
    BY <1>11
  <2> QED BY <1>10, <1>14, <2>1, <2>2 DEF Configured
<1>16. Tally(b.counted)
  BY <1>1, <1>2, <1>10 DEF CostsCounted
<1>17. ASSUME NEW n \in DOMAIN session, session[n].by = p PROVE SessionSound(session[n], b)
  <2>1. PICK s : s = session[n]
    OBVIOUS
  <2>2. SessionSound(s, a)
    BY <1>1, <1>2, <1>17, <2>1 DEF SessionsSound
  <2>3. s.at # "chosen"
    BY <1>11, <1>17, <2>1 DEF OpenSessions
  <2>4. ToCall(s, a) /\ s.at = "waiting" => ToCall(s, b)
    BY <1>11, <2>3 DEF ToCall
  <2>5. SessionSound(s, b)
    BY <1>10, <1>14, <2>2, <2>3, <2>4 DEF SessionSound
  <2> QED BY <2>1, <2>5
<1>18. /\ AgentsTyped' /\ AdaptersConfigured' /\ SessionsSound' /\ SessionsAccepted' /\ SessionsRecorded' /\ CostsCounted'
       /\ adapter'[p] = b /\ \A q \in Process : q # p => adapter'[q] = adapter[q]
  BY <1>2, <1>10, <1>11, <1>12, <1>15, <1>16, <1>17, AdapterMoves
<1>19. OneAfterTheOther'
  <2>1. \A q \in Process : AnsweredBy(q)' = AnsweredBy(q)
    BY <1>11 DEF AnsweredBy
  <2>2. \A q \in Process : /\ AtWork(adapter'[q]) <=> AtWork(adapter[q])
                           /\ adapter'[q].tracking = adapter[q].tracking /\ adapter'[q].counted = adapter[q].counted
    BY <1>2, <1>10, <1>14, <1>18
  <2>3. env' = env /\ costs' = costs
    BY <1>11
  <2> HIDE DEF LoadManifest
  <2> SUFFICES ASSUME env.events \cap {"overlap", "crash", "failure"} = {}
               PROVE  /\ costs.ok
                      /\ \A q, r \in Process : AtWork(adapter'[q]) /\ AtWork(adapter'[r]) => q = r
                      /\ \A q \in Process : adapter'[q].tracking =>
                            /\ Elements(adapter'[q].counted) = Elements(costs.log) \cup AnsweredBy(q)
                            /\ Len(costs.file) <= Len(adapter'[q].counted)
                            /\ \A k \in DOMAIN costs.file : costs.file[k] = adapter'[q].counted[k]
                      /\ (\A q \in Process : ~adapter'[q].tracking) => Elements(costs.file) = Elements(costs.log)
    BY <2>1, <2>3 DEF OneAfterTheOther, AtWork
  <2> QED BY <1>1, <2>2 DEF OneAfterTheOther
<1> QED BY <1>18, <1>19 DEF AgentsInv

\* An adapter begins to track costs where the file ends.
LEMMA TrackingIs ==
    ASSUME AgentsTyped, CostsCounted, NEW a \in AgentAdapter, NEW b, b = Tracking(a)
    PROVE  /\ b \in AgentAdapter /\ b.registry = a.registry /\ b.prices = a.prices /\ b.tracking /\ b.accepted = a.accepted
           /\ Tally(b.counted) /\ (costs.ok => b.counted = costs.file)
<1>1. PICK counted : counted = IF costs.ok THEN costs.file ELSE <<>>
  OBVIOUS
<1>2. <<>> \in Seq(Nat) /\ costs.file \in Seq(Nat)
  BY DEF AgentsTyped, CostFiles
<1>3. counted \in Seq(Nat) /\ Tally(counted)
  <2>1. DOMAIN <<>> = {}
    OBVIOUS
  <2>2. Tally(<<>>)
    BY <2>1 DEF Tally, Once
  <2> QED BY <1>1, <1>2, <2>2 DEF CostsCounted
<1>4. PICK c : c = [a EXCEPT !.tracking = TRUE]
  OBVIOUS
<1>5. PICK d : d = [c EXCEPT !.counted = counted]
  OBVIOUS
<1>6. c \in AgentAdapter /\ c.registry = a.registry /\ c.prices = a.prices /\ c.tracking = TRUE /\ c.accepted = a.accepted
  BY <1>4 DEF AgentAdapter
<1>7. /\ d \in AgentAdapter /\ d.registry = a.registry /\ d.prices = a.prices /\ d.tracking = TRUE /\ d.accepted = a.accepted
      /\ d.counted = counted
  BY <1>3, <1>5, <1>6 DEF AgentAdapter
<1>8. b = d
  BY <1>1, <1>4, <1>5 DEF Tracking, AgentAdapter
<1> QED BY <1>1, <1>3, <1>7, <1>8

\* Only an adapter at work has sessions that are open.
LEMMA OpenAtWork ==
    ASSUME AgentsInv, NEW p \in Process, ~AtWork(adapter[p]) \/ OpenSessions(p) = {}, NEW n \in DOMAIN session, session[n].by = p
    PROVE  session[n].at \in {"done", "past", "lost"}
<1>1. SessionsSound /\ AgentsTyped
  BY DEF AgentsInv
<1>2. PICK s, a : s = session[n] /\ a = adapter[p]
  OBVIOUS
<1>3. SessionSound(s, a)
  BY <1>1, <1>2 DEF SessionsSound
<1>4. CASE ~AtWork(adapter[p])
  BY <1>2, <1>3, <1>4 DEF SessionSound
<1>5. CASE OpenSessions(p) = {}
  BY <1>5 DEF OpenSessions
<1> QED BY <1>4, <1>5

\* An adapter without an open session begins, or begins to track costs.
LEMMA AdapterStarts ==
    ASSUME AgentsInv, env' = env, NEW p \in Process, NEW b \in AgentAdapter, NEW a, a = adapter[p], adapter' = [adapter EXCEPT ![p] = b],
           UNCHANGED <<manifestFile, session, costs, sessionLog, ticks>>, Configured(b), b.accepted = a.accepted,
           \A n \in DOMAIN session : session[n].by = p => session[n].at \in {"done", "past", "lost"},
           ~a.tracking, Tally(b.counted), b.tracking /\ costs.ok => b.counted = costs.file,
           AtWork(a) \/ "overlap" \in env.events \/ \A q \in Process \ {p} : ~AtWork(adapter[q])
    PROVE  AgentsInv'
<1>1. AgentsTyped /\ SessionsSound /\ OneAfterTheOther
  BY DEF AgentsInv
<1>2. ASSUME NEW n \in DOMAIN session, session[n].by = p PROVE SessionSound(session[n], b)
  <2>1. PICK s : s = session[n]
    OBVIOUS
  <2>2. SessionSound(s, a) /\ s.at \in {"done", "past", "lost"}
    BY <1>1, <1>2, <2>1 DEF SessionsSound
  <2>3. SessionSound(s, b)
    BY <2>2, EndedSound
  <2> QED BY <2>1, <2>3
<1>3. /\ AgentsTyped' /\ AdaptersConfigured' /\ SessionsSound' /\ SessionsAccepted' /\ SessionsRecorded' /\ CostsCounted'
      /\ adapter'[p] = b /\ \A q \in Process : q # p => adapter'[q] = adapter[q]
  BY <1>2, AdapterMoves
<1>4. OneAfterTheOther'
  <2>1. \A q \in Process : AnsweredBy(q)' = AnsweredBy(q)
    BY DEF AnsweredBy
  <2> SUFFICES ASSUME env.events \cap {"overlap", "crash", "failure"} = {}
               PROVE  /\ costs.ok
                      /\ \A q, r \in Process : AtWork(adapter'[q]) /\ AtWork(adapter'[r]) => q = r
                      /\ \A q \in Process : adapter'[q].tracking =>
                            /\ Elements(adapter'[q].counted) = Elements(costs.log) \cup AnsweredBy(q)
                            /\ Len(costs.file) <= Len(adapter'[q].counted)
                            /\ \A k \in DOMAIN costs.file : costs.file[k] = adapter'[q].counted[k]
                      /\ (\A q \in Process : ~adapter'[q].tracking) => Elements(costs.file) = Elements(costs.log)
    BY <2>1 DEF OneAfterTheOther, AtWork
  <2>2. /\ costs.ok
        /\ \A q, r \in Process : AtWork(adapter[q]) /\ AtWork(adapter[r]) => q = r
        /\ (\A q \in Process : ~adapter[q].tracking) => Elements(costs.file) = Elements(costs.log)
    BY <1>1 DEF OneAfterTheOther
  <2>3. "overlap" \notin env.events
    OBVIOUS
  <2>4. \A q \in Process : q # p => ~AtWork(adapter[q]) /\ ~adapter[q].tracking
    BY <2>2, <2>3 DEF AtWork
  <2>5. Elements(costs.file) = Elements(costs.log)
    BY <2>2, <2>4
  <2>6. AnsweredBy(p) = {}
    BY DEF AnsweredBy
  <2>7. Len(costs.file) <= Len(costs.file)
    <3>1. PICK old \in Seq(Nat) : old = costs.file
      BY <1>1 DEF AgentsTyped, CostFiles
    <3>2. Len(old) <= Len(old)
      OBVIOUS
    <3> QED BY <3>1, <3>2
  <2>8. b.tracking => b.counted = costs.file
    BY <2>2
  <2> QED BY <1>3, <2>2, <2>4, <2>5, <2>6, <2>7, <2>8
<1> QED BY <1>3, <1>4 DEF AgentsInv

LEMMA AdapterStarted ==
    ASSUME AgentsInv, env' = env, env.part = "agents", NEW p \in Process, StartAdapter(p)
    PROVE  AgentsInv'
<1>1. AgentsTyped /\ AdaptersConfigured /\ CostsCounted
  BY DEF AgentsInv
<1>2. PICK valid : valid = [i \in Provider |-> IF Manifest(i, manifestFile[i]).valid THEN manifestFile[i] ELSE 0]
  OBVIOUS
<1>3. valid \in [Provider -> Nat] /\ \A i \in Provider : valid[i] # 0 => KnownVersion(i, valid[i])
  BY <1>1, <1>2 DEF AgentsTyped, AdaptersConfigured
<1>4. PICK prices : prices = IF "late" \notin env.events THEN valid ELSE NoManifests
  OBVIOUS
<1>5. /\ prices \in [Provider -> Nat] /\ \A i \in Provider : prices[i] # 0 => KnownVersion(i, prices[i])
      /\ "late" \notin env.events => prices = valid
      /\ "late" \in env.events => prices = NoManifests
  BY <1>3, <1>4, NoAdapterIs
<1>6. PICK a1 : a1 = [NoAdapter EXCEPT !.registry = valid]
  OBVIOUS
<1>7. PICK a : a = [a1 EXCEPT !.prices = prices]
  OBVIOUS
<1>8. a1 \in AgentAdapter /\ a1.registry = valid /\ a1.tracking = FALSE /\ a1.counted = <<>> /\ a1.accepted = {}
  BY <1>3, <1>6, NoAdapterIs DEF AgentAdapter
<1>9. a \in AgentAdapter /\ a.registry = valid /\ a.prices = prices /\ a.tracking = FALSE /\ a.counted = <<>> /\ a.accepted = {}
  BY <1>5, <1>7, <1>8 DEF AgentAdapter
<1>10. PICK b : b = IF "late" \notin env.events THEN Tracking(a) ELSE a
  OBVIOUS
<1>11. /\ Works(p) /\ adapter[p] = NoAdapter /\ adapter' = [adapter EXCEPT ![p] = b]
       /\ UNCHANGED <<manifestFile, session, costs, sessionLog, ticks>>
  <2>1. a = [NoAdapter EXCEPT !.registry = valid, !.prices = IF "late" \notin env.events THEN valid ELSE NoManifests]
    BY <1>4, <1>6, <1>7 DEF NoAdapter
  <2> QED BY <1>2, <1>10, <2>1 DEF StartAdapter, Unused
<1>12. /\ b \in AgentAdapter /\ b.registry = valid /\ b.prices = prices /\ b.accepted = {} /\ Tally(b.counted)
       /\ b.tracking /\ costs.ok => b.counted = costs.file
       /\ "late" \notin env.events => b.tracking
       /\ "late" \in env.events => b = a
  <2>1. CASE "late" \notin env.events
    BY <1>1, <1>9, <1>10, <2>1, TrackingIs
  <2>2. CASE "late" \in env.events
    <3>1. b = a
      BY <1>10, <2>2
    <3>2. Tally(<<>>)
      BY DEF Tally, Once
    <3> QED BY <1>9, <2>2, <3>1, <3>2
  <2> QED BY <2>1, <2>2
<1>13. Configured(b)
  <2>1. b = NoAdapter \/ AtWork(b)
    <3>1. CASE "late" \notin env.events
      BY <1>12, <3>1 DEF AtWork
    <3>2. CASE "late" \in env.events /\ valid = NoManifests
      <4>1. NoAdapter.registry = NoManifests /\ NoAdapter.prices = NoManifests
        BY NoAdapterIs
      <4>2. a1 = NoAdapter
        BY <1>6, <3>2, <4>1 DEF NoAdapter
      <4>3. a = NoAdapter
        BY <1>5, <1>7, <3>2, <4>1, <4>2 DEF NoAdapter
      <4> QED BY <1>12, <3>2, <4>3
    <3>3. CASE valid # NoManifests
      BY <1>12, <3>3 DEF AtWork
    <3> QED BY <3>1, <3>2, <3>3
  <2>2. env.events \cap {"late", "edit"} = {} => b.prices = b.registry
    BY <1>5, <1>12
  <2> QED BY <1>3, <1>5, <1>12, <2>1, <2>2 DEF Configured
<1>14. \A n \in DOMAIN session : session[n].by = p => session[n].at \in {"done", "past", "lost"}
  BY <1>11, NoAdapterIs, OpenAtWork
<1>15. "overlap" \in env.events \/ \A q \in Process \ {p} : ~AtWork(adapter[q])
  BY <1>11, NoAdapterIs DEF Works, Unused
<1>16. PICK c : c = adapter[p] /\ c.accepted = {} /\ c.tracking = FALSE
  BY <1>11, NoAdapterIs
<1> QED BY <1>11, <1>12, <1>13, <1>14, <1>15, <1>16, AdapterStarts

LEMMA CostsTracked ==
    ASSUME AgentsInv, env' = env, NEW p \in Process, TrackCosts(p)
    PROVE  AgentsInv'
<1>1. AgentsTyped /\ AdaptersConfigured /\ CostsCounted
  BY DEF AgentsInv
<1>2. PICK a \in AgentAdapter : a = adapter[p]
  BY <1>1 DEF AgentsTyped
<1>3. PICK b : b = Tracking(a)
  OBVIOUS
<1>4. /\ b \in AgentAdapter /\ b.registry = a.registry /\ b.prices = a.prices /\ b.tracking /\ b.accepted = a.accepted
      /\ Tally(b.counted) /\ (costs.ok => b.counted = costs.file)
  BY <1>1, <1>3, TrackingIs
<1>5. /\ "late" \in env.events /\ a # NoAdapter /\ ~a.tracking /\ OpenSessions(p) = {} /\ adapter' = [adapter EXCEPT ![p] = b]
      /\ UNCHANGED <<manifestFile, session, costs, sessionLog, ticks>>
  <2>1. adapter' = [adapter EXCEPT ![p] = Tracking(@)]
    BY DEF TrackCosts
  <2>2. adapter' = [adapter EXCEPT ![p] = b]
    BY <1>2, <1>3, <2>1
  <2> QED BY <1>2, <2>2 DEF TrackCosts, Unused
<1>6. Configured(a) /\ AtWork(a)
  <2>1. Configured(a)
    BY <1>1, <1>2 DEF AdaptersConfigured
  <2> QED BY <1>5, <2>1 DEF Configured
<1>7. Configured(b)
  <2>1. AtWork(b) /\ env.events \cap {"late", "edit"} # {}
    BY <1>4, <1>5 DEF AtWork
  <2> QED BY <1>4, <1>6, <2>1 DEF Configured
<1>8. \A n \in DOMAIN session : session[n].by = p => session[n].at \in {"done", "past", "lost"}
  BY <1>5, OpenAtWork
<1> QED BY <1>2, <1>4, <1>5, <1>6, <1>7, <1>8, AdapterStarts

\* What the end of a process leaves of its sessions.
LEMMA PastIs ==
    ASSUME AgentsTyped, NEW p \in Process, NEW n \in DOMAIN session, NEW s, s = session[n], NEW r, r = Past(p)[n]
    PROVE  /\ DOMAIN Past(p) = DOMAIN session /\ r \in AgentSession
           /\ s.by # p => r = s
           /\ s.by = p => r.at \in {"past", "lost"} /\ (r.at = "past" <=> s.at \in {"done", "past"})
           /\ r.by = s.by /\ r.began = s.began /\ r.tried = s.tried /\ r.failures = s.failures /\ r.hash = s.hash
           /\ r.cost = s.cost /\ r.charged = s.charged
<1>1. s \in AgentSession
  BY SessionIs
<1>2. DOMAIN Past(p) = DOMAIN session
  BY DEF Past
<1>3. CASE s.by # p
  <2>1. r = s
    BY <1>3 DEF Past
  <2> QED BY <1>1, <1>2, <1>3, <2>1
<1>4. CASE s.by = p
  <2>1. PICK at : at = IF n \in OpenSessions(p) THEN "lost" ELSE IF s.at = "done" THEN "past" ELSE s.at
    OBVIOUS
  <2>2. n \in OpenSessions(p) <=> s.at \notin {"done", "past", "lost"}
    BY <1>4 DEF OpenSessions
  <2>3. at \in {"past", "lost"} /\ (at = "past" <=> s.at \in {"done", "past"})
    BY <1>1, <2>1, <2>2 DEF AgentSession
  <2>4. PICK j : j = [s EXCEPT !.at = at]
    OBVIOUS
  <2>5. /\ j \in AgentSession /\ j.at = at /\ j.by = s.by /\ j.began = s.began /\ j.tried = s.tried /\ j.failures = s.failures
        /\ j.hash = s.hash /\ j.cost = s.cost /\ j.charged = s.charged
    BY <1>1, <2>3, <2>4 DEF AgentSession
  <2>6. r = j
    BY <1>4, <2>1, <2>4 DEF Past
  <2> QED BY <1>2, <1>4, <2>3, <2>5, <2>6
<1> QED BY <1>3, <1>4

LEMMA ProcessEnds ==
    ASSUME AgentsInv, env' = env, NEW p \in Process, adapter' = [adapter EXCEPT ![p] = NoAdapter], session' = Past(p),
           UNCHANGED <<manifestFile, sessionLog, ticks>>, NEW files \in CostFiles, costs' = files, files.log = costs.log,
           Tally(files.file)
    PROVE  /\ AgentsTyped' /\ AdaptersConfigured' /\ SessionsSound' /\ SessionsAccepted' /\ SessionsRecorded' /\ CostsCounted'
           /\ adapter'[p] = NoAdapter /\ (\A q \in Process : q # p => adapter'[q] = adapter[q])
           /\ \A q \in Process : q # p => AnsweredBy(q)' = AnsweredBy(q)
<1>1. AgentsTyped /\ AdaptersConfigured /\ SessionsSound /\ SessionsAccepted /\ SessionsRecorded /\ CostsCounted
  BY DEF AgentsInv
<1>2. /\ AgentSession' = AgentSession
      /\ \A i, v : KnownVersion(i, v)' <=> KnownVersion(i, v)
      /\ \A a : Configured(a)' <=> Configured(a)
      /\ \A s, a : SessionSound(s, a)' <=> SessionSound(s, a)
  BY SettingsStay
<1>3. /\ adapter' \in [Process -> AgentAdapter] /\ adapter'[p] = NoAdapter
      /\ \A q \in Process : q # p => adapter'[q] = adapter[q]
  BY <1>1, NoAdapterIs DEF AgentsTyped
<1>4. PICK after : after = session'
  OBVIOUS
<1>5. after = Past(p)
  BY <1>4
<1>6. DOMAIN after = DOMAIN session
  BY <1>5 DEF Past
<1>7. \A n \in DOMAIN session : \A s, r : s = session[n] /\ r = after[n] =>
        /\ r \in AgentSession /\ (s.by # p => r = s)
        /\ s.by = p => r.at \in {"past", "lost"} /\ (r.at = "past" <=> s.at \in {"done", "past"})
        /\ r.by = s.by /\ r.began = s.began /\ r.tried = s.tried /\ r.failures = s.failures /\ r.hash = s.hash
        /\ r.cost = s.cost /\ r.charged = s.charged
  BY <1>1, <1>5, PastIs
<1>8. after \in Seq(AgentSession)
  <2>1. PICK n \in Nat : n = Len(session) /\ DOMAIN session = 1..n
    BY <1>1 DEF AgentsTyped
  <2>2. after = [i \in 1..n |-> after[i]]
    BY <1>5, <2>1 DEF Past
  <2>3. \A i \in 1..n : after[i] \in AgentSession
    BY <1>7, <2>1
  <2> QED BY <2>1, <2>2, <2>3
<1>9. AgentsTyped'
  BY <1>1, <1>2, <1>3, <1>4, <1>8 DEF AgentsTyped, AgentAdapter, CostFiles
<1>10. AdaptersConfigured'
  <2>1. ASSUME NEW q \in Process, NEW a, a = adapter'[q] PROVE Configured(a)'
    <3>1. Configured(NoAdapter)
      BY NoAdapterIs DEF Configured
    <3> QED BY <1>1, <1>2, <1>3, <2>1, <3>1 DEF AdaptersConfigured
  <2>2. \A q \in Process : \A a : a = adapter'[q] => Configured(a)'
    BY <2>1
  <2> QED BY <1>1, <1>2, <2>2 DEF AdaptersConfigured, KnownVersion
<1>11. SessionsSound'
  <2>1. ASSUME NEW n \in DOMAIN after, NEW r, r = after[n], NEW a, a = adapter'[r.by] PROVE SessionSound(r, a)'
    <3>1. PICK s : s = session[n] /\ s.by \in Process
      BY <1>1, <1>6, <2>1, SessionIs
    <3>2. CASE s.by # p
      <4>1. r = s /\ a = adapter[s.by]
        BY <1>3, <1>6, <1>7, <2>1, <3>1, <3>2
      <4> QED BY <1>1, <1>2, <1>6, <2>1, <3>1, <4>1 DEF SessionsSound
    <3>3. CASE s.by = p
      <4>1. SessionSound(s, adapter[p])
        BY <1>1, <1>6, <2>1, <3>1, <3>3 DEF SessionsSound
      <4>2. PICK x : x = adapter[p]
        OBVIOUS
      <4>3. CalledOnce(s) /\ (env.events \cap {"late", "edit"} = {} /\ s.charged >= 0 => s.charged = s.cost)
        BY <4>1 DEF SessionSound
      <4>4. /\ r.at \in {"past", "lost"} /\ r.tried = s.tried /\ r.failures = s.failures /\ r.hash = s.hash
            /\ r.cost = s.cost /\ r.charged = s.charged
        BY <1>6, <1>7, <2>1, <3>1, <3>3
      <4>5. CalledOnce(r)
        BY <4>3, <4>4, SameCalls
      <4>6. SessionSound(r, a)
        BY <4>3, <4>4, <4>5 DEF SessionSound
      <4> QED BY <1>2, <4>6
    <3> QED BY <3>2, <3>3
  <2>2. \A n \in DOMAIN session' : \A s, a : s = session'[n] /\ a = adapter'[s.by] => SessionSound(s, a)'
    BY <1>4, <2>1
  <2> QED BY <2>2 DEF SessionsSound
<1>12. \A n \in DOMAIN session : /\ after[n].by = session[n].by /\ after[n].began = session[n].began
                                 /\ session[n].by # p => after[n] = session[n]
                                 /\ session[n].by = p => after[n].at \in {"past", "lost"}
                                 /\ after[n].at \in {"done", "past"} <=> session[n].at \in {"done", "past"}
                                 /\ after[n].charged = session[n].charged
                                 /\ after[n].at = session[n].at \/ after[n].at \in {"past", "lost"}
  BY <1>7
<1>13. SessionsAccepted'
  <2>1. \A n \in DOMAIN session' : session'[n].began <= ticks'
    BY <1>1, <1>4, <1>6, <1>12 DEF SessionsAccepted
  <2>2. ASSUME NEW q \in Process PROVE adapter'[q].accepted \subseteq DOMAIN session'
    <3>1. adapter'[q].accepted = {} \/ adapter'[q].accepted = adapter[q].accepted
      BY <1>3, NoAdapterIs
    <3> QED BY <1>1, <1>4, <1>6, <3>1 DEF SessionsAccepted
  <2>3. ASSUME NEW q \in Process, NEW n \in DOMAIN session',
               session'[n].by = q /\ session'[n].at \notin {"past", "lost"} /\ session'[n].began >= ticks' - 1
        PROVE  n \in adapter'[q].accepted
    <3>1. q # p /\ session'[n] = session[n]
      BY <1>4, <1>6, <1>12, <2>3
    <3> QED BY <1>1, <1>3, <1>4, <1>6, <2>3, <3>1 DEF SessionsAccepted
  <2>4. ASSUME NEW q \in Process, NEW t \in Nat PROVE Cardinality(Started(q, t))' <= env.limit
    <3>1. CASE q = p
      <4>1. PICK S : S = Started(q, t)'
        OBVIOUS
      <4>2. S = {}
        BY <1>4, <1>6, <1>12, <3>1, <4>1 DEF Started
      <4>3. Cardinality(S) = 0
        BY <4>2, FS_EmptySet
      <4>4. 0 <= env.limit
        BY <1>1, AgentsAssumption DEF AgentsTyped
      <4> QED BY <4>1, <4>3, <4>4
    <3>2. CASE q # p
      <4>1. Started(q, t)' = Started(q, t)
        BY <1>4, <1>6, <1>12, <3>2 DEF Started
      <4> QED BY <1>1, <4>1 DEF SessionsAccepted
    <3> QED BY <3>1, <3>2
  <2> QED BY <2>1, <2>2, <2>3, <2>4 DEF SessionsAccepted
<1>14. SessionsRecorded'
  BY <1>1, <1>4, <1>6, <1>12 DEF SessionsRecorded, Once
<1>15. \A list : Tally(list) => Tally(list)'
  BY <1>4, <1>6, <1>12 DEF Tally, Once
<1>16. CostsCounted'
  <2>1. ASSUME NEW q \in Process, NEW list, list = adapter'[q].counted PROVE Tally(list)'
    <3>1. CASE q = p
      <4>1. Tally(<<>>)
        BY DEF Tally, Once
      <4> QED BY <1>3, <1>15, <2>1, <3>1, <4>1, NoAdapterIs
    <3>2. CASE q # p
      BY <1>1, <1>3, <1>15, <2>1, <3>2 DEF CostsCounted
    <3> QED BY <3>1, <3>2
  <2>2. \A q \in Process : \A list : list = adapter'[q].counted => Tally(list)'
    BY <2>1
  <2>3. Tally(files.file)' /\ Tally(files.log)'
    BY <1>1, <1>15 DEF CostsCounted
  <2>4. \A k \in DOMAIN files.log : session'[files.log[k]].at # "answered"
    BY <1>1, <1>4, <1>12 DEF CostsCounted, Tally
  <2> QED BY <2>2, <2>3, <2>4 DEF CostsCounted
<1>17. ASSUME NEW q \in Process, q # p PROVE AnsweredBy(q)' = AnsweredBy(q)
  BY <1>4, <1>6, <1>12, <1>17 DEF AnsweredBy
<1> QED BY <1>3, <1>9, <1>10, <1>11, <1>13, <1>14, <1>16, <1>17

LEMMA AdapterEnds ==
    ASSUME AgentsInv, env' = env, NEW p \in Process, EndAdapter(p)
    PROVE  AgentsInv'
<1>1. AgentsTyped /\ AdaptersConfigured /\ CostsCounted /\ OneAfterTheOther
  BY DEF AgentsInv
<1>2. PICK a \in AgentAdapter : a = adapter[p]
  BY <1>1 DEF AgentsTyped
<1>3. /\ a # NoAdapter /\ OpenSessions(p) = {} /\ (a.tracking => costs.ok /\ costs.file = a.counted)
      /\ adapter' = [adapter EXCEPT ![p] = NoAdapter] /\ session' = Past(p) /\ UNCHANGED <<manifestFile, costs, sessionLog, ticks>>
  BY <1>2 DEF EndAdapter, Unused
<1>4. /\ AgentsTyped' /\ AdaptersConfigured' /\ SessionsSound' /\ SessionsAccepted' /\ SessionsRecorded' /\ CostsCounted'
      /\ adapter'[p] = NoAdapter /\ (\A q \in Process : q # p => adapter'[q] = adapter[q])
  <2>1. costs \in CostFiles /\ Tally(costs.file) /\ costs' = costs
    BY <1>1, <1>3 DEF AgentsTyped, CostsCounted
  <2> QED BY <1>3, <2>1, ProcessEnds
<1>5. AtWork(a)
  BY <1>1, <1>2, <1>3 DEF AdaptersConfigured, Configured
<1>6. OneAfterTheOther'
  <2> SUFFICES ASSUME env.events \cap {"overlap", "crash", "failure"} = {}
               PROVE  /\ costs.ok
                      /\ \A q, r \in Process : AtWork(adapter'[q]) /\ AtWork(adapter'[r]) => q = r
                      /\ \A q \in Process : ~adapter'[q].tracking
                      /\ Elements(costs.file) = Elements(costs.log)
    BY <1>3 DEF OneAfterTheOther, AtWork
  <2>1. /\ costs.ok
        /\ \A q, r \in Process : AtWork(adapter[q]) /\ AtWork(adapter[r]) => q = r
        /\ a.tracking => Elements(a.counted) = Elements(costs.log) \cup AnsweredBy(p)
        /\ (\A q \in Process : ~adapter[q].tracking) => Elements(costs.file) = Elements(costs.log)
    BY <1>1, <1>2 DEF OneAfterTheOther
  <2>2. \A q \in Process : q # p => ~AtWork(adapter[q]) /\ ~adapter[q].tracking
    BY <1>2, <1>5, <2>1 DEF AtWork
  <2>3. \A q \in Process : ~AtWork(adapter'[q]) /\ ~adapter'[q].tracking
    BY <1>4, <2>2, NoAdapterIs
  <2>4. AnsweredBy(p) = {}
    BY <1>3 DEF AnsweredBy, OpenSessions
  <2>5. Elements(costs.file) = Elements(costs.log)
    BY <1>2, <1>3, <2>1, <2>2, <2>4
  <2> QED BY <2>1, <2>3, <2>5
<1> QED BY <1>4, <1>6 DEF AgentsInv

LEMMA AdapterCrashes ==
    ASSUME AgentsInv, env' = env, NEW p \in Process, CrashAdapter(p)
    PROVE  AgentsInv'
<1>1. AgentsTyped /\ CostsCounted
  BY DEF AgentsInv
<1>2. PICK torn : torn = [costs EXCEPT !.ok = FALSE, !.file = <<>>]
  OBVIOUS
<1>3. PICK files : files = costs' /\ (files = costs \/ files = torn)
  BY <1>2 DEF CrashAdapter
<1>4. /\ "crash" \in env.events /\ adapter' = [adapter EXCEPT ![p] = NoAdapter] /\ session' = Past(p)
      /\ UNCHANGED <<manifestFile, sessionLog, ticks>>
  BY DEF CrashAdapter
<1>5. files \in CostFiles /\ files.log = costs.log /\ Tally(files.file)
  <2>1. <<>> \in Seq(Nat) /\ Tally(<<>>)
    BY DEF Tally, Once
  <2>2. torn \in CostFiles /\ torn.log = costs.log /\ torn.file = <<>>
    BY <1>1, <1>2, <2>1 DEF AgentsTyped, CostFiles
  <2> QED BY <1>1, <1>3, <2>1, <2>2 DEF AgentsTyped, CostsCounted
<1>6. AgentsTyped' /\ AdaptersConfigured' /\ SessionsSound' /\ SessionsAccepted' /\ SessionsRecorded' /\ CostsCounted'
  BY <1>3, <1>4, <1>5, ProcessEnds
<1>7. OneAfterTheOther'
  BY <1>4 DEF OneAfterTheOther
<1> QED BY <1>6, <1>7 DEF AgentsInv

\* A process that begins one more session.
LEMMA OneMoreSession ==
    ASSUME AgentsInv, env' = env, NEW p \in Process, NEW a \in AgentAdapter, a = adapter[p], AtWork(a), NEW s \in AgentSession,
           s.by = p, session' = Append(session, s), SessionSound(s, a), s.at \in {"chosen", "closing"}, NEW n, n = Len(session) + 1,
           NEW accepted,
           (accepted = Recent(p) /\ s.began = -2) \/ (accepted = Recent(p) \cup {n} /\ s.began = ticks /\ ~OverBudget(p)),
           adapter' = [adapter EXCEPT ![p].accepted = accepted], UNCHANGED <<manifestFile, costs, sessionLog, ticks>>
    PROVE  AgentsInv'
<1>1. /\ AgentsTyped /\ AdaptersConfigured /\ SessionsSound /\ SessionsAccepted /\ SessionsRecorded /\ CostsCounted
      /\ OneAfterTheOther
  BY DEF AgentsInv
<1>2. PICK after : after = session'
  OBVIOUS
<1>3. /\ after \in Seq(AgentSession) /\ Len(after) = n /\ DOMAIN after = DOMAIN session \cup {n} /\ after[n] = s
      /\ n \in Nat /\ n \notin DOMAIN session /\ \A k \in DOMAIN session : after[k] = session[k]
  BY <1>1, <1>2, ItemAdded DEF AgentsTyped
<1>4. ticks \in Nat /\ s.began \in {-2, ticks} /\ DOMAIN session \subseteq Nat
  BY <1>1 DEF AgentsTyped
<1>5. accepted \subseteq DOMAIN session \cup {n} /\ accepted \subseteq Nat
  <2>1. Recent(p) \subseteq DOMAIN session
    BY <1>1 DEF SessionsAccepted, Recent
  <2> QED BY <1>3, <1>4, <2>1
<1>6. PICK b : b = [a EXCEPT !.accepted = accepted]
  OBVIOUS
<1>7. /\ b \in AgentAdapter /\ b.accepted = accepted /\ b.registry = a.registry /\ b.prices = a.prices /\ b.tracking = a.tracking
      /\ b.counted = a.counted
  BY <1>5, <1>6 DEF AgentAdapter
<1>8. /\ adapter' \in [Process -> AgentAdapter] /\ adapter'[p] = b /\ \A q \in Process : q # p => adapter'[q] = adapter[q]
  <2>1. adapter' = [adapter EXCEPT ![p] = b]
    BY <1>1, <1>6 DEF AgentsTyped
  <2> QED BY <1>1, <1>7, <2>1 DEF AgentsTyped
<1>9. /\ AgentSession' = AgentSession
      /\ \A i, v : KnownVersion(i, v)' <=> KnownVersion(i, v)
      /\ \A x : Configured(x)' <=> Configured(x)
      /\ \A t, x : SessionSound(t, x)' <=> SessionSound(t, x)
  BY SettingsStay
<1>10. AgentsTyped'
  BY <1>1, <1>2, <1>3, <1>8, <1>9 DEF AgentsTyped, AgentAdapter, CostFiles
<1>11. AdaptersConfigured'
  <2>1. Configured(a)
    BY <1>1 DEF AdaptersConfigured
  <2>2. Configured(b)
    <3>1. AtWork(b)
      BY <1>7, SameSettings
    <3> QED BY <1>7, <2>1, <3>1 DEF Configured
  <2>3. ASSUME NEW q \in Process, NEW x, x = adapter'[q] PROVE Configured(x)'
    <3>1. CASE q = p
      BY <1>8, <1>9, <2>2, <2>3, <3>1
    <3>2. CASE q # p
      BY <1>1, <1>8, <1>9, <2>3, <3>2 DEF AdaptersConfigured
    <3> QED BY <3>1, <3>2
  <2>4. \A q \in Process : \A x : x = adapter'[q] => Configured(x)'
    BY <2>3
  <2> QED BY <1>1, <1>9, <2>4 DEF AdaptersConfigured, KnownVersion
<1>12. SessionsSound'
  <2>1. ASSUME NEW m \in DOMAIN after, NEW t, t = after[m], NEW x, x = adapter'[t.by] PROVE SessionSound(t, x)'
    <3>1. CASE m = n
      <4>1. t = s /\ x = b
        BY <1>3, <1>8, <2>1, <3>1
      <4>2. SessionSound(s, b)
        BY <1>7, SameSettings
      <4> QED BY <1>9, <4>1, <4>2
    <3>2. CASE m # n
      <4>1. m \in DOMAIN session /\ t = session[m]
        BY <1>3, <2>1, <3>2
      <4>2. t.by \in Process
        BY <1>1, <4>1, SessionIs
      <4>3. PICK y : y = adapter[t.by]
        OBVIOUS
      <4>4. SessionSound(t, y)
        BY <1>1, <4>1, <4>3 DEF SessionsSound
      <4>5. x.registry = y.registry /\ x.tracking = y.tracking
        BY <1>7, <1>8, <2>1, <4>2, <4>3
      <4>6. SessionSound(t, x)
        BY <4>4, <4>5, SameSettings
      <4> QED BY <1>9, <4>6
    <3> QED BY <3>1, <3>2
  <2>2. \A m \in DOMAIN session' : \A t, x : t = session'[m] /\ x = adapter'[t.by] => SessionSound(t, x)'
    BY <1>2, <2>1
  <2> QED BY <2>2 DEF SessionsSound
<1>13. \A m \in DOMAIN after : m = n \/ (m \in DOMAIN session /\ after[m] = session[m])
  BY <1>3
<1>14. SessionsAccepted'
  <2>1. \A m \in DOMAIN after : after[m].began <= ticks
    BY <1>1, <1>3, <1>4, <1>13 DEF SessionsAccepted
  <2>2. ASSUME NEW q \in Process PROVE adapter'[q].accepted \subseteq DOMAIN after
    <3>1. CASE q = p
      BY <1>3, <1>5, <1>7, <1>8, <3>1
    <3>2. CASE q # p
      BY <1>1, <1>3, <1>8, <3>2 DEF SessionsAccepted
    <3> QED BY <3>1, <3>2
  <2>3. ASSUME NEW q \in Process, NEW m \in DOMAIN after,
               after[m].by = q /\ after[m].at \notin {"past", "lost"} /\ after[m].began >= ticks - 1
        PROVE  m \in adapter'[q].accepted
    <3>1. CASE m = n
      <4>1. q = p /\ s.began >= ticks - 1
        BY <1>3, <2>3, <3>1
      <4>2. s.began # -2
        BY <1>4, <4>1
      <4> QED BY <1>7, <1>8, <3>1, <4>1, <4>2
    <3>2. CASE m # n
      <4>1. m \in DOMAIN session /\ after[m] = session[m]
        BY <1>13, <3>2
      <4>2. m \in adapter[q].accepted
        BY <1>1, <2>3, <4>1 DEF SessionsAccepted
      <4>3. CASE q = p
        <5>1. m \in Recent(p)
          BY <2>3, <4>1, <4>2, <4>3 DEF Recent
        <5> QED BY <1>7, <1>8, <4>3, <5>1
      <4>4. CASE q # p
        BY <1>8, <4>2, <4>4
      <4> QED BY <4>3, <4>4
    <3> QED BY <3>1, <3>2
  <2>4. ASSUME NEW q \in Process, NEW t \in Nat PROVE Cardinality(Started(q, t))' <= env.limit
    <3>1. PICK S, T : S = Started(q, t) /\ T = Started(q, t)'
      OBVIOUS
    <3>2. IsFiniteSet(S) /\ Cardinality(S) \in Nat /\ Cardinality(S) <= env.limit
      BY <1>1, <3>1, StartedIs DEF SessionsAccepted
    <3>3. CASE q = p /\ s.began \in {t - 1, t}
      <4>1. T = S \cup {n} /\ n \notin S
        BY <1>2, <1>3, <3>1, <3>3 DEF Started
      <4>2. s.began = ticks /\ ~OverBudget(p)
        <5>1. s.began # -2
          BY <3>3
        <5> QED BY <5>1
      <4>3. S \subseteq Recent(p)
        <5>1. ASSUME NEW m \in S PROVE m \in Recent(p)
          <6>1. m \in DOMAIN session /\ session[m].by = p /\ session[m].at \notin {"past", "lost"} /\ session[m].began \in {t - 1, t}
            BY <3>1, <3>3, <5>1 DEF Started
          <6>2. session[m].began >= ticks - 1
            BY <1>4, <3>3, <4>2, <6>1
          <6>3. m \in adapter[p].accepted
            BY <1>1, <6>1, <6>2 DEF SessionsAccepted
          <6> QED BY <6>2, <6>3 DEF Recent
        <5> QED BY <5>1
      <4>4. IsFiniteSet(Recent(p))
        <5>1. Recent(p) \subseteq 1..Len(session) /\ Len(session) \in Nat
          BY <1>1 DEF Recent, SessionsAccepted, AgentsTyped
        <5> QED BY <5>1, FS_Interval, FS_Subset
      <4>5. PICK few, recent \in Nat : few = Cardinality(S) /\ recent = Cardinality(Recent(p))
        BY <3>2, <4>4, FS_CardinalityType
      <4>6. few <= recent
        BY <4>3, <4>4, <4>5, FS_Subset
      <4>7. PICK limit \in Nat : limit = env.limit
        BY <1>1, AgentsAssumption DEF AgentsTyped
      <4>8. recent < limit
        BY <4>2, <4>5, <4>7 DEF OverBudget
      <4>9. Cardinality(T) = few + 1
        BY <3>2, <4>1, <4>5, FS_AddElement
      <4>10. Cardinality(T) <= limit
        BY <4>6, <4>8, <4>9
      <4> QED BY <3>1, <4>7, <4>10
    <3>4. CASE ~(q = p /\ s.began \in {t - 1, t})
      <4>1. T = S
        BY <1>2, <1>3, <3>1, <3>4 DEF Started
      <4> QED BY <3>1, <3>2, <4>1
    <3> QED BY <3>3, <3>4
  <2> QED BY <1>2, <2>1, <2>2, <2>3, <2>4 DEF SessionsAccepted
<1>15. SessionsRecorded'
  BY <1>1, <1>2, <1>3, <1>13 DEF SessionsRecorded, Once
<1>16. \A list : Tally(list) => Tally(list)'
  BY <1>2, <1>3 DEF Tally, Once
<1>17. CostsCounted'
  <2>1. ASSUME NEW q \in Process, NEW list, list = adapter'[q].counted PROVE Tally(list)'
    <3>1. list = adapter[q].counted
      BY <1>7, <1>8, <2>1
    <3> QED BY <1>1, <1>16, <3>1 DEF CostsCounted
  <2>2. \A q \in Process : \A list : list = adapter'[q].counted => Tally(list)'
    BY <2>1
  <2>3. Tally(costs.file)' /\ Tally(costs.log)'
    BY <1>1, <1>16 DEF CostsCounted
  <2>4. \A k \in DOMAIN costs.log : session'[costs.log[k]].at # "answered"
    BY <1>1, <1>2, <1>3 DEF CostsCounted, Tally
  <2> QED BY <2>2, <2>3, <2>4 DEF CostsCounted
<1>18. OneAfterTheOther'
  <2>1. \A q \in Process : AnsweredBy(q)' = AnsweredBy(q)
    BY <1>2, <1>3 DEF AnsweredBy
  <2>2. \A q \in Process : /\ adapter'[q].tracking = adapter[q].tracking /\ adapter'[q].counted = adapter[q].counted
                           /\ adapter'[q].registry = adapter[q].registry
    BY <1>7, <1>8
  <2>3. \A q \in Process : AtWork(adapter'[q]) <=> AtWork(adapter[q])
    BY <2>2 DEF AtWork
  <2> SUFFICES ASSUME env.events \cap {"overlap", "crash", "failure"} = {}
               PROVE  /\ costs.ok
                      /\ \A q, r \in Process : AtWork(adapter'[q]) /\ AtWork(adapter'[r]) => q = r
                      /\ \A q \in Process : adapter'[q].tracking =>
                            /\ Elements(adapter'[q].counted) = Elements(costs.log) \cup AnsweredBy(q)
                            /\ Len(costs.file) <= Len(adapter'[q].counted)
                            /\ \A k \in DOMAIN costs.file : costs.file[k] = adapter'[q].counted[k]
                      /\ (\A q \in Process : ~adapter'[q].tracking) => Elements(costs.file) = Elements(costs.log)
    BY <2>1 DEF OneAfterTheOther, AtWork
  <2> QED BY <1>1, <2>2, <2>3 DEF OneAfterTheOther
<1> QED BY <1>10, <1>11, <1>12, <1>14, <1>15, <1>17, <1>18 DEF AgentsInv

LEMMA SessionBegun ==
    ASSUME AgentsInv, env' = env, env.part = "agents", NEW p \in Process, BeginSession(p)
    PROVE  AgentsInv'
<1>1. AgentsTyped /\ AdaptersConfigured
  BY DEF AgentsInv
<1>2. PICK a \in AgentAdapter : a = adapter[p]
  BY <1>1 DEF AgentsTyped
<1>3. PICK new : new = [NoSession EXCEPT !.by = p]
  OBVIOUS
<1>4. /\ new \in AgentSession /\ new.by = p /\ new.at = "closing" /\ new.began = -2 /\ new.tried = <<>> /\ new.failures = <<>>
      /\ new.next = NoNext /\ new.hash = 0 /\ new.cost = 0 /\ new.charged = -1
  <2>1. <<>> \in Seq(CalledManifest) /\ <<>> \in Seq(env.answers \cup {"transient", "permanent"})
    OBVIOUS
  <2>2. NoNext \in NextManifest
    BY DEF NoNext, NextManifest
  <2>3. new = [by |-> p, at |-> "closing", began |-> -2, tried |-> <<>>, failures |-> <<>>, next |-> NoNext, hash |-> 0, cost |-> 0,
               charged |-> -1]
    BY <1>3 DEF NoSession
  <2> QED BY <2>1, <2>2, <2>3 DEF AgentSession
<1>5. /\ ticks \in Nat /\ env.fallbacks \in Nat
  BY <1>1, AgentsAssumption DEF AgentsTyped
<1>6. Configured(a) /\ AtWork(a)
  <2>1. Configured(a) /\ a # NoAdapter
    BY <1>1, <1>2 DEF AdaptersConfigured, BeginSession, Unused
  <2> QED BY <2>1 DEF Configured
<1>7. PICK n : n = Len(session) + 1
  OBVIOUS
<1>8. UNCHANGED <<manifestFile, costs, sessionLog, ticks>>
  BY DEF BeginSession
<1>9. ASSUME NEW s \in AgentSession, s.by = p, s.at = "closing", s.tried = <<>>, s.failures \in {<<"transient">>, <<"permanent">>},
             s.hash = 0, s.charged = -1
      PROVE  SessionSound(s, a)
  <2>1. Len(s.tried) = 0 /\ DOMAIN s.tried = {} /\ DOMAIN s.failures = {1}
    BY <1>9
  <2>2. CalledOnce(s)
    BY <1>5, <1>9, <2>1 DEF CalledOnce
  <2> QED BY <1>6, <1>9, <2>2 DEF SessionSound
<1>10. <<"transient">> \in Seq(env.answers \cup {"transient", "permanent"}) /\ <<"permanent">> \in Seq(env.answers \cup {"transient", "permanent"})
  OBVIOUS
<1>11. CASE OverBudget(p)
  <2>1. PICK s : s = [new EXCEPT !.failures = <<"transient">>]
    OBVIOUS
  <2>2. /\ s \in AgentSession /\ s.by = p /\ s.at = "closing" /\ s.began = -2 /\ s.tried = <<>> /\ s.failures = <<"transient">>
        /\ s.hash = 0 /\ s.charged = -1
    BY <1>4, <1>10, <2>1 DEF AgentSession
  <2>3. session' = Append(session, s) /\ adapter' = [adapter EXCEPT ![p].accepted = Recent(p)]
    BY <1>3, <1>11, <2>1 DEF BeginSession
  <2>4. SessionSound(s, a)
    BY <1>9, <2>2
  <2>5. PICK accepted : accepted = Recent(p)
    OBVIOUS
  <2>6. adapter' = [adapter EXCEPT ![p].accepted = accepted]
    BY <2>3, <2>5
  <2>7. /\ (accepted = Recent(p) /\ s.began = -2) \/ (accepted = Recent(p) \cup {n} /\ s.began = ticks /\ ~OverBudget(p))
        /\ s.at \in {"chosen", "closing"} /\ session' = Append(session, s)
    BY <2>2, <2>3, <2>5
  <2> QED BY <1>2, <1>6, <1>7, <1>8, <2>2, <2>4, <2>6, <2>7, OneMoreSession
<1>12. CASE ~OverBudget(p)
  <2>1. PICK accepted : accepted = Recent(p) \cup {n}
    OBVIOUS
  <2>2. /\ adapter' = [adapter EXCEPT ![p].accepted = accepted]
        /\ \/ session' = Append(session, [new EXCEPT !.began = ticks, !.failures = <<"permanent">>])
           \/ \E i \in Selected(a.registry) :
                session' = Append(session, [new EXCEPT !.at = "chosen", !.began = ticks,
                                            !.next = [id |-> i, version |-> a.registry[i]]])
    BY <1>2, <1>3, <1>7, <1>12, <2>1 DEF BeginSession
  <2>3. CASE session' = Append(session, [new EXCEPT !.began = ticks, !.failures = <<"permanent">>])
    <3>1. PICK r : r = [new EXCEPT !.began = ticks]
      OBVIOUS
    <3>2. PICK s : s = [r EXCEPT !.failures = <<"permanent">>]
      OBVIOUS
    <3>3. /\ r \in AgentSession /\ r.by = p /\ r.at = "closing" /\ r.began = ticks /\ r.tried = <<>> /\ r.hash = 0 /\ r.charged = -1
      BY <1>4, <1>5, <3>1 DEF AgentSession
    <3>4. /\ s \in AgentSession /\ s.by = p /\ s.at = "closing" /\ s.began = ticks /\ s.tried = <<>> /\ s.failures = <<"permanent">>
          /\ s.hash = 0 /\ s.charged = -1
      BY <1>10, <3>2, <3>3 DEF AgentSession
    <3>5. session' = Append(session, s)
      <4>1. s = [new EXCEPT !.began = ticks, !.failures = <<"permanent">>]
        BY <1>4, <3>1, <3>2 DEF AgentSession
      <4> QED BY <2>3, <4>1
    <3>6. SessionSound(s, a)
      BY <1>9, <3>4
    <3> QED BY <1>2, <1>6, <1>7, <1>8, <1>12, <2>1, <2>2, <3>4, <3>5, <3>6, OneMoreSession
  <2>4. CASE \E i \in Selected(a.registry) :
                session' = Append(session, [new EXCEPT !.at = "chosen", !.began = ticks,
                                            !.next = [id |-> i, version |-> a.registry[i]]])
    <3>1. PICK i \in Selected(a.registry) :
                session' = Append(session, [new EXCEPT !.at = "chosen", !.began = ticks,
                                            !.next = [id |-> i, version |-> a.registry[i]]])
      BY <2>4
    <3>2. i \in Provider /\ a.registry[i] # 0 /\ Matches(Manifest(i, a.registry[i]))
      BY <3>1 DEF Selected
    <3>3. PICK v \in Nat : v = a.registry[i] /\ KnownVersion(i, v)
      BY <1>6, <3>2 DEF Configured, AgentAdapter
    <3>4. PICK x : x = [id |-> i, version |-> v]
      OBVIOUS
    <3>5. x \in NextManifest /\ x.id = i /\ x.version = v
      BY <3>2, <3>4 DEF NextManifest
    <3>6. PICK r1 : r1 = [new EXCEPT !.began = ticks]
      OBVIOUS
    <3>7. PICK r2 : r2 = [r1 EXCEPT !.at = "chosen"]
      OBVIOUS
    <3>8. PICK s : s = [r2 EXCEPT !.next = x]
      OBVIOUS
    <3>9. /\ r1 \in AgentSession /\ r1.by = p /\ r1.began = ticks /\ r1.tried = <<>> /\ r1.failures = <<>> /\ r1.hash = 0
          /\ r1.charged = -1
      BY <1>4, <1>5, <3>6 DEF AgentSession
    <3>10. /\ r2 \in AgentSession /\ r2.by = p /\ r2.began = ticks /\ r2.tried = <<>> /\ r2.failures = <<>> /\ r2.hash = 0
           /\ r2.charged = -1 /\ r2.at = "chosen"
      BY <3>7, <3>9 DEF AgentSession
    <3>11. /\ s \in AgentSession /\ s.by = p /\ s.began = ticks /\ s.tried = <<>> /\ s.failures = <<>> /\ s.hash = 0
           /\ s.charged = -1 /\ s.at = "chosen" /\ s.next = x
      BY <3>5, <3>8, <3>10 DEF AgentSession
    <3>12. session' = Append(session, s)
      <4>1. s = [new EXCEPT !.at = "chosen", !.began = ticks, !.next = [id |-> i, version |-> a.registry[i]]]
        BY <1>4, <3>3, <3>4, <3>6, <3>7, <3>8 DEF AgentSession
      <4> QED BY <3>1, <4>1
    <3>13. SessionSound(s, a)
      <4>1. Len(s.tried) = 0 /\ DOMAIN s.tried = {} /\ Len(s.failures) = 0 /\ DOMAIN s.failures = {}
        BY <3>11
      <4>2. CalledOnce(s)
        BY <1>5, <3>11, <4>1 DEF CalledOnce
      <4>3. ToCall(s, a)
        BY <3>2, <3>3, <3>5, <3>11 DEF ToCall
      <4> QED BY <1>6, <3>11, <4>1, <4>2, <4>3 DEF SessionSound
    <3> QED BY <1>2, <1>6, <1>7, <1>8, <1>12, <2>1, <2>2, <3>11, <3>12, <3>13, OneMoreSession
  <2> QED BY <2>2, <2>3, <2>4
<1> QED BY <1>11, <1>12

LEMMA AgentsStep == AgentsInv /\ [Next]_vars => AgentsInv'
<1> SUFFICES ASSUME AgentsInv, [Next]_vars PROVE AgentsInv'
  OBVIOUS
<1>1. CASE env' = env /\ UNCHANGED agentVars
  <2>1. /\ AgentsTyped /\ AdaptersConfigured /\ SessionsSound /\ SessionsAccepted /\ SessionsRecorded /\ CostsCounted
        /\ OneAfterTheOther
    BY DEF AgentsInv
  <2>2. UNCHANGED <<manifestFile, adapter, session, costs, sessionLog, ticks>>
    BY <1>1 DEF agentVars
  <2>3. AgentsTyped' /\ AdaptersConfigured' /\ SessionsSound' /\ SessionsAccepted' /\ SessionsRecorded' /\ CostsCounted'
    <3>1. /\ costs \in CostFiles /\ Tally(costs.file) /\ Tally(costs.log) /\ manifestFile \in [Provider -> Nat]
          /\ ticks \in Nat /\ ticks >= ticks /\ \A k \in DOMAIN costs.log : session[costs.log[k]].at # "answered"
          /\ env.part = "agents" => \A i \in Provider : KnownVersion(i, manifestFile[i])
      BY <2>1 DEF AgentsTyped, CostsCounted, AdaptersConfigured
    <3> QED BY <1>1, <2>2, <3>1, FilesMove
  <2>4. OneAfterTheOther'
    <3>1. \A q \in Process : AnsweredBy(q)' = AnsweredBy(q)
      BY <2>2 DEF AnsweredBy
    <3> QED BY <1>1, <2>1, <2>2, <3>1 DEF OneAfterTheOther, AtWork
  <2> QED BY <2>3, <2>4 DEF AgentsInv
<1>2. CASE env' = env /\ env.part = "agents" /\ AgentsNext
  <2>1. CASE \E p \in Process : \/ StartAdapter(p) \/ BeginSession(p) \/ TrackCosts(p) \/ FlushCosts(p) \/ EndAdapter(p)
                                \/ CrashAdapter(p) \/ \E i \in Provider : LoadManifest(p, i)
    BY <1>2, <2>1, AdapterStarted, SessionBegun, CostsTracked, CostsFlushed, AdapterEnds, AdapterCrashes, ManifestLoaded
  <2>2. CASE \E n \in DOMAIN session : Invoke(n) \/ TryNext(n) \/ AppendCostLog(n) \/ CloseSession(n)
    BY <1>2, <2>2, ProviderInvoked, NextTried, CostLogAppended, SessionClosed
  <2>3. CASE \E i \in Provider : EditManifest(i)
    BY <1>2, <2>3, ManifestEdited
  <2>4. CASE HourPasses
    BY <1>2, <2>4, TimePasses
  <2> QED BY <1>2, <2>1, <2>2, <2>3, <2>4 DEF AgentsNext
<1> QED BY <1>1, <1>2 DEF Next, vars

\* What the invariant says of the sessions and of the costs.
LEMMA SessionsFollow == AgentsInv => SessionsTrue
<1> SUFFICES ASSUME AgentsInv PROVE SessionsTrue
  OBVIOUS
<1>1. AgentsTyped /\ SessionsSound /\ SessionsAccepted /\ SessionsRecorded
  BY DEF AgentsInv
<1>2. ASSUME NEW n \in DOMAIN session, session[n].at \in {"done", "past"}
      PROVE  Cardinality({k \in DOMAIN sessionLog : sessionLog[k] = n}) \in
                {1} \cup (IF "failure" \in env.events THEN {0} ELSE {})
  <2>1. PICK S : S = {k \in DOMAIN sessionLog : sessionLog[k] = n}
    OBVIOUS
  <2>2. CASE S = {}
    <3>1. "failure" \in env.events
      BY <1>1, <1>2, <2>1, <2>2 DEF SessionsRecorded
    <3>2. Cardinality(S) = 0
      BY <2>2, FS_EmptySet
    <3> QED BY <2>1, <3>1, <3>2
  <2>3. CASE S # {}
    <3>1. PICK k : k \in S
      BY <2>3
    <3>2. S = {k}
      BY <1>1, <2>1, <3>1 DEF SessionsRecorded, Once
    <3>3. Cardinality(S) = 1
      BY <3>2, FS_Singleton
    <3> QED BY <2>1, <3>3
  <2> QED BY <2>2, <2>3
<1>3. ASSUME NEW n \in DOMAIN session
      PROVE  LET s == session[n]
             IN  /\ \A j, k \in DOMAIN s.tried : j # k => s.tried[j].id # s.tried[k].id
                 /\ Len(s.tried) <= env.fallbacks + 1
                 /\ \A k \in DOMAIN s.failures : k < Len(s.tried) => s.failures[k] = "transient"
                 /\ s.tried # <<>> => Matches(Manifest(s.tried[1].id, s.tried[1].version))
                 /\ s.hash # 0 /\ s.hash # Seqs!Last(s.tried).version => "edit" \in env.events /\ Len(s.tried) > 1
  <2>1. PICK s, a : s = session[n] /\ a = adapter[s.by]
    OBVIOUS
  <2>2. CalledOnce(s)
    BY <1>1, <2>1 DEF SessionsSound, SessionSound
  <2> QED BY <2>1, <2>2 DEF CalledOnce
<1>4. ASSUME NEW p \in Process, NEW t \in 0..MaxTicks
      PROVE  LET live == {n \in DOMAIN session : session[n].by = p /\ session[n].at \notin {"past", "lost"}}
             IN  Cardinality({n \in live : session[n].began \in {t - 1, t}}) <= env.limit
  <2> DEFINE live == {n \in DOMAIN session : session[n].by = p /\ session[n].at \notin {"past", "lost"}}
  <2>1. {n \in live : session[n].began \in {t - 1, t}} = Started(p, t)
    BY DEF Started
  <2>2. t \in Nat
    BY AgentsAssumption
  <2>3. Cardinality(Started(p, t)) <= env.limit
    BY <1>1, <2>2 DEF SessionsAccepted
  <2> QED BY <2>1, <2>3
<1> QED BY <1>2, <1>3, <1>4 DEF SessionsTrue

LEMMA CostsFollow == AgentsInv => CostsTrue
<1> SUFFICES ASSUME AgentsInv PROVE CostsTrue
  OBVIOUS
<1>1. AgentsTyped /\ SessionsSound /\ CostsCounted /\ OneAfterTheOther
  BY DEF AgentsInv
<1>2. ASSUME NEW counted \in {adapter[p].counted : p \in Process} \cup {costs.file, costs.log}
      PROVE  /\ \A j, k \in DOMAIN counted : j # k => counted[j] # counted[k]
             /\ \A n \in Elements(counted) : session[n].charged >= 0
  <2>1. Tally(counted)
    BY <1>1, <1>2 DEF CostsCounted
  <2> QED BY <2>1 DEF Tally, Once, Elements
<1>3. ASSUME env.events \cap {"overlap", "crash", "failure"} = {}, NEW p \in Process, adapter[p].tracking
      PROVE  /\ Elements(adapter[p].counted) = Elements(costs.log) \cup {n \in OpenSessions(p) : session[n].at = "answered"}
             /\ Len(costs.file) <= Len(adapter[p].counted)
             /\ \A k \in DOMAIN costs.file : costs.file[k] = adapter[p].counted[k]
  <2>1. {n \in OpenSessions(p) : session[n].at = "answered"} = AnsweredBy(p)
    BY DEF OpenSessions, AnsweredBy
  <2> QED BY <1>1, <1>3, <2>1 DEF OneAfterTheOther
<1>4. ASSUME env.events \cap {"late", "edit"} = {}, NEW n \in DOMAIN session, session[n].charged >= 0
      PROVE  session[n].charged = session[n].cost
  <2>1. PICK s, a : s = session[n] /\ a = adapter[s.by]
    OBVIOUS
  <2>2. SessionSound(s, a)
    BY <1>1, <2>1 DEF SessionsSound
  <2> QED BY <1>4, <2>1, <2>2 DEF SessionSound
<1> QED BY <1>2, <1>3, <1>4 DEF CostsTrue

(***************************************************************************)
(* Sessions call each provider once and are recorded once, no process      *)
(* starts more of them in an hour than its budget, and what they cost is   *)
(* counted once, in memory, in the file and in the log: AgentsAgree holds. *)
(***************************************************************************)
THEOREM AgentsTrue == Spec => []AgentsAgree
<1>1. AgentsInv => AgentsAgree
  BY SessionsFollow, CostsFollow DEF AgentsAgree
<1>2. Spec => []AgentsInv
  BY AgentsStart, AgentsStep, PTL DEF Spec
<1> QED BY <1>1, <1>2, PTL
=============================================================================
