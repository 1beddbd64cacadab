------------------------------ MODULE Patching ------------------------------
(***************************************************************************)
(* patchManager and branchManager on the one working tree of a repository: *)
(* patches are checked, applied and recorded; branches are created,        *)
(* committed to and pushed.  A patch is checked before the run lock is     *)
(* taken and applied under it; git runs in the tree whoever holds the      *)
(* lock.  Git (external) is its branches, each the set of the patches      *)
(* committed to it, and the edits of the working tree.                     *)
(* env.patches maps each patch to [allowed, conflicts]: whether all its    *)
(* files are, and the patches it does not apply together with.             *)
(***************************************************************************)
EXTENDS RunDirectory

VARIABLES
    repo,           \* [branch, tips, edits, staged]: the working tree and the branches
    origin,         \* the branches pushed
    snapshots,      \* the rollback snapshots, oldest first: [patch, tip, clean]
    patchRun,       \* what the manifest and the summaries say of patches
    branchFile,     \* artifacts/branch_metadata.json
    worker,         \* what each process is doing
    steps           \* the number of operations started

patchVars == <<repo, origin, snapshots, patchRun, branchFile, worker, steps>>

Patch == DOMAIN env.patches
NotThere == {"not there"}

Branch == {"main", "feature/a", "feature/main"}

ASSUME PatchAssumption ==
    \A e \in Environment : e.branch \in Branch /\ NotThere \cap DOMAIN e.patches = {}

\* isProtectedBranch: the default branch, the usual names, and names that end with one.
Protected(b) == b \in {"main", "feature/main"}

BranchFile(b, tip, pushed) == [branch |-> b, tip |-> tip, pushed |-> pushed]
NoBranchFile == BranchFile("none", NotThere, FALSE)
TornBranchFile == BranchFile("torn", NotThere, FALSE)

Rested == [at |-> "idle", patch |-> "none", branch |-> "none", base |-> NotThere, result |-> "none"]

PatchingInit ==
    /\ repo = [branch |-> env.branch, tips |-> [b \in Branch |-> IF b \in {"main", env.branch} THEN {} ELSE NotThere],
               edits |-> {}, staged |-> FALSE]
    /\ origin = [b \in Branch |-> NotThere]
    /\ snapshots = <<>>
    /\ patchRun = [paused |-> FALSE, last |-> "none", recorded |-> {}, summaries |-> {}]
    /\ branchFile = NoBranchFile
    /\ worker = [p \in Process |-> Rested]
    /\ steps = 0

Do(p, w) == worker' = [worker EXCEPT ![p] = w]
At(p, at) == Do(p, [worker[p] EXCEPT !.at = at])

Begins(p, w) ==
    /\ worker[p].at = "idle"
    /\ "overlap" \in env.events \/ \A q \in Process : worker[q].at = "idle"
    /\ steps < env.steps
    /\ steps' = steps + 1
    /\ Do(p, w)
    /\ UNCHANGED <<repo, origin, snapshots, patchRun, branchFile, lock>>

Elsewhere == <<origin, branchFile, steps>>

CurrentTip == repo.tips[repo.branch]
Applies(patch) == patch \notin CurrentTip \cup repo.edits /\ env.patches[patch].conflicts \cap repo.edits = {}
-----------------------------------------------------------------------------
\* applyPatch; validateFileConstraints refuses for good.
BeginPatch(p, patch) ==
    Begins(p, [Rested EXCEPT !.at = IF env.patches[patch].allowed THEN "clean" ELSE "failed", !.patch = patch, !.result = "blocked"])

\* Mutant: the tree may have changes.
CheckNothing(p) ==
    /\ worker[p].at = "clean"
    /\ At(p, "check")
    /\ UNCHANGED <<repo, snapshots, patchRun, lock, Elsewhere>>

\* validatePatchDryRun: isWorkingTreeClean, then git apply --check; both outside the lock.
CheckClean(p) ==
    /\ worker[p].at = "clean"
    /\ At(p, IF repo.edits = {} THEN "check" ELSE "pause")
    /\ UNCHANGED <<repo, snapshots, patchRun, lock, Elsewhere>>

CheckApplies(p) ==
    /\ worker[p].at = "check"
    /\ At(p, IF Applies(worker[p].patch) THEN "snapshot" ELSE "pause")
    /\ UNCHANGED <<repo, snapshots, patchRun, lock, Elsewhere>>

\* createRollbackSnapshot, under the lock from here on; a failure is not recoverable.
TakeSnapshot(p) ==
    /\ worker[p].at = "snapshot"
    /\ Acquire(p)
    /\ snapshots' = Append(snapshots, [patch |-> worker[p].patch, tip |-> CurrentTip, clean |-> repo.edits = {}])
    /\ At(p, "apply")
    /\ UNCHANGED <<repo, patchRun, Elsewhere>>

\* git apply is all or nothing; a failure of what follows is as recoverable as one of its own.
ApplyPatch(p) ==
    /\ worker[p].at = "apply"
    /\ IF Applies(worker[p].patch)
       THEN repo' = [repo EXCEPT !.edits = @ \cup {worker[p].patch}] /\ At(p, "summary")
       ELSE At(p, "release") /\ UNCHANGED repo
    /\ UNCHANGED <<snapshots, patchRun, lock, Elsewhere>>

\* generateDiffSummary
WriteSummary(p) ==
    /\ worker[p].at = "summary"
    /\ \/ patchRun' = [patchRun EXCEPT !.summaries = @ \cup {worker[p].patch}] /\ At(p, "manifest")
       \/ "failure" \in env.events /\ At(p, "release") /\ UNCHANGED patchRun
    /\ UNCHANGED <<repo, snapshots, lock, Elsewhere>>

\* updateManifest under the lock held, and success.
RecordPatch(p) ==
    /\ worker[p].at = "manifest"
    /\ \/ /\ Release(p)
          /\ patchRun' = [patchRun EXCEPT !.recorded = @ \cup {worker[p].patch}, !.last = worker[p].patch]
          /\ Do(p, [worker[p] EXCEPT !.at = "applied", !.result = "applied"])
       \/ "failure" \in env.events /\ At(p, "release") /\ UNCHANGED <<patchRun, lock>>
    /\ UNCHANGED <<repo, snapshots, Elsewhere>>

ReleaseFailed(p) ==
    /\ worker[p].at = "release"
    /\ Release(p)
    /\ At(p, "pause")
    /\ UNCHANGED <<repo, snapshots, patchRun, Elsewhere>>

\* applyPatchWithStateManagement after a recoverable failure.
PauseRun(p) ==
    /\ worker[p].at = "pause"
    /\ Free
    /\ patchRun' = [patchRun EXCEPT !.paused = TRUE]
    /\ Do(p, [worker[p] EXCEPT !.at = "failed", !.result = "paused"])
    /\ UNCHANGED <<repo, snapshots, Elsewhere>>

Leave(p) ==
    /\ worker[p].at \in {"applied", "failed"}
    /\ Do(p, Rested)
    /\ UNCHANGED <<repo, snapshots, patchRun, lock, Elsewhere>>
-----------------------------------------------------------------------------
Tree == <<snapshots, patchRun, steps>>

\* createBranch: the name is free.
BeginBranch(p, b) ==
    repo.tips[b] = NotThere /\ Begins(p, [Rested EXCEPT !.at = "base", !.branch = b])

\* git checkout of the base branch, if it is not the current one; edits come along or stop it.
CheckoutBase(p) ==
    /\ worker[p].at = "base"
    /\ \/ repo' = [repo EXCEPT !.branch = "main"] /\ Do(p, [worker[p] EXCEPT !.at = "branch", !.base = repo.tips["main"]])
       \/ repo.branch # "main" /\ repo.edits # {} /\ At(p, "failed") /\ UNCHANGED repo
    /\ UNCHANGED <<origin, branchFile, lock, Tree>>

\* git checkout -b fails if somebody was faster.
NewBranch(p) ==
    /\ worker[p].at = "branch"
    /\ IF repo.tips[worker[p].branch] # NotThere THEN At(p, "failed") /\ UNCHANGED repo
       ELSE /\ repo' = [repo EXCEPT !.tips[worker[p].branch] = CurrentTip, !.branch = worker[p].branch]
            /\ At(p, "save")
    /\ UNCHANGED <<origin, branchFile, lock, Tree>>

\* saveBranchMetadata; the push is optional.
SaveBranch(p) ==
    /\ worker[p].at = "save"
    /\ Free
    /\ branchFile' = BranchFile(worker[p].branch, worker[p].base, FALSE)
    /\ \E at \in {"push", "applied"} : At(p, at)
    /\ UNCHANGED <<repo, origin, Tree>>

BeginPush(p, b) == Begins(p, [Rested EXCEPT !.at = "push", !.branch = b])

\* pushBranch; what origin has must not be lost.
PushBranch(p) ==
    LET b == worker[p].branch
    IN  /\ worker[p].at = "push"
        /\ IF Protected(b) \/ repo.tips[b] = NotThere THEN At(p, "failed") /\ UNCHANGED origin
           ELSE origin' = [origin EXCEPT ![b] = repo.tips[b]] /\ At(p, "pushed")
        /\ UNCHANGED <<repo, branchFile, lock, Tree>>

\* createSafeCommit: the branch is looked at, then git commits what is staged on the branch there is.
BeginCommit(p) == Begins(p, [Rested EXCEPT !.at = IF Protected(repo.branch) THEN "failed" ELSE "commit", !.branch = repo.branch])

Commit(p) ==
    /\ worker[p].at = "commit"
    /\ IF ~repo.staged THEN At(p, "failed") /\ UNCHANGED repo
       ELSE /\ repo' = [repo EXCEPT !.tips[repo.branch] = @ \cup repo.edits, !.edits = {}, !.staged = FALSE]
            /\ At(p, "committed")
    /\ UNCHANGED <<origin, branchFile, lock, Tree>>

\* updateBranchMetadata: merged into what is there, written in place; the file may name another branch.
UpdateBranch(p) ==
    LET old == IF branchFile \in {NoBranchFile, TornBranchFile} THEN BranchFile(repo.branch, NotThere, FALSE) ELSE branchFile
    IN  /\ worker[p].at \in {"pushed", "committed"}
        /\ Free
        /\ \/ branchFile' = IF worker[p].at = "pushed" THEN [old EXCEPT !.pushed = TRUE] ELSE [old EXCEPT !.tip = CurrentTip]
           \/ "failure" \in env.events /\ UNCHANGED branchFile
        /\ At(p, "applied")
        /\ UNCHANGED <<repo, origin, Tree>>

\* Whoever resolves a failure stages the edits; nothing in the code does.
Stage ==
    /\ repo.edits # {} /\ ~repo.staged
    /\ repo' = [repo EXCEPT !.staged = TRUE]
    /\ UNCHANGED <<origin, branchFile, worker, lock, Tree>>

CrashPatching(p) ==
    /\ "crash" \in env.events
    /\ worker[p].at # "idle"
    /\ Abandon(p)
    /\ Do(p, Rested)
    /\ branchFile' \in {branchFile} \cup {f \in {TornBranchFile} : worker[p].at \in {"save", "pushed", "committed"} /\ MayWrite(p)}
    /\ UNCHANGED <<repo, origin, Tree>>

PatchingNext ==
    \/ Stage
    \/ \E p \in Process :
        \/ \E patch \in Patch : BeginPatch(p, patch)
        \/ CheckClean(p) \/ CheckApplies(p) \/ TakeSnapshot(p) \/ ApplyPatch(p) \/ WriteSummary(p) \/ RecordPatch(p)
        \/ ReleaseFailed(p) \/ PauseRun(p) \/ Leave(p)
        \/ \E b \in Branch : BeginBranch(p, b) \/ BeginPush(p, b)
        \/ CheckoutBase(p) \/ NewBranch(p) \/ SaveBranch(p) \/ PushBranch(p)
        \/ BeginCommit(p) \/ Commit(p) \/ UpdateBranch(p) \/ CrashPatching(p)
-----------------------------------------------------------------------------
(***************************************************************************)
(* The manifest records only patches that were applied and summarised, and *)
(* no patch with a file that is not allowed ever is.  While operations     *)
(* follow one another the tree holds one patch at most, whatever failed or *)
(* died, and the latest snapshot is of that patch and of a clean tree.     *)
(* (validatePatchDryRun, createRollbackSnapshot, applyPatch)               *)
(***************************************************************************)
PatchesAgree ==
    /\ patchRun.recorded \subseteq patchRun.summaries
    /\ patchRun.summaries \subseteq repo.edits \cup UNION {repo.tips[b] : b \in Branch}
    /\ \A patch \in repo.edits \cup patchRun.recorded : env.patches[patch].allowed
    /\ "overlap" \notin env.events /\ repo.edits # {} =>
            LET s == snapshots[Len(snapshots)]
            IN  repo.edits = {s.patch} /\ s.clean

(***************************************************************************)
(* A protected branch is never pushed, and never committed to while        *)
(* operations follow one another; what origin has of a branch is also in   *)
(* the repository.  (isProtectedBranch, createSafeCommit, pushBranch)      *)
(***************************************************************************)
BranchesAgree ==
    /\ \A b \in Branch : origin[b] # NotThere => ~Protected(b) /\ origin[b] \subseteq repo.tips[b]
    /\ "overlap" \notin env.events => repo.tips["main"] = {}

TreeAgrees == PatchesAgree /\ BranchesAgree
=============================================================================
