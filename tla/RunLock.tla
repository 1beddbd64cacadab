------------------------------ MODULE RunLock ------------------------------
(***************************************************************************)
(* The lock of a run directory (src/persistence/lockManager.ts).           *)
(*                                                                         *)
(* Every change of a run's files goes through withLock: a call first waits *)
(* for the previous call of its own process (a chain of promises kept in   *)
(* inProcessQueue), then competes with other processes for the file        *)
(* run.lock, which is created with the exclusive flag "wx", carries the    *)
(* pid and the time of its creation, and is unlinked on release.  A file   *)
(* that is unreadable, older than five minutes or of a dead pid is removed *)
(* by whoever meets it.                                                    *)
(*                                                                         *)
(* One caller is one call site of withLock that may call again and again.  *)
(* Time is not counted: a timeout and the ageing of the file are events    *)
(* that the environment allows or not.  The environment is chosen at the   *)
(* start and stays.                                                        *)
(***************************************************************************)
EXTENDS Naturals, FiniteSets

CONSTANTS
    Process,    \* the processes working on the run directory; a dead pid never returns
    Caller,     \* the calls of withLock
    ProcOf,     \* the process of each call
    NoCaller,   \* nobody
    MaxDepth,   \* bound on the nesting of withLock inside one callback
    Environment \* the environments considered: what may go wrong, and who runs

(***************************************************************************)
(* "crash"    a process dies at any step                                   *)
(* "age"      a callback runs for more than STALE_LOCK_THRESHOLD_MS        *)
(* "timeout"  a call gives up waiting                                      *)
(* "peek"     another process reads run.lock between the open and the      *)
(*            write of the writeFile that creates it                       *)
(* "disk"     that write fails (a full disk), the file already created     *)
(***************************************************************************)
FaultKind == {"crash", "age", "timeout", "peek", "disk"}

ASSUME CallerAssumption ==
    /\ NoCaller \notin Caller
    /\ ProcOf \in [Caller -> Process]
    /\ MaxDepth \in Nat \ {0}
    /\ Environment \subseteq [faults : SUBSET FaultKind, procs : SUBSET Process]

VARIABLES
    lockFile,   \* run.lock: its contents, the call that created it, whether it is over age
    pc,         \* where each call is
    prev,       \* the call whose promise a call waits for (the "prev" of withLock)
    tail,       \* inProcessQueue: the last call of each process
    depth,      \* lockContextStorage: nesting depth of a call that holds the lock
    alive,      \* the processes that run
    env         \* the environment of this behaviour

vars == <<lockFile, pc, prev, tail, depth, alive, env>>

NoFile == [st |-> "missing", by |-> NoCaller, aged |-> FALSE]
FreshFile(c) == [st |-> "empty", by |-> c, aged |-> FALSE]

\* Past its turn in its own process, and not yet out of withLock.
Contending == {"create", "write", "check", "unlink", "held", "releasing"}
Calling == Contending \cup {"turn"}

TypeOK ==
    /\ lockFile \in [st : {"missing", "empty", "valid"}, by : Caller \cup {NoCaller},
                     aged : BOOLEAN]
    /\ pc \in [Caller -> Calling \cup {"idle", "dead"}]
    /\ prev \in [Caller -> Caller \cup {NoCaller}]
    /\ tail \in [Process -> Caller \cup {NoCaller}]
    /\ depth \in [Caller -> 0..MaxDepth]
    /\ alive \subseteq Process
    /\ env \in Environment

Init ==
    /\ env \in Environment
    /\ lockFile = NoFile
    /\ pc = [c \in Caller |-> "idle"]
    /\ prev = [c \in Caller |-> NoCaller]
    /\ tail = [p \in Process |-> NoCaller]
    /\ depth = [c \in Caller |-> 0]
    /\ alive = env.procs

Goto(c, label) == pc' = [pc EXCEPT ![c] = label]
-----------------------------------------------------------------------------
(***************************************************************************)
(* The chain of one process.                                               *)
(***************************************************************************)
\* Mutant: the call joins the chain without waiting for its predecessor.
EnterUnchained(c) ==
    /\ pc[c] = "idle"
    /\ ProcOf[c] \in alive
    /\ tail' = [tail EXCEPT ![ProcOf[c]] = c]
    /\ Goto(c, "turn")
    /\ UNCHANGED <<lockFile, prev, depth, alive, env>>

\* withLock outside any context: link this call behind the last one.
Enter(c) ==
    /\ pc[c] = "idle"
    /\ ProcOf[c] \in alive
    /\ prev' = [prev EXCEPT ![c] = tail[ProcOf[c]]]
    /\ tail' = [tail EXCEPT ![ProcOf[c]] = c]
    /\ Goto(c, "turn")
    /\ UNCHANGED <<lockFile, depth, alive, env>>

\* Mutant: a call returns without settling its promise.
LeaveUnresolved(c) ==
    /\ prev' = [prev EXCEPT ![c] = NoCaller]
    /\ tail' = [tail EXCEPT ![ProcOf[c]] = IF @ = c THEN NoCaller ELSE @]
    /\ Goto(c, "idle")

\* The finally of withLock: settle this call's promise, forget it if it is the last.
Leave(c) ==
    /\ prev' = [x \in Caller |-> IF x = c \/ prev[x] = c THEN NoCaller ELSE prev[x]]
    /\ tail' = [tail EXCEPT ![ProcOf[c]] = IF @ = c THEN NoCaller ELSE @]
    /\ Goto(c, "idle")

TakeTurn(c) ==
    /\ pc[c] = "turn"
    /\ prev[c] = NoCaller
    /\ Goto(c, "create")
    /\ UNCHANGED <<lockFile, prev, tail, depth, alive, env>>

\* waitForInProcessTurn rejects; the finally settles the promise all the same, so
\* the next call stops waiting although the call before this one may still run.
TurnTimeout(c) ==
    /\ "timeout" \in env.faults
    /\ pc[c] = "turn"
    /\ Leave(c)
    /\ UNCHANGED <<lockFile, depth, alive, env>>
-----------------------------------------------------------------------------
(***************************************************************************)
(* acquireLock.                                                            *)
(***************************************************************************)
\* Mutant: the exclusive flag is left out.
CreateLockOverwriting(c) ==
    /\ pc[c] = "create"
    /\ lockFile' = FreshFile(c)
    /\ Goto(c, "write")
    /\ UNCHANGED <<prev, tail, depth, alive, env>>

\* The open of writeFile(..., { flag: 'wx' }): the file exists, still empty.
CreateLock(c) ==
    /\ pc[c] = "create"
    /\ lockFile.st = "missing"
    /\ lockFile' = FreshFile(c)
    /\ Goto(c, "write")
    /\ UNCHANGED <<prev, tail, depth, alive, env>>

\* EEXIST
CreateConflict(c) ==
    /\ pc[c] = "create"
    /\ lockFile.st # "missing"
    /\ Goto(c, "check")
    /\ UNCHANGED <<lockFile, prev, tail, depth, alive, env>>

\* The write reaches the file this call opened, which may no longer be run.lock.
WriteMetadata(c) ==
    /\ pc[c] = "write"
    /\ lockFile' = IF lockFile.by = c THEN [lockFile EXCEPT !.st = "valid"] ELSE lockFile
    /\ depth' = [depth EXCEPT ![c] = 1]
    /\ Goto(c, "held")
    /\ UNCHANGED <<prev, tail, alive, env>>

\* Not EEXIST: acquireLock throws and leaves the empty file behind.
WriteFails(c) ==
    /\ "disk" \in env.faults
    /\ pc[c] = "write"
    /\ Leave(c)
    /\ UNCHANGED <<lockFile, depth, alive, env>>

\* Mutant: acquireLock inside the try whose finally releases.
LockTimeoutReleasing(c) ==
    /\ "timeout" \in env.faults
    /\ pc[c] = "create"
    /\ Goto(c, "releasing")
    /\ UNCHANGED <<lockFile, prev, tail, depth, alive, env>>

LockTimeout(c) ==
    /\ "timeout" \in env.faults
    /\ pc[c] = "create"
    /\ Leave(c)
    /\ UNCHANGED <<lockFile, depth, alive, env>>

\* An empty file is met only if its creator is stopped in the middle of writeFile.
Readable == lockFile.st = "empty" /\ pc[lockFile.by] = "write" => "peek" \in env.faults

\* Mutant: the owner's death is not looked for.
StaleByAge ==
    \/ lockFile.st = "empty"
    \/ lockFile.st = "valid" /\ lockFile.aged

Stale ==
    \/ lockFile.st = "empty"
    \/ lockFile.st = "valid" /\ (lockFile.aged \/ ProcOf[lockFile.by] \notin alive)

\* isLockStale; the poll interval before the next attempt is not counted.
InspectLock(c) ==
    /\ pc[c] = "check"
    /\ Readable
    /\ Goto(c, IF Stale THEN "unlink" ELSE "create")
    /\ UNCHANGED <<lockFile, prev, tail, depth, alive, env>>

\* removeStaleLock unlinks whatever run.lock is now.
RemoveStaleLock(c) ==
    /\ pc[c] = "unlink"
    /\ lockFile' = NoFile
    /\ Goto(c, "create")
    /\ UNCHANGED <<prev, tail, depth, alive, env>>
-----------------------------------------------------------------------------
(***************************************************************************)
(* The callback, nested calls, and the release.                            *)
(***************************************************************************)
Reenter(c) ==
    /\ pc[c] = "held"
    /\ depth[c] < MaxDepth
    /\ depth' = [depth EXCEPT ![c] = @ + 1]
    /\ UNCHANGED <<lockFile, pc, prev, tail, alive, env>>

\* Mutant: every return from withLock releases.
ExitNestedReleasing(c) ==
    /\ pc[c] = "held"
    /\ depth[c] > 1
    /\ depth' = [depth EXCEPT ![c] = @ - 1]
    /\ lockFile' = NoFile
    /\ UNCHANGED <<pc, prev, tail, alive, env>>

ExitNested(c) ==
    /\ pc[c] = "held"
    /\ depth[c] > 1
    /\ depth' = [depth EXCEPT ![c] = @ - 1]
    /\ UNCHANGED <<lockFile, pc, prev, tail, alive, env>>

CallbackDone(c) ==
    /\ pc[c] = "held"
    /\ depth[c] = 1
    /\ depth' = [depth EXCEPT ![c] = 0]
    /\ Goto(c, "releasing")
    /\ UNCHANGED <<lockFile, prev, tail, alive, env>>

\* releaseLock unlinks without looking whose file it is; ENOENT is ignored.
ReleaseLock(c) ==
    /\ pc[c] = "releasing"
    /\ lockFile' = NoFile
    /\ Leave(c)
    /\ UNCHANGED <<depth, alive, env>>
-----------------------------------------------------------------------------
(***************************************************************************)
(* The environment.                                                        *)
(***************************************************************************)
Crash(p) ==
    /\ "crash" \in env.faults
    /\ p \in alive
    /\ alive' = alive \ {p}
    /\ pc' = [c \in Caller |-> IF ProcOf[c] = p THEN "dead" ELSE pc[c]]
    /\ prev' = [c \in Caller |-> IF ProcOf[c] = p THEN NoCaller ELSE prev[c]]
    /\ tail' = [tail EXCEPT ![p] = NoCaller]
    /\ depth' = [c \in Caller |-> IF ProcOf[c] = p THEN 0 ELSE depth[c]]
    /\ UNCHANGED <<lockFile, env>>

AgeLock ==
    /\ "age" \in env.faults
    /\ lockFile.st = "valid"
    /\ ~lockFile.aged
    /\ lockFile' = [lockFile EXCEPT !.aged = TRUE]
    /\ UNCHANGED <<pc, prev, tail, depth, alive, env>>

\* What a call does by itself once begun: it never stops in the middle.
Step(c) ==
    \/ TakeTurn(c)
    \/ CreateLock(c)
    \/ CreateConflict(c)
    \/ WriteMetadata(c)
    \/ InspectLock(c)
    \/ RemoveStaleLock(c)
    \/ ExitNested(c)
    \/ CallbackDone(c)
    \/ ReleaseLock(c)

Next ==
    \/ \E c \in Caller :
        \/ Enter(c)
        \/ Step(c)
        \/ TurnTimeout(c)
        \/ LockTimeout(c)
        \/ WriteFails(c)
        \/ Reenter(c)
    \/ \E p \in Process : Crash(p)
    \/ AgeLock

Spec == Init /\ [][Next]_vars

(***************************************************************************)
(* The event loop runs every ready continuation, the poll loop of          *)
(* acquireLock never stops by itself, and callbacks are assumed to settle: *)
(* weak fairness of every call.                                            *)
(***************************************************************************)
FairSpec == Spec /\ \A c \in Caller : WF_vars(Step(c))
-----------------------------------------------------------------------------
(***************************************************************************)
(* Properties.                                                             *)
(***************************************************************************)
Inside == {c \in Caller : pc[c] = "held"}

(***************************************************************************)
(* The callbacks of two calls of withLock never run at the same time       *)
(* (acquireLock: "Acquire an exclusive lock on a run directory").          *)
(***************************************************************************)
MutualExclusion == \A c, d \in Inside : c = d

(***************************************************************************)
(* While a callback runs, run.lock is the file its own call created: the   *)
(* unlinks of stale-lock recovery, of nested calls and of calls that gave  *)
(* up never took it away.                                                  *)
(***************************************************************************)
HolderOwnsFile == \A c \in Inside : lockFile.st = "valid" /\ lockFile.by = c

(***************************************************************************)
(* The unconditional unlink of releaseLock never removes a file that       *)
(* another call created.                                                   *)
(***************************************************************************)
ReleasesOwnFile ==
    [][\A c \in Caller : ReleaseLock(c) => lockFile.by \in {c, NoCaller}]_vars

(***************************************************************************)
(* inProcessQueue: "This map ensures callers targeting the same runDir     *)
(* execute sequentially within a single process" -- of the calls of one    *)
(* process, at most one is past its turn.                                  *)
(***************************************************************************)
SequentialInProcess ==
    \A c, d \in Caller :
        ProcOf[c] = ProcOf[d] /\ pc[c] \in Contending /\ pc[d] \in Contending => c = d

(***************************************************************************)
(* As long as nobody gives up waiting the chain keeps that promise.        *)
(***************************************************************************)
SequentialUnlessTimeout == "timeout" \in env.faults \/ SequentialInProcess

(***************************************************************************)
(* No lost wakeup in the chain: whoever waits for a promise waits for one  *)
(* of a call of its own process that is still under way and will settle it.*)
(***************************************************************************)
WaitsForLiveCall ==
    \A c \in Caller :
        prev[c] # NoCaller =>
            /\ pc[c] = "turn"
            /\ pc[prev[c]] \in Calling
            /\ ProcOf[prev[c]] = ProcOf[c]

(***************************************************************************)
(* The lock is never orphaned: once calls have stopped giving up and       *)
(* failing, a waiting call is followed by some call getting in, whatever   *)
(* files dead processes, failed writes and overlong callbacks have left    *)
(* behind.  (Which call is not promised: polling is not fair.)             *)
(***************************************************************************)
GivesUp(c) == TurnTimeout(c) \/ LockTimeout(c) \/ WriteFails(c)
Waiting == {c \in Caller : pc[c] \in Calling \ {"held", "releasing"}}

SomeoneGetsIn ==
    <>[][\A c \in Caller : ~GivesUp(c)]_vars => (Waiting # {} ~> Inside # {} \/ Waiting = {})

(***************************************************************************)
(* Seen from its callers the run lock is a mutex (Mutex.tla).              *)
(***************************************************************************)
Abstract == INSTANCE Mutex WITH inside <- Inside
ImplementsMutex == Abstract!Spec
=============================================================================
