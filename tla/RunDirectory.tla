---------------------------- MODULE RunDirectory ----------------------------
(***************************************************************************)
(* What the components of a run have in common: the processes that work    *)
(* in its directory, the lock of RunLock.tla that they take in withLock,   *)
(* and the environment they run in.                                        *)
(*                                                                         *)
(* A section that writes one file under the lock is one step that waits    *)
(* for the lock to be free; a section that writes several holds the lock   *)
(* between its steps.  A process that dies leaves a lock that is judged    *)
(* stale; a file it was writing may be left torn.                          *)
(***************************************************************************)
EXTENDS Integers, Sequences, FiniteSets

Seqs == INSTANCE SequencesExt

CONSTANTS
    Process,        \* the processes that work in the directory
    Environment     \* the environments considered

VARIABLES
    lock,           \* the process between two writes of withLock
    env             \* the environment of this behaviour

Nobody == "nobody"

ASSUME DirectoryAssumption == Nobody \notin Process

Free == lock = Nobody /\ UNCHANGED lock
Acquire(p) == lock = Nobody /\ lock' = p
Release(p) == lock = p /\ lock' = Nobody

\* What a process may be writing when it dies: it holds the lock or could take it.
MayWrite(p) == lock \in {p, Nobody}

\* processExists, isLockStale: the lock of a dead process is taken over.
Abandon(p) == lock' = IF lock = p THEN Nobody ELSE lock
=============================================================================
