------------------------------- MODULE Mutex -------------------------------
(***************************************************************************)
(* What the run lock promises its callers (lockManager.ts, acquireLock:    *)
(* "Acquire an exclusive lock on a run directory"): the calls of withLock  *)
(* whose callback is running are at most one, and a callback starts only   *)
(* when no other one runs.  RunLock.tla is shown to implement this module  *)
(* under the environments it names.                                        *)
(***************************************************************************)
CONSTANT Caller         \* the calls of withLock

VARIABLE inside         \* the calls whose callback is running

TypeOK == inside \subseteq Caller

Init == inside = {}

Acquire(c) == inside = {} /\ inside' = {c}

\* The callback has settled, or its process died while it ran.
Release(c) == c \in inside /\ inside' = inside \ {c}

Next == \E c \in Caller : Acquire(c) \/ Release(c)

Spec == Init /\ [][Next]_inside
=============================================================================
