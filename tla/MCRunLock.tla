----------------------------- MODULE MCRunLock -----------------------------
(***************************************************************************)
(* Small instances of RunLock for TLC: two calls of one process and one of *)
(* another.                                                                *)
(***************************************************************************)
EXTENDS RunLock, TLC

CONSTANTS p1, p2, c1, c2, c3

MCProcOf == c1 :> p1 @@ c2 :> p1 @@ c3 :> p2

Of(faults, procs) == [faults |-> faults, procs |-> procs]

(***************************************************************************)
(* Two processes whose calls may time out; two processes that may die; one *)
(* process alone, whose callbacks may be overlong and whose writes fail.   *)
(***************************************************************************)
Sound == {Of({"timeout"}, {p1, p2}), Of({"crash"}, {p1, p2}), Of({"age", "disk"}, {p1})}

\* Reads of run.lock fall between its creation and its first byte.
Peeking == {Of({"peek"}, {p1, p2})}

\* One process, no disturbance but timeouts.
Impatient == {Of({"timeout"}, {p1})}
=============================================================================
