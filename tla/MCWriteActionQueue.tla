------------------------ MODULE MCWriteActionQueue ------------------------
(* Small instances of WriteActionQueue for TLC. *)
EXTENDS WriteActionQueue

CONSTANTS p1, p2

\* The third action repeats the first.
Keys == <<"a", "b", "a">>

Of(events, procs, limit, maxRetries) ==
    [events |-> events, procs |-> procs, limit |-> limit, maxRetries |-> maxRetries]

(***************************************************************************)
(* Undisturbed; with crashes, with and without half-written files; two     *)
(* processes that drain, enqueue and clear; two that die; a manifest that  *)
(* cannot be written and answers that are lost.                            *)
(***************************************************************************)
Sound ==
    {Of({"clear"}, {p1}, 2, 2),
     Of({"crash", "clear"}, {p1}, 2, 1),
     Of({"crash", "torn"}, {p1}, 1, 0),
     Of({"clear"}, {p1, p2}, 2, 0),
     Of({}, {p1, p2}, 1, 1),
     Of({"fault", "lost"}, {p1}, 2, 1)}

\* One process that dies and is started again.
Restarts == {Of({"crash"}, {p1}, 2, 0)}
===========================================================================
