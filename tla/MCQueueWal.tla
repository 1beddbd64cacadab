----------------------------- MODULE MCQueueWal -----------------------------
(* Small instances of QueueWal for TLC. *)
EXTENDS QueueWal, TLC

CONSTANTS p1, p2, t1, t2

\* A threshold that is never reached.
Never == 9

Of(events, procs, maxUpdates, maxSeq) ==
    [events |-> events, procs |-> procs, maxUpdates |-> maxUpdates, maxSeq |-> maxSeq]

(***************************************************************************)
(* One process that crashes and compacts; one that never crashes; one that *)
(* queues its plan again; two that crash; two that write snapshots but     *)
(* never reach the threshold; two that load the queue while it is written. *)
(***************************************************************************)
Sound ==
    {Of({"crash", "snapshot"}, {p1}, 2, 4),
     Of({"snapshot"}, {p1}, 3, 4),
     Of({"rerun", "snapshot"}, {p1}, Never, 3),
     Of({"crash"}, {p1, p2}, Never, 2),
     Of({"snapshot"}, {p1, p2}, Never, 3),
     Of({"reader"}, {p1, p2}, Never, 3)}

\* A process dies between the append of an operation and the write of the counter.
CounterWindow == {Of({"crash", "window"}, {p1}, Never, 4)}

\* Two processes, each with its own index, reach the threshold.
TwoCompactors == {Of({}, {p1, p2}, 3, 4)}

Batches == {<<t1>>, <<t2>>, <<t1, t2>>}
=============================================================================
