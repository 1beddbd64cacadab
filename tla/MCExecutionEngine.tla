------------------------ MODULE MCExecutionEngine ------------------------
(* Small instances of ExecutionEngine for TLC. *)
EXTENDS ExecutionEngine, TLC

CONSTANTS t1, t2, t3

MCPosition == t1 :> 1 @@ t2 :> 2 @@ t3 :> 3

Of(events, deps, maxRetries, parallel) ==
    [events |-> events, deps |-> deps, maxRetries |-> maxRetries, parallel |-> parallel,
     kind |-> [t \in Task |-> "plain"], dryRun |-> FALSE]

Alike(n) == [t \in Task |-> n]

\* t2 needs t1, t3 needs nothing.
Fork == [t \in Task |-> IF t = t2 THEN {t1} ELSE {}]
\* t3 needs both others.
Join == [t \in Task |-> IF t = t3 THEN {t1, t2} ELSE {}]
\* t1 and t2 need each other.
Cycle == [t \in Task |-> CASE t = t1 -> {t2} [] t = t2 -> {t1} [] OTHER -> {}]
Free == [t \in Task |-> {}]

(***************************************************************************)
(* No disturbance but stop(); restarts; a queue whose calls throw; a cycle *)
(* of dependencies; tasks without retries, identifier or strategy; a dry   *)
(* run; three places for three tasks.                                      *)
(***************************************************************************)
Environments ==
    {Of({"stop"}, Fork, Alike(2), 2),
     Of({"crash"}, Join, Alike(2), 2),
     Of({"update", "crash"}, Fork, Alike(1), 2),
     Of({"update"}, Fork, Alike(2), 2),
     Of({}, Cycle, Alike(1), 1),
     Of({}, Free, Alike(2), 3),
     [Of({"stop", "crash"}, Join, t1 :> 0 @@ t2 :> 2 @@ t3 :> 2, 2)
        EXCEPT !.kind = t1 :> "plain" @@ t2 :> "badId" @@ t3 :> "plain"],
     [Of({}, Fork, Alike(1), 2) EXCEPT !.kind[t1] = "noStrategy"],
     [Of({"crash"}, Fork, Alike(1), 2) EXCEPT !.dryRun = TRUE]}
=============================================================================
