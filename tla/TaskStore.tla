----------------------------- MODULE TaskStore -----------------------------
(***************************************************************************)
(* What the queue of a run promises its callers (src/workflows/queue):     *)
(* creating a batch of tasks and updating a task are atomic and durable.   *)
(* A call takes effect at one moment between its start and its answer; it  *)
(* answers "ok" only if it took effect and "failed" only if it did not; a  *)
(* process that dies in the middle leaves its call done or not done, and   *)
(* nothing else ever changes the tasks -- in particular compaction and     *)
(* recovery do not.  QueueWal.tla is shown to implement this module.       *)
(***************************************************************************)
EXTENDS Sequences, Functions

CONSTANTS
    Process,    \* the processes that use the queue
    Task,       \* task identifiers
    Status,     \* task statuses
    Absent,     \* no such task
    Operation   \* records of kind ("create" or "update"), tasks (a sequence), status

VARIABLES
    store,      \* the status of every task
    phase,      \* where the call of each process is
    call        \* what it asks for

TypeOK ==
    /\ store \in [Task -> Status \cup {Absent}]
    /\ phase \in [Process -> {"rest", "asked", "done", "ok", "failed"}]
    /\ \A p \in Process : phase[p] \in {"asked", "done"} => call[p] \in Operation

Init ==
    /\ store = [t \in Task |-> Absent]
    /\ phase = [p \in Process |-> "rest"]
    /\ call \in [Process -> Operation]

Goto(p, label) == phase' = [phase EXCEPT ![p] = label]

Ask(p) ==
    /\ phase[p] \in {"rest", "ok", "failed"}
    /\ \E op \in Operation : call' = [call EXCEPT ![p] = op]
    /\ Goto(p, "asked")
    /\ UNCHANGED store

Perform(p) ==
    /\ phase[p] = "asked"
    /\ call[p].kind = "update" => \A t \in Range(call[p].tasks) : store[t] # Absent
    /\ store' = [t \in Task |->
                    IF t \in Range(call[p].tasks) THEN call[p].status ELSE store[t]]
    /\ Goto(p, "done")
    /\ UNCHANGED call

Answer(p) ==
    /\ phase[p] \in {"asked", "done"}
    /\ Goto(p, IF phase[p] = "done" THEN "ok" ELSE "failed")
    /\ UNCHANGED <<store, call>>

\* The process died, or went on to something that does not touch the tasks.
Forget(p) ==
    /\ Goto(p, "rest")
    /\ \E op \in Operation : call' = [call EXCEPT ![p] = op]
    /\ UNCHANGED store

Next == \E p \in Process : Ask(p) \/ Perform(p) \/ Answer(p) \/ Forget(p)

Spec == Init /\ [][Next]_<<store, phase, call>>
=============================================================================
