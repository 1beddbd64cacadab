--------------------------- MODULE MCRunControl ---------------------------
(* Small instances of RunControl for TLC. *)
EXTENDS RunControl

CONSTANTS i1, i2, i3

MCListed == <<i1, i2, i3>>
Alone == <<i1>>

Of(command, events) ==
    [command |-> command, approval |-> TRUE, execute |-> TRUE, failFast |-> FALSE, planned |-> TRUE,
     rounds |-> 1, maxIssues |-> 3, events |-> events, blocks |-> {},
     priority |-> [r \in Run |-> 0], skip |-> {}]

\* Every graph over the issues, with some priorities.
Graphs ==
    {[Of("preview", {}) EXCEPT !.blocks = b, !.priority = p] :
        b \in SUBSET (Run \X Run),
        p \in {[r \in Run |-> IF r \in high THEN 3 ELSE 1] : high \in {{}, {i3}, {i2, i3}}}}

(***************************************************************************)
(* start: undisturbed, with every kind of decision; without approval; with *)
(* processes that die; with --force beside the pipeline and edits.         *)
(***************************************************************************)
Starts ==
    {Of("start", {}), Of("start", {"deny", "skipHash", "request"}), Of("start", {"damaged"}),
     Of("start", {"crash", "request"}), Of("start", {"crash", "error", "force"}),
     Of("start", {"overlap", "edit", "deny"}),
     [Of("start", {"error", "crash"}) EXCEPT !.approval = FALSE],
     [Of("start", {"request"}) EXCEPT !.approval = FALSE, !.execute = FALSE]}

\* cycle: i2 blocks i1, and i3 is done; once with a failing issue, once run again.
Cycles ==
    {[Of("cycle", {}) EXCEPT !.blocks = {<<i2, i1>>}, !.skip = {i3}],
     [Of("cycle", {"error"}) EXCEPT !.blocks = {<<i2, i1>>}, !.approval = FALSE, !.failFast = TRUE],
     [Of("cycle", {"crash", "deny"}) EXCEPT !.skip = {i2, i3}, !.rounds = 2],
     [Of("cycle", {"error"}) EXCEPT !.skip = {i3}, !.maxIssues = 2, !.planned = FALSE]}

Sound == Graphs \cup Starts \cup Cycles
Disturbed == {Of("start", {"crash"})}
===========================================================================
