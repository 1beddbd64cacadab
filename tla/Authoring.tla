------------------------------ MODULE Authoring ------------------------------
(***************************************************************************)
(* The components that author a run and do its work: the issue it starts   *)
(* from (Linear.tla), the documents with plan and trace map (Documents.tla *)
(* over TaskGraph.tla), the research tasks (Research.tla), the context     *)
(* with its summaries (Context.tla), the child processes its tasks run in  *)
(* (Runner.tla), and the validation of what they did (Validation.tla).     *)
(* They share the run directory and its lock and no file; an environment   *)
(* exercises one part.  "planning" and "budget" exercise only the pure     *)
(* algorithms, on its inputs.                                              *)
(***************************************************************************)
EXTENDS Documents, Research, Context, Linear, Runner, Validation

vars == <<documentVars, researchVars, contextVars, linearVars, runnerVars, validationVars, lock, env>>

Init ==
    /\ env \in Environment
    /\ lock = Nobody
    /\ DocumentsInit /\ ResearchInit /\ ContextInit /\ LinearInit /\ RunnerInit /\ ValidationInit

Next ==
    /\ \/ env.part = "documents" /\ DocumentsNext
          /\ UNCHANGED <<researchVars, contextVars, linearVars, runnerVars, validationVars>>
       \/ env.part = "research" /\ ResearchNext
          /\ UNCHANGED <<documentVars, contextVars, linearVars, runnerVars, validationVars>>
       \/ env.part = "context" /\ ContextNext
          /\ UNCHANGED <<documentVars, researchVars, linearVars, runnerVars, validationVars>>
       \/ env.part = "linear" /\ LinearNext
          /\ UNCHANGED <<documentVars, researchVars, contextVars, runnerVars, validationVars, lock>>
       \/ env.part = "tasks" /\ RunnerNext
          /\ UNCHANGED <<documentVars, researchVars, contextVars, linearVars, validationVars, lock>>
       \/ env.part = "validation" /\ ValidationNext
          /\ UNCHANGED <<documentVars, researchVars, contextVars, linearVars, runnerVars>>
    /\ UNCHANGED env

Spec == Init /\ [][Next]_vars
=============================================================================
