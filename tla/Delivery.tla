------------------------------ MODULE Delivery ------------------------------
(***************************************************************************)
(* The components that bring the work of a run out: patches and branches   *)
(* (Patching.tla), pull request, branch protection and deployment          *)
(* (Deployment.tla over PullRequests.tla and GitHub.tla), the HTTP client  *)
(* (HttpClient.tla), and the agent sessions that do the work (Agents.tla). *)
(* They share the run directory and its lock and no file; an environment   *)
(* exercises one part.                                                     *)
(***************************************************************************)
EXTENDS HttpClient, Patching, Agents, Deployment

vars == <<deployVars, httpVars, patchVars, agentVars, env>>

Init ==
    /\ env \in Environment
    /\ lock = Nobody
    /\ PullRequestsInit /\ HttpInit /\ PatchingInit /\ AgentsInit

Next ==
    /\ \/ env.part = "pullRequest" /\ DeploymentNext /\ UNCHANGED <<httpVars, patchVars, agentVars>>
       \/ env.part = "http" /\ HttpNext /\ UNCHANGED <<deployVars, patchVars, agentVars>>
       \/ env.part = "patches" /\ PatchingNext /\ UNCHANGED <<prVars, httpVars, agentVars>>
       \/ env.part = "agents" /\ AgentsNext /\ UNCHANGED <<deployVars, httpVars, patchVars>>
    /\ UNCHANGED env

Spec == Init /\ [][Next]_vars
=============================================================================
