----------------------------- MODULE MCDelivery -----------------------------
(***************************************************************************)
(* Two processes and one reviewer; the environments are grouped by part.   *)
(***************************************************************************)
EXTENDS Delivery, TLC

CONSTANTS p1, p2, u, pa, pb, pc

MCProcess == {p1, p2}
MCReviewer == {u}
MCProvider == {"x", "y"}
Symmetry == Permutations(Process)

PatchOf(allowed, conflicts) == [allowed |-> allowed, conflicts |-> conflicts]

Base ==
    [part |-> "none", events |-> {}, calls |-> 2,
     \* pull request
     ops |-> {"create", "reviewers", "status"}, start |-> "open", commands |-> 3,
     rules |-> [protected |-> TRUE, checks |-> TRUE, strict |-> FALSE, reviews |-> 0, force |-> FALSE],
     config |-> [auto |-> FALSE, prevent |-> FALSE, dispatch |-> "none", approval |-> TRUE],
     approved |-> TRUE, pending |-> FALSE, codeApproved |-> TRUE, validated |-> TRUE,
     \* http
     honours |-> TRUE, answers |-> {}, retries |-> TRUE, maxRetries |-> 2,
     \* patches
     patches |-> (pa :> PatchOf(TRUE, {}) @@ pb :> PatchOf(TRUE, {pa}) @@ pc :> PatchOf(FALSE, {})),
     branch |-> "feature/a", steps |-> 4,
     \* agents
     manifests |-> <<>>, need |-> [window |-> 2, features |-> {"tools"}, price |-> 4], model |-> "m", preferred |-> "none",
     price |-> 9, limit |-> 2, fallbacks |-> 2]

Of(part, events) == [Base EXCEPT !.part = part, !.events = events]

Doing(ops, events) == [Of("pullRequest", events) EXCEPT !.ops = ops]

OfPullRequests ==
    { Doing({"create", "reviewers"}, {"overlap"}),
      [Doing(Base.ops, {"failure", "lost", "crash", "push", "close"}) EXCEPT !.start = "none", !.commands = 2],
      [Doing(Base.ops, {"push", "close", "run", "conflict"}) EXCEPT !.start = "none"],
      [Doing({"create", "refresh", "deploy"}, {}) EXCEPT !.start = "none"],
      [Doing({"refresh"}, {"check", "run", "push", "base", "failure", "crash"})
            EXCEPT !.rules.strict = TRUE, !.rules.reviews = 1, !.commands = 2] }

OfDeployments ==
    LET deploys(events) == Doing({"refresh", "deploy"}, events)
    IN  { [deploys({"check", "push"}) EXCEPT !.commands = 2],
          [deploys({"push", "review", "dry"}) EXCEPT !.rules.checks = FALSE, !.rules.reviews = 1, !.commands = 2],
          [deploys({"check", "failure", "lost", "close"}) EXCEPT !.config.auto = TRUE, !.commands = 2],
          [deploys({"refuse", "crash", "base"}) EXCEPT !.config.auto = TRUE, !.rules.protected = FALSE],
          [deploys({"regress", "check", "review"}) EXCEPT !.rules.reviews = 1, !.commands = 2],
          [Doing({"deploy"}, {"overlap", "failure", "check"}) EXCEPT !.commands = 2],
          [Doing({"deploy", "reviewers"}, {"overlap", "crash"}) EXCEPT !.rules.protected = FALSE, !.commands = 2],
          [Doing({"deploy", "status"}, {"push"}) EXCEPT !.config.dispatch = "workflow"],
          [Doing({"deploy"}, {"push", "failure"}) EXCEPT !.config.dispatch = "inputs", !.pending = TRUE],
          [Doing({"deploy"}, {"push", "failure"}) EXCEPT !.approved = FALSE] }

OfHttp ==
    LET answers(some) == [Of("http", {}) EXCEPT !.answers = some]
    IN  { answers({"lost", "late", "garbled", "down"}),
          [answers({"lost", "late", "refused", "denied"}) EXCEPT !.honours = FALSE, !.maxRetries = 1],
          [answers({"nothing", "unexpected"}) EXCEPT !.retries = FALSE],
          [answers({"down"}) EXCEPT !.events = {"limited"}, !.calls = 1] }

OfPatches ==
    { Of("patches", {}), Of("patches", {"failure", "crash"}),
      [Of("patches", {"overlap"}) EXCEPT !.steps = 3],
      [Of("patches", {}) EXCEPT !.branch = "main"] }

M(price, fallback) ==
    [valid |-> TRUE, features |-> {"tools"}, fallback |-> fallback, models |-> ("m" :> [price |-> price, window |-> 2])]
Other == [M(1, "x") EXCEPT !.models = ("n" :> [price |-> 1, window |-> 2])]
Plain == [M(1, "none") EXCEPT !.features = {}]
Broken == [Plain EXCEPT !.valid = FALSE]

OfAgents ==
    LET agents(events, x, y) == [Of("agents", events) EXCEPT !.manifests = [i \in Provider |-> IF i = "x" THEN x ELSE y]]
    IN  { [agents({"hours"}, <<M(2, "y")>>, <<M(3, "x")>>) EXCEPT !.answers = {"transient", "humanAction"}, !.limit = 1, !.calls = 3],
          [agents({"edit"}, <<M(2, "y"), Broken>>, <<Plain, M(1, "none")>>) EXCEPT !.answers = {"transient"}],
          [agents({"late", "failure", "edit"}, <<M(2, "none")>>, <<Other, M(1, "none")>>) EXCEPT !.preferred = "y"],
          agents({"overlap", "crash", "edit"}, <<M(2, "none"), M(3, "none")>>, <<M(3, "none")>>) }

MCEnvironment == OfPullRequests \cup OfDeployments \cup OfHttp \cup OfPatches \cup OfAgents
=============================================================================
