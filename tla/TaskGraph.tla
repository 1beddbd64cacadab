------------------------------ MODULE TaskGraph ------------------------------
(***************************************************************************)
(* The plan that taskPlanner.ts makes of the requirements of spec.json:    *)
(* one task per requirement, the dependencies the requirements state and   *)
(* those the planner adds, Kahn's order over them, and the checks of       *)
(* validateDAG.                                                            *)
(*                                                                         *)
(* spec is the list of requirements, as [id, type, needs]; the task of     *)
(* requirement i is i: ensureUniqueTaskId gives every task a name of its   *)
(* own.  An id may stand twice in the list.                                *)
(***************************************************************************)
EXTENDS Naturals, Sequences, FiniteSets

LOCAL INSTANCE SequencesExt
LOCAL INSTANCE FiniteSetsExt

Tasks(spec) == 1..Len(spec)

\* deriveTaskType: no type and any other word mean code.
Testing == {"unit", "integration", "e2e", "smoke", "qa"}
CodeTasks(spec) == {t \in Tasks(spec) : spec[t].type \notin Testing}
TasksOfType(spec, type) == {t \in Tasks(spec) : spec[t].type = type}

\* requirementTaskMap: the last task made for an id.
TaskOf(spec, id) ==
    LET made == {t \in Tasks(spec) : spec[t].id = id}
    IN  IF made = {} THEN 0 ELSE Max(made)

\* The requirements that an id stands for; only its last task gets their needs.
Needs(spec, t) ==
    IF TaskOf(spec, spec[t].id) = t
    THEN UNION {spec[i].needs : i \in {i \in Tasks(spec) : spec[i].id = spec[t].id}}
    ELSE {}

\* What a test waits for whatever its requirement says.
Implied(spec, t) ==
    CASE spec[t].type = "integration" -> CodeTasks(spec) \cup TasksOfType(spec, "unit")
      [] spec[t].type = "e2e" -> CodeTasks(spec) \cup TasksOfType(spec, "integration")
      [] spec[t].type \in Testing \ {"integration", "e2e"} -> CodeTasks(spec)
      [] OTHER -> {}

\* buildDependencyGraph: a need that no task meets, or the task itself, is only reported.
Dependencies(spec, t) ==
    ({TaskOf(spec, id) : id \in Needs(spec, t)} \ {0, t}) \cup Implied(spec, t)

Graph(spec) == [t \in Tasks(spec) |-> Dependencies(spec, t)]

\* The blockers of PlanDiagnostics, by task and need.
Blocked(spec) ==
    {b \in Tasks(spec) \X UNION {spec[t].needs : t \in Tasks(spec)} :
        b[2] \in Needs(spec, b[1]) /\ TaskOf(spec, b[2]) \in {0, b[1]}}

\* getEntryTasks, in the order of the tasks.
EntryTasks(graph) == SelectSeq([t \in 1..Cardinality(DOMAIN graph) |-> t],
                               LAMBDA t : graph[t] = {})

\* Mutant: a task is queued with the first of its dependencies.
UnlockedByFirst(graph, order, i) ==
    SelectSeq([t \in 1..Cardinality(DOMAIN graph) |-> t],
              LAMBDA t : order[i] \in graph[t] /\ \A j \in 1..(i - 1) : order[j] \notin graph[t])

\* The tasks whose last dependency is order[i].
Unlocked(graph, order, i) ==
    SelectSeq([t \in 1..Cardinality(DOMAIN graph) |-> t],
              LAMBDA t : order[i] \in graph[t] /\ graph[t] \subseteq {order[j] : j \in 1..i})

\* computeTopologicalOrder: order of the queue after its first k tasks.
TopologicalOrder(graph) ==
    LET queue[k \in 0..Cardinality(DOMAIN graph)] ==
            IF k = 0 THEN EntryTasks(graph)
            ELSE IF k > Len(queue[k - 1]) THEN queue[k - 1]
            ELSE queue[k - 1] \o Unlocked(graph, queue[k - 1], k)
    IN  queue[Cardinality(DOMAIN graph)]

\* depths, of a task whose dependencies in the order raise it; 0 of the others.
Depths(graph) ==
    LET order == TopologicalOrder(graph)
        raised[k \in 0..Len(order)] ==
            IF k = 0 THEN [t \in DOMAIN graph |-> 0]
            ELSE LET d == raised[k - 1]
                 IN  [t \in DOMAIN graph |->
                        IF order[k] \in graph[t] /\ d[order[k]] + 1 > d[t]
                        THEN d[order[k]] + 1 ELSE d[t]]
    IN  raised[Len(order)]

MaxDepth(graph) == Max({0} \cup {Depths(graph)[t] : t \in DOMAIN graph})

\* calculateParallelPaths
ParallelPaths(graph) ==
    Max({0} \cup {Cardinality({t \in DOMAIN graph : Depths(graph)[t] = d}) : d \in 0..MaxDepth(graph)})

(***************************************************************************)
(* hasCycle of validateDAG: a depth-first search from t, with the set of   *)
(* visited tasks and the recursion stack; it stops at the first cycle.     *)
(***************************************************************************)
HasCycle(graph) ==
    LET list(s) == SetToSortSeq(s, <)
        search[t \in DOMAIN graph, stack \in SUBSET DOMAIN graph,
               visited \in SUBSET DOMAIN graph] ==
            IF t \in stack THEN [found |-> TRUE, visited |-> visited]
            ELSE IF t \in visited THEN [found |-> FALSE, visited |-> visited]
            ELSE FoldLeft(LAMBDA r, d : IF r.found THEN r ELSE search[d, stack \cup {t}, r.visited],
                          [found |-> FALSE, visited |-> visited \cup {t}], list(graph[t]))
        roots == FoldLeft(LAMBDA r, t : LET s == search[t, {}, r.visited]
                                        IN  [found |-> r.found \/ s.found, visited |-> s.visited],
                          [found |-> FALSE, visited |-> {}], list(DOMAIN graph))
    IN  roots.found

\* validateDAG: duplicates and unknown dependencies cannot occur in a graph made here.
Valid(graph) == ~HasCycle(graph)

\* The reference: every set of tasks has one that waits for none of the set.
Acyclic(graph) ==
    \A s \in SUBSET DOMAIN graph \ {{}} : \E t \in s : graph[t] \cap s = {}

\* The length of the longest chain of tasks that ends in t.
LongestChain(graph, t) ==
    LET chain[n \in 0..Cardinality(DOMAIN graph)] ==
            IF n = 0 THEN {t} ELSE {d \in DOMAIN graph : \E u \in chain[n - 1] : d \in graph[u]}
    IN  Max({n \in 0..Cardinality(DOMAIN graph) : chain[n] # {}})
=============================================================================
