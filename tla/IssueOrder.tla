----------------------------- MODULE IssueOrder -----------------------------
(***************************************************************************)
(* orderCycleIssues (src/workflows/cycleIssueOrderer.ts): the order in     *)
(* which a cycle takes its issues.  Kahn's algorithm goes level by level,  *)
(* each level by falling priority; what a dependency cycle keeps from it   *)
(* is ordered by the same algorithm over strongly connected components.    *)
(*                                                                         *)
(* listed is the list of issues, blocks the set of pairs <<blocker,        *)
(* blocked>> among them, priority the priority of each.  tie is a          *)
(* permutation of the issues: the order of the relations of an issue, and  *)
(* the order in which Tarjan's algorithm happens to emit components and    *)
(* their members, on which the code's result depends between equals only.  *)
(***************************************************************************)
EXTENDS Naturals, Sequences, FiniteSets

LOCAL INSTANCE SequencesExt
LOCAL INSTANCE Relation

\* The highest of Linear's priorities: 4 is urgent, 0 is none.
TopPriority == 4

\* sortByPriorityDescending: stable, as Array.sort is.
ByPriority(s, priority) ==
    FlattenSeq([k \in 1..(TopPriority + 1) |->
        SelectSeq(s, LAMBDA n : priority[n] = TopPriority + 1 - k)])

\* inDegree counts the blockers among the issues, the issue itself included.
Blockers(n, blocks) == {e[1] : e \in {e \in blocks : e[2] = n}}

\* Mutant: an issue is unlocked by the first of its blockers.
UnlockedByAny(done, i, tie, blocks) ==
    SelectSeq(tie, LAMBDA n :
        /\ <<done[i], n>> \in blocks
        /\ \A j \in 1..(i - 1) : <<done[j], n>> \notin blocks)

\* The issues whose last blocker is done[i].
Unlocked(done, i, tie, blocks) ==
    SelectSeq(tie, LAMBDA n :
        /\ <<done[i], n>> \in blocks
        /\ Blockers(n, blocks) \subseteq {done[j] : j \in 1..i})

\* processCurrentLevel, of the level that starts after the first from of done.
NextLevel(done, from, tie, blocks, priority) ==
    ByPriority(FlattenSeq([i \in 1..(Len(done) - from) |->
                               Unlocked(done, from + i, tie, blocks)]), priority)

\* performKahnTraversal, and orderRemainingComponents over components.
Traversal(listed, tie, blocks, priority) ==
    LET level[k \in 0..Len(listed)] ==
            IF k = 0
            THEN [from |-> 0,
                  done |-> ByPriority(SelectSeq(listed, LAMBDA n : Blockers(n, blocks) = {}),
                                      priority)]
            ELSE LET l == level[k - 1]
                 IN  [from |-> Len(l.done),
                      done |-> l.done \o NextLevel(l.done, l.from, tie, blocks, priority)]
    IN  level[Len(listed)].done

\* Who is upstream of whom: the reference the order is judged by.
Reach(nodes, blocks) ==
    TransitiveClosure([x, y \in nodes |-> <<x, y>> \in blocks], nodes)

\* findStronglyConnectedComponents, over the edges among the remaining issues.
Component(n, nodes, reach) == {n} \cup {m \in nodes : reach[n, m] /\ reach[m, n]}

Components(rest, tie, reach) ==
    LET of(n) == Component(n, rest, reach)
        leads(i) == tie[i] \in rest /\ \A j \in 1..(i - 1) : tie[j] \notin of(tie[i])
        place(n) == CHOOSE i \in 1..Len(tie) : tie[i] = n
    IN  LET heads == SelectSeq(tie, LAMBDA n : leads(place(n)))
        IN  [i \in 1..Len(heads) |-> of(heads[i])]

\* createComponentGraph
ComponentEdges(components, blocks) ==
    {e \in components \X components :
        e[1] # e[2] /\ \E x \in e[1], y \in e[2] : <<x, y>> \in blocks}

\* getComponentPriority
ComponentPriority(c, priority) ==
    CHOOSE p \in {priority[n] : n \in c} : \A n \in c : priority[n] <= p

\* isCycleComponent
IsCycle(c, blocks) == Cardinality(c) > 1 \/ \E n \in c : <<n, n>> \in blocks

\* orderCycleIssues
OrderCycleIssues(listed, tie, blocks, priority) ==
    LET first == Traversal(listed, tie, blocks, priority)
        rest == ToSet(listed) \ ToSet(first)
        inner == {e \in blocks : e[1] \in rest /\ e[2] \in rest}
        components == Components(rest, tie, Reach(rest, inner))
        order == Traversal(components, components, ComponentEdges(ToSet(components), inner),
                           [c \in ToSet(components) |-> ComponentPriority(c, priority)])
        members(c) == ByPriority(SelectSeq(tie, LAMBDA n : n \in c), priority)
    IN  [ordered |-> first \o FlattenSeq([i \in 1..Len(order) |-> members(order[i])]),
         involved |-> UNION {c \in ToSet(components) : IsCycle(c, inner)}]
=============================================================================
