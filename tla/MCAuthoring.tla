----------------------------- MODULE MCAuthoring -----------------------------
(***************************************************************************)
(* Two processes; the environments are grouped by part.                    *)
(***************************************************************************)
EXTENDS Authoring, TLC

CONSTANTS p1, p2, f, g

MCProcess == {p1, p2}
MCCommand == <<"lint", "test">>
Symmetry == Permutations(Process)

R(id, type, needs) == [id |-> id, type |-> type, needs |-> needs]
Entry(objective, title) == [objective |-> objective, title |-> title, origin |-> ""]

\* Lines with their ends; the last line has none.
Lines(sizes, last) ==
    Append([i \in DOMAIN sizes |-> [size |-> sizes[i], blank |-> sizes[i] = 1]],
           [size |-> last, blank |-> last = 0])

\* Two snippets that differ in case, and another one.
A == <<"a", "lower">>
AA == <<"a", "upper">>
B == <<"b", "lower">>

TextFile(path, weight, lines) ==
    [path |-> path, weight |-> weight, lines |-> lines, text |-> TRUE, readable |-> TRUE]

Check(required, retries, fixes) == [required |-> required, retries |-> retries, fixes |-> fixes]

Found(metadata, prompt, files) ==
    [metadata |-> metadata, manual |-> <<>>, prompt |-> prompt, spec |-> <<>>, files |-> files,
     limit |-> 1, maxFiles |-> 1]

Base ==
    [part |-> "none", events |-> {},
     commands |-> {"draft", "compose", "decide", "plan", "trace"}, versions |-> 1,
     requirements |-> <<R("a", "code", {}), R("b", "unit", {"a"})>>,
     orderly |-> FALSE, maxTime |-> 1, maxTasks |-> 2, detects |-> TRUE,
     unknowns |-> Found(<<Entry(A, ""), Entry(AA, ""), Entry(Plain, "")>>, <<>>, <<>>),
     asked |-> <<Hint(<<"asked", Plain>>, A, "prompt")>>,
     chunks |-> (f :> 1 @@ g :> 2), limits |-> {1}, patterns |-> {{}},
     candidates |-> <<>>, budget |-> 3, maxFiles |-> 0, lines |-> <<>>, max |-> 1, back |-> 0,
     \* linear and tasks
     calls |-> 2, preview |-> FALSE, blocks |-> {},
     cli |-> FALSE, supported |-> TRUE, keep |-> 1, markers |-> {},
     \* validation
     checks |-> ("lint" :> Check(TRUE, 1, TRUE) @@ "test" :> Check(TRUE, 1, FALSE)), limited |-> TRUE,
     override |-> 2, passing |-> {}]

Of(part, events) == [Base EXCEPT !.part = part, !.events = events]

OfDocuments ==
    LET of(events, versions, commands) ==
            [Of("documents", events) EXCEPT !.versions = versions, !.commands = commands]
        untraced == Base.commands \ {"trace"}
    IN  { of({"deny"}, 2, Base.commands), of({"crash"}, 1, Base.commands),
          of({"crash"}, 2, untraced \ {"plan"}), of({"edit"}, 1, untraced),
          of({"overlap"}, 2, untraced), of({"overlap", "deny"}, 1, untraced),
          of({"overlap", "crash"}, 1, untraced \ {"plan"}) }

OfResearch ==
    { [Of("research", {"time"}) EXCEPT !.orderly = TRUE, !.maxTime = 3, !.maxTasks = 3,
            !.unknowns = Found(<<Entry(A, ""), Entry(AA, ""), Entry(Plain, "")>>, <<Plain, A, AA>>,
                               <<TextFile("x", 1, <<A>>), TextFile("y", 2, <<B, A>>)>>)],
      [Of("research", {"time", "late"}) EXCEPT !.maxTime = 4],
      [Of("research", {"overlap"}) EXCEPT !.maxTasks = 3],
      Of("research", {"crash"}), Of("research", {"crash", "overlap"}) }

OfContext ==
    { [Of("context", {"change", "failure"}) EXCEPT !.patterns = {{}, {g}}],
      [Of("context", {"change", "crash"}) EXCEPT !.chunks = (g :> 2)],
      [Of("context", {"overlap"}) EXCEPT !.patterns = {{}, {g}}],
      [Of("context", {"overlap", "change"}) EXCEPT !.limits = {2}],
      [Of("context", {"overlap", "crash", "failure"}) EXCEPT !.limits = {2}],
      [Of("context", {"crash", "failure"}) EXCEPT !.patterns = {{}, {g}}],
      Of("context", {"overlap", "crash"}) }

\* Lists of requirements whose ids may stand twice or be unknown, and all graphs over three ids.
OfPlanning ==
    LET requirement(ids, types, needs) == [id : ids, type : types, needs : SUBSET needs]
        ids == <<"a", "b", "c">>
        lists == [1..2 -> requirement({"a", "b"}, {"code", "unit", "integration", "e2e"}, {"a", "b"})]
            \cup [1..3 -> requirement({"a", "b"}, {"code"}, {"a", "b"})]
            \cup {[i \in 1..3 |-> R(ids[i], t[i], n[i])] :
                    t \in [1..3 -> {"code", "integration"}], n \in [1..3 -> SUBSET {"a", "b", "c"}]}
    IN  {[Of("planning", {}) EXCEPT !.requirements = l] : l \in lists}

OfBudget ==
    {[Of("budget", {}) EXCEPT !.lines = Lines(sizes, last), !.max = m, !.back = b] :
        sizes \in UNION {[1..n -> {1, 2, 4}] : n \in 0..4}, last \in {0, 1, 5}, m \in {2, 4}, b \in 0..2}
    \cup
    {[Of("budget", {}) EXCEPT !.candidates = [i \in 1..3 |-> [l[i] EXCEPT !.id = i]],
                              !.budget = 3, !.maxFiles = n] :
        l \in [1..3 -> [id : {1}, depth : {0, 6}, kinds : {{"doc"}, {"code", "test"}}, age : {-1},
                       size : {4, 9}]], n \in {0, 2}}

OfLinear ==
    LET linear(events) == Of("linear", events)
    IN  { linear({}), linear({"failure", "crash"}),
          [linear({"cooldown"}) EXCEPT !.preview = TRUE],
          [linear({"slow"}) EXCEPT !.blocks = {<<"i", "j">>, <<"j", "k">>}] }

OfTasks ==
    LET jobs(events) == Of("tasks", events)
    IN  { [jobs({"timeout", "kill", "failure"}) EXCEPT !.cli = TRUE, !.markers = {"rate_limit", "authentication"}],
          [jobs({"timeout", "kill", "log"}) EXCEPT !.calls = 1], [jobs({}) EXCEPT !.calls = 1, !.keep = 2],
          [jobs({}) EXCEPT !.cli = TRUE, !.supported = FALSE, !.calls = 1] }

OfValidation ==
    { Of("validation", {}), Of("validation", {"single", "edit"}), Of("validation", {"crash", "timeout"}),
      Of("validation", {"overlap", "breaks"}),
      [Of("validation", {"failure"}) EXCEPT !.limited = FALSE],
      [Of("validation", {}) EXCEPT !.passing = {"lint", "test"}, !.calls = 4],
      [Of("validation", {"single"}) EXCEPT
            !.checks = ("lint" :> Check(FALSE, 0, TRUE) @@ "test" :> Check(FALSE, 1, FALSE))] }

MCEnvironment ==
    OfDocuments \cup OfResearch \cup OfContext \cup OfPlanning \cup OfBudget \cup OfLinear \cup OfTasks \cup OfValidation
=============================================================================
