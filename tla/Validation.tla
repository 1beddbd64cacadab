----------------------------- MODULE Validation -----------------------------
(***************************************************************************)
(* validate: the registry of validation commands, the ledger of attempts,  *)
(* the retry loop with auto-fix, and the suite of all required commands.   *)
(* The ledger is read and written under the run lock, the limit is checked *)
(* without it, and a command runs outside it.  The source tree is the set  *)
(* of the commands that would pass on it.                                  *)
(*                                                                         *)
(* env.checks maps each configured command to [required, retries, fixes];  *)
(* fixes stands for --auto-fix and a command that supports it, limited     *)
(* says that --max-retries is absent.                                      *)
(***************************************************************************)
EXTENDS RunDirectory

CONSTANT Command        \* the types of command in the order of the registry, as a sequence

VARIABLES
    registry,       \* validation/commands.json: "absent", or the commands it holds
    ledger,         \* validation/ledger.json: the attempts; its summary follows from them
    tree,           \* the commands that pass on the source tree
    validator,      \* what each process is doing
    calls           \* the calls of validate so far

validationVars == <<registry, ledger, tree, validator, calls>>

Commands == {Command[i] : i \in DOMAIN Command}

ASSUME ValidationAssumption ==
    /\ IsFiniteSet(Process)
    /\ Command \in Seq(Commands)
    /\ \A e \in Environment :
        /\ e.limited \in BOOLEAN /\ e.override \in Nat /\ e.passing \subseteq Commands
        /\ e.checks \in [Commands -> [required : BOOLEAN, retries : Nat, fixes : BOOLEAN]]

Required == {c \in Commands : env.checks[c].required}

NoAttempt == [command |-> "none", number |-> 0, exit |-> 0, fix |-> FALSE]

Waiting ==
    [at |-> "idle", single |-> FALSE, targets |-> {}, left |-> {}, number |-> 0, attempt |-> NoAttempt,
     results |-> {}, exceeded |-> {}, edited |-> FALSE]

ValidationInit ==
    /\ registry = "absent" /\ ledger = <<>>
    /\ tree = env.passing
    /\ validator = [p \in Process |-> Waiting]
    /\ calls = 0

Turn(p, w) == validator' = [validator EXCEPT ![p] = w]

\* initializeValidationRegistry; the configuration does not change.
InitializeRegistry ==
    /\ Free
    /\ registry = "absent"
    /\ registry' = "commands"
    /\ UNCHANGED <<ledger, tree, validator, calls>>

\* validate, of one command or of all required ones, if the registry is there; with none required it is done.
BeginValidate(p, single, targets) ==
    /\ validator[p].at = "idle"
    /\ "overlap" \in env.events \/ \A q \in Process : validator[q].at = "idle"
    /\ registry # "absent"
    /\ calls < env.calls
    /\ calls' = calls + 1
    /\ Turn(p, [Waiting EXCEPT !.at = IF targets = {} THEN "done" ELSE "next",
                                !.single = single, !.targets = targets, !.left = targets])
    /\ UNCHANGED <<registry, ledger, tree, lock>>

AttemptsOf(c) == {i \in DOMAIN ledger : ledger[i].command = c}

\* Mutant: one attempt more than the limit.
ExceededLate(c) == env.limited /\ Cardinality(AttemptsOf(c)) > env.checks[c].retries + 1

\* hasExceededRetryLimit: successes count too.
Exceeded(c) == env.limited /\ Cardinality(AttemptsOf(c)) >= env.checks[c].retries + 1

AttemptLimit(c) == (IF env.limited THEN env.checks[c].retries ELSE env.override) + 1

\* The loop of executeAllValidations: on to the next target, also after an exceeded limit.
NextTarget(v, c) == [v EXCEPT !.left = @ \ {c}, !.at = IF v.left = {c} THEN "done" ELSE "next"]

\* The targets are taken in the order of the registry.
Current(v) ==
    Command[CHOOSE i \in DOMAIN Command : Command[i] \in v.left /\ \A j \in 1..(i - 1) : Command[j] \notin v.left]

\* The start of executeValidationWithAutoFix.
NextCommand(p) ==
    LET v == validator[p]
        c == Current(v)
    IN  /\ v.at = "next"
        /\ IF Exceeded(c)
           THEN Turn(p, [NextTarget(v, c) EXCEPT !.exceeded = @ \cup {c}])
           ELSE Turn(p, [v EXCEPT !.at = "run", !.number = 0])
        /\ UNCHANGED <<registry, ledger, tree, calls, lock>>

\* An auto-fix command repairs what it checks; it may break what others check.
AfterFix(c) ==
    {tree, tree \cup {c}} \cup
    (IF "breaks" \in env.events THEN {(tree \cup {c}) \ {d} : d \in Commands \ {c}} ELSE {})

\* executeShellCommand: 0 if it passes, 124 if it takes too long.
ExitCodes(c, after) ==
    (IF c \in after THEN {0} ELSE {1}) \cup (IF "timeout" \in env.events THEN {124} ELSE {})

\* executeValidationCommand; a template that is refused or an output that cannot be saved ends the call.
RunCommand(p) ==
    LET v == validator[p]
        c == Current(v)
        fix == v.number > 0 /\ env.checks[c].fixes
    IN  /\ v.at = "run"
        /\ \/ \E after \in IF fix THEN AfterFix(c) ELSE {tree} : \E exit \in ExitCodes(c, after) :
                /\ tree' = after
                /\ Turn(p, [v EXCEPT !.at = "record", !.number = @ + 1,
                                     !.attempt = [command |-> c, number |-> v.number + 1, exit |-> exit, fix |-> fix]])
           \/ "failure" \in env.events /\ Turn(p, Waiting) /\ UNCHANGED tree
        /\ UNCHANGED <<registry, ledger, calls, lock>>

\* The end of the retry loop: a success, or the last attempt.
SettledAttempt(v) == v.attempt.exit = 0 \/ v.number >= AttemptLimit(v.attempt.command)

\* recordValidationAttempt, the ledger read and written as one section; then another attempt or the next target.
RecordAttempt(p) ==
    LET v == validator[p]
    IN  /\ v.at = "record"
        /\ Free
        /\ ledger' = Append(ledger, v.attempt)
        /\ Turn(p, IF SettledAttempt(v) THEN [NextTarget(v, v.attempt.command) EXCEPT !.results = @ \cup {v.attempt}] ELSE [v EXCEPT !.at = "run"])
        /\ UNCHANGED <<registry, tree, calls>>

\* Success: every target has a result, and it passed.
Success(v) ==
    \A c \in v.targets : \E r \in v.results : r.command = c /\ r.exit = 0

\* The exit code of validate; a single command over its limit throws.
ExitOf(v) ==
    IF Success(v) THEN 0 ELSE IF v.exceeded = {} THEN 10 ELSE IF v.single THEN 1 ELSE 11

EndValidation(p) ==
    /\ validator[p].at = "done"
    /\ Turn(p, Waiting)
    /\ UNCHANGED <<registry, ledger, tree, calls, lock>>

CrashValidator(p) ==
    /\ "crash" \in env.events
    /\ validator[p].at # "idle"
    /\ Turn(p, Waiting)
    /\ UNCHANGED <<registry, ledger, tree, calls, lock>>

\* A developer works on the tree.
EditTree ==
    /\ "edit" \in env.events
    /\ tree' \in SUBSET Commands
    /\ validator' = [p \in Process |-> [validator[p] EXCEPT !.edited = @ \/ validator[p].at # "idle"]]
    /\ UNCHANGED <<registry, ledger, calls, lock>>

ValidationNext ==
    \/ InitializeRegistry \/ EditTree
    \/ \E p \in Process :
        \/ \E c \in Commands : "single" \in env.events /\ BeginValidate(p, TRUE, {c})
        \/ BeginValidate(p, FALSE, Required)
        \/ NextCommand(p) \/ RunCommand(p) \/ RecordAttempt(p) \/ EndValidation(p) \/ CrashValidator(p)
-----------------------------------------------------------------------------
(***************************************************************************)
(* A suite that reports success left a tree on which every required        *)
(* command passes, whatever auto-fixes it took, unless an auto-fix breaks  *)
(* what another command checks or somebody else changes the tree.  Exit 10 *)
(* means that every target used up its attempts or passed, exit 11 or 1    *)
(* that one of them was not run because its limit was used up before.      *)
(* (executeAllValidations, executeValidationWithAutoFix, validate)         *)
(***************************************************************************)
SuccessMeansPassing ==
    \A p \in Process : validator[p].at = "done" =>
        LET v == validator[p]
            ran == {r.command : r \in v.results}
            passed == {r.command : r \in {r \in v.results : r.exit = 0}}
        IN  /\ ExitOf(v) = 0 =>
                /\ v.exceeded = {}
                /\ env.events \cap {"breaks", "overlap"} = {} /\ ~v.edited =>
                        v.targets \subseteq tree
            /\ ExitOf(v) = 10 =>
                /\ ran = v.targets
                /\ \E c \in ran \ passed : Cardinality(AttemptsOf(c)) >= AttemptLimit(c)
            /\ ExitOf(v) \in {1, 11} =>
                \E c \in v.targets \ ran : Cardinality(AttemptsOf(c)) >= env.checks[c].retries + 1

(***************************************************************************)
(* With limits in force a command has fewer than twice the attempts its    *)
(* limit allows while calls follow one another: a call that finds one      *)
(* attempt left makes all of them again.  The attempts of a call are       *)
(* numbered from one without a gap unless a process died or failed in      *)
(* between, and none follows a success.                                    *)
(* (hasExceededRetryLimit, recordValidationAttempt)                        *)
(***************************************************************************)
AttemptsBounded ==
    /\ env.limited =>
        \A c \in Commands :
            Cardinality(AttemptsOf(c)) <=
                env.checks[c].retries
                    + (env.checks[c].retries + 1) * (IF "overlap" \in env.events THEN Cardinality(Process) ELSE 1)
    /\ env.events \cap {"overlap"} = {} =>
        \A c \in Commands :
            \A i \in AttemptsOf(c) : ledger[i].number > 1 =>
                \E j \in AttemptsOf(c) :
                    /\ j < i /\ \A k \in AttemptsOf(c) : k <= j \/ k >= i
                    /\ ledger[j].number = ledger[i].number - 1 /\ ledger[j].exit # 0

ValidationSound == SuccessMeansPassing /\ AttemptsBounded
=============================================================================
