-------------------------- MODULE WriteActionQueue --------------------------
(***************************************************************************)
(* The queue of write operations on GitHub (src/workflows/                 *)
(* writeActionQueue.ts, writeActionStore.ts): enqueue() adds an action     *)
(* unless there is one with its idempotency key, drain() executes the      *)
(* oldest pending ones, each under the run lock, clearCompleted() forgets  *)
(* the settled ones.  A drain does nothing while the rate-limit ledger     *)
(* (src/telemetry/rateLimitLedger.ts) is in cooldown.                      *)
(*                                                                         *)
(* queue.jsonl is read, changed and written as a whole; the counts in      *)
(* write_actions/manifest.json follow in a write of their own.  drain()    *)
(* reads the file before it has the lock.  Action identifiers are numbers  *)
(* in the order of creation, which is that of created_at and of the file.  *)
(* The ledger is its state of cooldown: the number of consecutive 429s     *)
(* changes only the message that drain() returns.                          *)
(***************************************************************************)
EXTENDS Integers, FiniteSets

CONSTANTS
    Process,        \* the processes that use the queue
    MaxActions,     \* bound on the number of actions ever created
    KeyOf,          \* the idempotency key of each, in the order of creation
    Nobody,         \* the lock is free
    Environment     \* the environments considered

Id == 1..MaxActions

(***************************************************************************)
(* "crash"  processes die                                                  *)
(* "torn"   they die also while saveQueue has written part of the file     *)
(* "fault"  the manifest cannot be written after queue.jsonl was           *)
(* "lost"   the executor throws although its request had its effect        *)
(* "clear"  clearCompleted is called                                       *)
(***************************************************************************)
EventKind == {"crash", "torn", "fault", "lost", "clear"}

ASSUME WriteActionAssumption ==
    /\ MaxActions \in Nat
    /\ Nobody \notin Process
    /\ DOMAIN KeyOf = Id
    /\ Environment \subseteq
            [events : SUBSET EventKind, procs : SUBSET Process, limit : Nat, maxRetries : Nat]

VARIABLES
    queue,      \* queue.jsonl: the status and the retry_count of every action
    created,    \* the number of actions created so far
    counts,     \* the counts per status in the manifest
    cooldown,   \* rate_limits.json: no cooldown, one that lasts, one that is over
    effects,    \* how often the request of each action took effect
    lock,       \* the process that holds the run lock
    pc,         \* where each process is
    plan,       \* the actions that its drain has read and still to execute
    at,         \* the one it is working on
    goal,       \* what its current update is for
    copy,       \* the contents that it is about to save
    owed,       \* the changes to the counts that it has still to write
    env         \* the environment of this behaviour

vars == <<queue, created, counts, cooldown, effects, lock, pc, plan, at, goal, copy,
          owed, env>>

Status == {"pending", "in_progress", "completed", "failed"}
Settled == {"completed", "failed"}
Goal == {"none", "enqueue", "clear", "in_progress", "completed", "retry", "failed"}
Locked == {"update", "save", "count", "run"}

Entry == [status : Status \cup {"missing"}, retries : Nat]
Queue == [Id -> Entry]
EmptyQueue == [i \in Id |-> [status |-> "missing", retries |-> 0]]
Nothing == [s \in Status |-> 0]

\* A copy of an action, as a drain has read it.
Action == [id : Id, retries : Nat]
NoAction == [id |-> 0, retries |-> 0]

TypeOK ==
    /\ queue \in Queue
    /\ created \in 0..MaxActions
    /\ counts \in [Status -> Nat]
    /\ cooldown \in {"none", "active", "over"}
    /\ effects \in [Id -> Nat]
    /\ lock \in Process \cup {Nobody}
    /\ pc \in [Process -> {"idle", "check", "clear", "load", "next"} \cup Locked]
    /\ plan \in [Process -> SUBSET Action]
    /\ at \in [Process -> Action \cup {NoAction}]
    /\ goal \in [Process -> Goal]
    /\ copy \in [Process -> Queue]
    /\ owed \in [Process -> [Status -> -1..1]]
    /\ env \in Environment

Init ==
    /\ queue = EmptyQueue
    /\ created = 0
    /\ counts = Nothing
    /\ cooldown = "none"
    /\ effects = [i \in Id |-> 0]
    /\ lock = Nobody
    /\ pc = [p \in Process |-> "idle"]
    /\ plan = [p \in Process |-> {}]
    /\ at = [p \in Process |-> NoAction]
    /\ goal = [p \in Process |-> "none"]
    /\ copy = [p \in Process |-> EmptyQueue]
    /\ owed = [p \in Process |-> Nothing]
    /\ env \in Environment

Goto(p, label) == pc' = [pc EXCEPT ![p] = label]
With(s) == {i \in Id : queue[i].status = s}
Present == {i \in Id : queue[i].status # "missing"}
-----------------------------------------------------------------------------
(***************************************************************************)
(* withLock and the ways out of it.                                        *)
(***************************************************************************)
\* Mutant: drain() does without the lock.
FreeForAll == TRUE

Free == lock = Nobody

\* The loop of drain() goes on with its plan; any other call is over.
Release(p) ==
    /\ lock' = Nobody
    /\ at' = [at EXCEPT ![p] = NoAction]
    /\ goal' = [goal EXCEPT ![p] = "none"]
    /\ Goto(p, IF plan[p] = {} THEN "idle" ELSE "next")

\* Updates: load the queue, change it, save it, then change the counts.
Plan(p, purpose) ==
    /\ goal' = [goal EXCEPT ![p] = purpose]
    /\ Goto(p, "update")
-----------------------------------------------------------------------------
(***************************************************************************)
(* enqueue, drain and clearCompleted, up to the lock.                      *)
(***************************************************************************)
(***************************************************************************)
(* enqueue: appendAction, unless findByIdempotencyKey has an action of any *)
(* status; then it is returned and nothing changes.                        *)
(***************************************************************************)
Enqueue(p) ==
    /\ p \in env.procs
    /\ pc[p] = "idle"
    /\ lock = Nobody
    /\ created < MaxActions
    /\ \A i \in Present : KeyOf[i] # KeyOf[created + 1]
    /\ lock' = p
    /\ created' = created + 1
    /\ queue' = [queue EXCEPT ![created + 1] = [status |-> "pending", retries |-> 0]]
    /\ owed' = [owed EXCEPT ![p] = [Nothing EXCEPT !["pending"] = 1]]
    /\ goal' = [goal EXCEPT ![p] = "enqueue"]
    /\ Goto(p, "count")
    /\ UNCHANGED <<counts, cooldown, effects, plan, at, copy, env>>

\* One that finds nothing to clear writes the file as it was, and is left out.
ClearCompleted(p) ==
    /\ "clear" \in env.events
    /\ With("completed") \cup With("failed") # {}
    /\ p \in env.procs
    /\ pc[p] = "idle"
    /\ lock = Nobody
    /\ lock' = p
    /\ Plan(p, "clear")
    /\ UNCHANGED <<queue, created, counts, cooldown, effects, plan, at, copy, owed, env>>

Drain(p) ==
    /\ p \in env.procs
    /\ pc[p] = "idle"
    /\ Goto(p, "check")
    /\ UNCHANGED <<queue, created, counts, cooldown, effects, lock, plan, at, goal,
                   copy, owed, env>>

\* Mutant: a cooldown that is over still counts.
CheckCooldownOnly(p) ==
    /\ pc[p] = "check"
    /\ Goto(p, IF cooldown = "none" THEN "load" ELSE "idle")
    /\ UNCHANGED <<queue, created, counts, cooldown, effects, lock, plan, at, goal,
                   copy, owed, env>>

\* checkCooldown, isInCooldown: one that is over is to be cleared.
CheckCooldown(p) ==
    /\ pc[p] = "check"
    /\ Goto(p, CASE cooldown = "none" -> "load" [] cooldown = "active" -> "idle"
                 [] OTHER -> "clear")
    /\ UNCHANGED <<queue, created, counts, cooldown, effects, lock, plan, at, goal,
                   copy, owed, env>>

\* clearCooldown does not look again whether it is over.
ClearCooldown(p) ==
    /\ pc[p] = "clear"
    /\ cooldown' = "none"
    /\ Goto(p, "load")
    /\ UNCHANGED <<queue, created, counts, effects, lock, plan, at, goal, copy, owed,
                   env>>

\* What is left of contents whose writing has got to the n-th action.
Torn(contents, n) ==
    [i \in Id |-> IF i <= n THEN contents[i] ELSE EmptyQueue[i]]

\* loadQueue without the lock: perhaps in the middle of the writeFile of saveQueue.
Readable ==
    {queue} \cup UNION {{Torn(copy[q], n) : n \in 0..MaxActions} :
                            q \in {q \in Process : pc[q] = "save"}}

\* Mutant: actions in progress are taken up again.
SelectInterrupted(contents) ==
    {i \in Id : contents[i].status \in {"pending", "in_progress"}}

\* The first pending actions, as many as availableSlots.
Select(contents) ==
    LET Of(s) == {i \in Id : contents[i].status = s}
        slots == env.limit - Cardinality(Of("in_progress"))
    IN  {i \in Of("pending") : Cardinality({j \in Of("pending") : j < i}) < slots}

Load(p) ==
    /\ pc[p] = "load"
    /\ \E contents \in Readable :
        /\ plan' = [plan EXCEPT ![p] =
                {[id |-> i, retries |-> contents[i].retries] : i \in Select(contents)}]
        /\ Goto(p, IF Select(contents) = {} THEN "idle" ELSE "next")
    /\ UNCHANGED <<queue, created, counts, cooldown, effects, lock, at, goal, copy, owed, env>>
-----------------------------------------------------------------------------
(***************************************************************************)
(* executeAction, under the lock.                                          *)
(***************************************************************************)
\* The loop of drain() takes its actions in order.
First(p) == {a \in plan[p] : \A b \in plan[p] : a.id <= b.id}

\* The next action of the plan; nobody looks whether it is still pending.
Take(p) ==
    /\ pc[p] = "next"
    /\ Free
    /\ lock' = p
    /\ \E a \in First(p) :
        /\ at' = [at EXCEPT ![p] = a]
        /\ plan' = [plan EXCEPT ![p] = @ \ {a}]
    /\ Plan(p, "in_progress")
    /\ UNCHANGED <<queue, created, counts, cooldown, effects, copy, owed, env>>

\* withLock times out; a backoff of the holder may alone be longer than that.
GiveUp(p) ==
    /\ pc[p] = "next"
    /\ lock # Nobody
    /\ \E a \in First(p) :
        /\ plan' = [plan EXCEPT ![p] = @ \ {a}]
        /\ Goto(p, IF plan[p] = {a} THEN "idle" ELSE "next")
    /\ UNCHANGED <<queue, created, counts, cooldown, effects, lock, at, goal, copy, owed,
                   env>>

\* The catch of executeAction, which goes by the retry count its drain has read.
Failure(p) ==
    IF at[p].retries < env.maxRetries THEN Plan(p, "retry") ELSE Plan(p, "failed")

\* An exception: inside the try of executeAction, or of its catch, or elsewhere.
Throw(p) ==
    IF goal[p] \in {"in_progress", "completed"}
    THEN Failure(p) /\ UNCHANGED <<lock, at>>
    ELSE Release(p)

Cleared == [i \in Id |-> IF queue[i].status \in Settled THEN EmptyQueue[i] ELSE queue[i]]

\* The contents that an update saves.
Changed(p) ==
    CASE goal[p] = "clear" -> Cleared
      [] goal[p] = "retry" ->
            [queue EXCEPT ![at[p].id] = [status |-> "pending", retries |-> @.retries + 1]]
      [] OTHER -> [queue EXCEPT ![at[p].id].status = goal[p]]

\* Mutant: a retry only adds to the pending ones.
DeltaRetry(from, to) ==
    [s \in Status |-> IF from = to THEN 0 ELSE IF s = to THEN 1
                      ELSE IF s = from /\ to # "pending" THEN -1 ELSE 0]

(***************************************************************************)
(* statusDelta of every status; updateActionRetry has a formula of its own *)
(* that leaves the counts of settled actions alone.                        *)
(***************************************************************************)
Delta(from, to) ==
    [s \in Status |-> IF from = to THEN 0 ELSE IF s = to THEN 1
                      ELSE IF s = from /\ ~(to = "pending" /\ s \in Settled) THEN -1 ELSE 0]

\* updateActionStatus, updateActionRetry, clearCompleted: load and change.
Update(p) ==
    /\ pc[p] = "update"
    /\ IF goal[p] # "clear" /\ at[p].id \notin Present
       THEN Throw(p) /\ UNCHANGED <<copy, owed>>
       ELSE /\ copy' = [copy EXCEPT ![p] = Changed(p)]
            /\ owed' = [owed EXCEPT ![p] =
                    IF goal[p] = "clear" THEN Nothing
                    ELSE Delta(queue[at[p].id].status, Changed(p)[at[p].id].status)]
            /\ Goto(p, "save")
            /\ UNCHANGED <<lock, at, goal>>
    /\ UNCHANGED <<queue, created, counts, cooldown, effects, plan, env>>

\* saveQueue; clearCompleted leaves the counts as they are.
Save(p) ==
    /\ pc[p] = "save"
    /\ queue' = copy[p]
    /\ copy' = [copy EXCEPT ![p] = EmptyQueue]
    /\ IF goal[p] = "clear" THEN Release(p)
                            ELSE Goto(p, "count") /\ UNCHANGED <<lock, at, goal>>
    /\ UNCHANGED <<created, counts, cooldown, effects, plan, owed, env>>

\* updateManifestCounts; the executor runs next, or the call ends.
Count(p) ==
    /\ pc[p] = "count"
    /\ counts' = [s \in Status |-> IF counts[s] + owed[p][s] < 0 THEN 0
                                   ELSE counts[s] + owed[p][s]]
    /\ owed' = [owed EXCEPT ![p] = Nothing]
    /\ IF goal[p] = "in_progress" THEN Goto(p, "run") /\ UNCHANGED <<lock, at, goal>>
                                  ELSE Release(p)
    /\ UNCHANGED <<queue, created, cooldown, effects, plan, copy, env>>

CountThrows(p) ==
    /\ "fault" \in env.events
    /\ pc[p] = "count"
    /\ owed' = [owed EXCEPT ![p] = Nothing]
    /\ Throw(p)
    /\ UNCHANGED <<queue, created, counts, cooldown, effects, plan, copy, env>>

\* The HTTP client records an answer; a cooldown begins when few requests remain.
RecordEnvelope == cooldown' \in {"none", "active"}

\* The executor returns.
Succeed(p) ==
    /\ pc[p] = "run"
    /\ effects' = [effects EXCEPT ![at[p].id] = @ + 1]
    /\ RecordEnvelope
    /\ Plan(p, "completed")
    /\ UNCHANGED <<queue, created, counts, lock, plan, at, copy, owed, env>>

\* It throws: 429, another error, or no answer at all, which records nothing.
Fail(p) ==
    /\ pc[p] = "run"
    /\ RecordEnvelope \/ UNCHANGED cooldown
    /\ Failure(p)
    /\ UNCHANGED <<queue, created, counts, effects, lock, plan, at, copy, owed, env>>

LoseAnswer(p) ==
    /\ "lost" \in env.events
    /\ pc[p] = "run"
    /\ effects' = [effects EXCEPT ![at[p].id] = @ + 1]
    /\ Failure(p)
    /\ UNCHANGED <<queue, created, counts, cooldown, lock, plan, at, copy, owed, env>>
-----------------------------------------------------------------------------
Expire ==
    /\ cooldown = "active"
    /\ cooldown' = "over"
    /\ UNCHANGED <<queue, created, counts, effects, lock, pc, plan, at, goal, copy, owed,
                   env>>

(***************************************************************************)
(* The process is started again; its lock is found stale (RunLock.tla).    *)
(* Before it has read the queue it has nothing to lose.                    *)
(***************************************************************************)
Crash(p) ==
    /\ "crash" \in env.events
    /\ pc[p] \in Locked \cup {"next"}
    /\ \/ UNCHANGED queue
       \/ /\ "torn" \in env.events
          /\ pc[p] = "save"
          /\ \E n \in 0..MaxActions : queue' = Torn(copy[p], n)
    /\ lock' = IF lock = p THEN Nobody ELSE lock
    /\ Goto(p, "idle")
    /\ plan' = [plan EXCEPT ![p] = {}]
    /\ at' = [at EXCEPT ![p] = NoAction]
    /\ goal' = [goal EXCEPT ![p] = "none"]
    /\ copy' = [copy EXCEPT ![p] = EmptyQueue]
    /\ owed' = [owed EXCEPT ![p] = Nothing]
    /\ UNCHANGED <<created, counts, cooldown, effects, env>>

\* What a call does by itself once begun.
Step(p) ==
    \/ CheckCooldown(p)
    \/ ClearCooldown(p)
    \/ Load(p)
    \/ Take(p)
    \/ Update(p)
    \/ Save(p)
    \/ Count(p)
    \/ Succeed(p)
    \/ Fail(p)

Next ==
    \/ \E p \in Process :
        \/ Enqueue(p)
        \/ Drain(p)
        \/ ClearCompleted(p)
        \/ Step(p)
        \/ GiveUp(p)
        \/ CountThrows(p)
        \/ LoseAnswer(p)
        \/ Crash(p)
    \/ Expire

Spec == Init /\ [][Next]_vars

(***************************************************************************)
(* drain() is called again and again ("resume ... Call queue.drain"), what *)
(* it awaits comes to an end, and so does a cooldown.                      *)
(***************************************************************************)
FairSpec ==
    /\ Spec
    /\ \A p \in Process : WF_vars(Step(p)) /\ WF_vars(p \in env.procs /\ Drain(p))
    /\ WF_vars(Expire)
-----------------------------------------------------------------------------
(***************************************************************************)
(* Properties.                                                             *)
(***************************************************************************)
Without(events) == events \cap env.events = {}
Alone == \A p, q \in env.procs : p = q

(***************************************************************************)
(* The request of an action takes effect at most once, also when processes *)
(* die at any point: "Crash recovery doesn't spam GitHub with duplicate    *)
(* comments".  It takes a single drain at a time, an executor that fails   *)
(* only without effect and a manifest that can be written.                 *)
(***************************************************************************)
AtMostOnce ==
    Alone /\ Without({"lost", "fault"}) => \A i \in Id : effects[i] <= 1

(***************************************************************************)
(* An action leaves the queue only when it is settled and was cleared:     *)
(* saving the whole file never drops what another process has added        *)
(* meanwhile, unless a process dies in the middle of the write.            *)
(***************************************************************************)
NoneForgotten ==
    [][Without({"torn"}) => \A i \in Id :
        queue[i].status # "missing" /\ queue'[i].status = "missing" =>
            queue[i].status \in Settled]_vars

(***************************************************************************)
(* The counts of the manifest, kept by increments, are those of the queue  *)
(* between calls, also when drains of two processes overlap; those of      *)
(* settled actions until the first clearCompleted ("completed_count in     *)
(* manifest reflects historical count").                                   *)
(***************************************************************************)
CountsMatch ==
    Without({"crash", "fault"}) /\ lock = Nobody =>
        \A s \in Status : Without({"clear"}) \/ s \notin Settled =>
            counts[s] = Cardinality(With(s))

Finished(i) == queue[i].status \in Settled \cup {"missing"}

(***************************************************************************)
(* Every action that enqueue accepts is settled in the end: failures are   *)
(* retried a bounded number of times, a cooldown does not pause the queue  *)
(* for ever, and slots are not used up -- as long as no process dies.      *)
(***************************************************************************)
Drained == \A i \in Id : (i <= created /\ "crash" \notin env.events) ~> Finished(i)

(***************************************************************************)
(* write_action_playbook.md: "Resume operations pick up where they left    *)
(* off" -- the same after processes have died and were started again.      *)
(***************************************************************************)
PicksUp ==
    <>[][\A p \in Process : ~Crash(p)]_vars =>
        \A i \in Id : (i <= created) ~> Finished(i)
=============================================================================
