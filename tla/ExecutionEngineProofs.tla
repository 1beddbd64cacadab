----------------------- MODULE ExecutionEngineProofs -----------------------
(***************************************************************************)
(* What holds of ExecutionEngine for every queue, every graph of           *)
(* dependencies and every environment.                                     *)
(*                                                                         *)
(* The invariant has one part for the number of promises in flight, one    *)
(* for the count of retries and one for the flow of a task: a promise that *)
(* may still write to the queue has a live task, so that no promise        *)
(* touches a settled task and a completed dependency stays completed.      *)
(* The report of execute() is counted apart (TallyInv): a promise that     *)
(* settles is one task more, and what its result says is so of the task.   *)
(***************************************************************************)
EXTENDS ExecutionEngine, FiniteSetTheorems, TLAPS

Limit(t) == IF env.maxRetries[t] = 0 THEN 1 ELSE env.maxRetries[t]

Live(t) ==
    \/ status[t] \in {"pending", "running"}
    \/ status[t] = "failed" /\ ~fatal[t] /\ retries[t] < env.maxRetries[t]

Slots ==
    /\ Cardinality(InFlight) <= env.parallel
    /\ phase = "fill" => Cardinality(InFlight) < env.parallel
    /\ phase = "returned" => InFlight = {}

Retry(t) ==
    /\ retries[t] <= Limit(t)
    /\ status[t] \in {"pending", "running"} => retries[t] < Limit(t)
    /\ stage[t] \in Working => read[t] < Limit(t)
    /\ stage[t] = "begin" => retries[t] = read[t]
    /\ stage[t] = "retry" => read[t] + 1 < env.maxRetries[t]

Flow(t) ==
    /\ stage[t] \in Working => Live(t)
    /\ stage[t] # "idle" \/ status[t] # "pending" =>
        \A d \in env.deps[t] : status[d] = "completed"

IInv ==
    /\ TypeOK
    /\ Slots
    /\ \A t \in Task : Retry(t)
    /\ Dependable => \A t \in Task : Flow(t)
    /\ NothingLeft

-----------------------------------------------------------------------------
\* What the constants say of the environment of a behaviour.
LEMMA EnvType ==
    ASSUME TypeOK
    PROVE  /\ env.parallel \in Nat \ {0}
           /\ env.deps \in [Task -> SUBSET Task]
           /\ env.maxRetries \in [Task -> Nat]
           /\ env.kind \in [Task -> TaskKind]
  BY EngineAssumption DEF TypeOK

LEMMA FiniteFlight == IsFiniteSet(InFlight) /\ Cardinality(InFlight) \in Nat
<1>1. InFlight \in SUBSET Task
  BY DEF InFlight
<1> QED
  BY <1>1, EngineAssumption, FS_Subset, FS_CardinalityType

(***************************************************************************)
(* A set chosen for a number of free places is no larger, and holds only   *)
(* tasks that may be launched.                                             *)
(***************************************************************************)
LEMMA SelectionFits ==
    ASSUME NEW n \in Nat, NEW S \in Selections(n)
    PROVE  /\ S \subseteq Eligible
           /\ IsFiniteSet(S)
           /\ Cardinality(S) \in Nat
           /\ Cardinality(S) <= n
           /\ n > 0 /\ S = {} => Eligible = {}
<1>1. S \subseteq Eligible /\ Eligible \subseteq Task
  BY DEF Selections, Eligible
<1>2. IsFiniteSet(Eligible) /\ Cardinality(Eligible) \in Nat
  BY <1>1, EngineAssumption, FS_Subset, FS_CardinalityType
<1>3. IsFiniteSet(S) /\ Cardinality(S) \in Nat
  BY <1>1, <1>2, FS_Subset, FS_CardinalityType
<1>4. Cardinality(S) = AtMost(n, Cardinality(Eligible))
  BY DEF Selections
<1>5. S = {} => Cardinality(S) = 0
  BY FS_EmptySet
<1>6. Cardinality(Eligible) = 0 => Eligible = {}
  BY <1>2, FS_EmptySet
<1> QED
  BY <1>1, <1>2, <1>3, <1>4, <1>5, <1>6 DEF AtMost

(***************************************************************************)
(* A step of one promise: what it may change, and what it writes.          *)
(***************************************************************************)
LEMMA PromiseFrame ==
    ASSUME TypeOK, NEW t \in Task, RunTask(t)
    PROVE  /\ stage[t] \in Working
           /\ stage' = [stage EXCEPT ![t] = stage'[t]]
           /\ stage'[t] \in (Working \ {"begin"}) \cup Outcome \cup {"rejected"}
           /\ \A u \in Task \ {t} : /\ status'[u] = status[u]
                                   /\ retries'[u] = retries[u]
                                   /\ fatal'[u] = fatal[u]
           /\ UNCHANGED <<read, phase, stopped, tally, env>>
<1>1. CASE Begin(t)
  BY <1>1 DEF TypeOK, Begin, Update, Store, Goto, queue, Working, Outcome
<1>2. CASE Execute(t)
  BY <1>2 DEF TypeOK, Execute, Goto, Working, Outcome
<1>3. CASE Complete(t)
  BY <1>3 DEF TypeOK, Complete, Update, Store, Goto, queue, Working, Outcome
<1>4. CASE Requeue(t)
  BY <1>4 DEF TypeOK, Requeue, Update, Store, Goto, queue, Working, Outcome
<1>5. CASE GiveUp(t)
  BY <1>5 DEF TypeOK, GiveUp, Update, Store, Goto, queue, Working, Outcome
<1>6. CASE HandleError(t)
  BY <1>6 DEF TypeOK, HandleError, Update, Store, Goto, queue, Working, Outcome
<1> QED
  BY <1>1, <1>2, <1>3, <1>4, <1>5, <1>6 DEF RunTask

\* The promises in flight are the same before and after such a step.
LEMMA PromiseStays ==
    ASSUME TypeOK, NEW t \in Task, RunTask(t)
    PROVE  InFlight' = InFlight
  BY PromiseFrame DEF TypeOK, InFlight, Working, Outcome

\* An update writes what it is given, or nothing.
LEMMA UpdateType ==
    ASSUME TypeOK, NEW t \in Task, NEW s \in Status, NEW count \in Nat,
           NEW unrecoverable \in BOOLEAN, NEW next, NEW catch,
           Update(t, s, count, unrecoverable, next, catch)
    PROVE  /\ status' \in [Task -> Status]
           /\ retries' \in [Task -> Nat]
           /\ fatal' \in [Task -> BOOLEAN]
  BY DEF TypeOK, Update, Store, queue

LEMMA TypeStep ==
    ASSUME TypeOK, [Next]_vars
    PROVE  TypeOK'
<1>1. CASE Check
  BY <1>1 DEF TypeOK, Check, Looping, Over
<1>2. CASE Fill
  <2>1. PICK S \in Selections(Capacity) :
            /\ stage' = [t \in Task |-> IF t \in S THEN "begin" ELSE stage[t]]
            /\ read' = [t \in Task |-> IF t \in S THEN retries[t] ELSE read[t]]
            /\ phase' = IF S = {} /\ InFlight = {} THEN "returned" ELSE "race"
    BY <1>2 DEF Fill
  <2> QED
    BY <1>2, <2>1 DEF TypeOK, Fill, Looping, Over, Working
<1>3. CASE FillThrows
  BY <1>3 DEF TypeOK, FillThrows, Over
<1>4. ASSUME NEW t \in Task, Collect(t) PROVE TypeOK'
  BY <1>4 DEF TypeOK, Collect, Counted, Looping, Over
<1>5. ASSUME NEW t \in Task, Reject(t) PROVE TypeOK'
  BY <1>5 DEF TypeOK, Reject, Over
<1>6. ASSUME NEW t \in Task, RunTask(t) PROVE TypeOK'
  <2>1. /\ stage' \in [Task -> {"idle", "rejected"} \cup Working \cup Outcome]
        /\ UNCHANGED <<read, phase, stopped, tally, env>>
    BY <1>6, PromiseFrame DEF TypeOK, Working
  <2>2. status' \in [Task -> Status] /\ retries' \in [Task -> Nat] /\ fatal' \in [Task -> BOOLEAN]
    <3>1. read[t] \in Nat /\ read[t] + 1 \in Nat /\ retries[t] \in Nat /\ fatal[t] \in BOOLEAN
      BY DEF TypeOK
    <3>2. {"pending", "running", "completed", "failed", "skipped"} \subseteq Status
      BY DEF Status
    <3>3. CASE Begin(t)
      <4>1. CASE env.kind[t] = "badId"
        BY <3>1, <3>2, <3>3, <4>1, UpdateType DEF Begin
      <4>2. CASE env.kind[t] = "noStrategy"
        BY <3>1, <3>2, <3>3, <4>2, UpdateType DEF Begin
      <4>3. CASE env.kind[t] \notin {"badId", "noStrategy"}
        BY <3>1, <3>2, <3>3, <4>3, UpdateType DEF Begin
      <4> QED
        BY <4>1, <4>2, <4>3
    <3>4. CASE Execute(t)
      BY <3>4 DEF TypeOK, Execute
    <3>5. CASE Complete(t)
      BY <3>1, <3>2, <3>5, UpdateType DEF Complete
    <3>6. CASE Requeue(t)
      BY <3>1, <3>2, <3>6, UpdateType DEF Requeue
    <3>7. CASE GiveUp(t)
      BY <3>1, <3>2, <3>7, UpdateType DEF GiveUp
    <3>8. CASE HandleError(t)
      BY <3>1, <3>2, <3>8, UpdateType DEF HandleError
    <3> QED
      BY <1>6, <3>3, <3>4, <3>5, <3>6, <3>7, <3>8 DEF RunTask
  <2> QED
    BY <2>1, <2>2 DEF TypeOK
<1>7. CASE Stop
  BY <1>7 DEF TypeOK, Stop
<1>8. CASE Crash
  BY <1>8 DEF TypeOK, Crash, Looping, NoTally
<1>9. CASE UNCHANGED vars
  BY <1>9 DEF TypeOK, vars
<1> QED
  BY <1>1, <1>2, <1>3, <1>4, <1>5, <1>6, <1>7, <1>8, <1>9 DEF Next, Loop

LEMMA InitInv == ASSUME Init PROVE IInv
<1>1. TypeOK
  BY DEF Init, TypeOK, Looping, Status, NoTally
<1>2. InFlight = {}
  BY DEF Init, InFlight
<1>3. Slots
  BY <1>1, <1>2, EnvType, FS_EmptySet DEF Init, Slots
<1>4. \A t \in Task : Retry(t)
  BY <1>1, EnvType DEF Init, Retry, Limit, Working
<1>5. \A t \in Task : Flow(t)
  BY DEF Init, Flow, Working
<1>6. NothingLeft
  BY DEF Init, NothingLeft
<1> QED
  BY <1>1, <1>3, <1>4, <1>5, <1>6 DEF IInv

(***************************************************************************)
(* The number of promises in flight.                                       *)
(***************************************************************************)
LEMMA SlotsStep ==
    ASSUME TypeOK, Slots, [Next]_vars
    PROVE  Slots'
<1> USE EnvType, FiniteFlight
<1>1. CASE Check
  <2>1. InFlight' = InFlight /\ env' = env
    BY <1>1 DEF Check, InFlight
  <2> QED
    BY <1>1, <2>1 DEF Check, Slots, Capacity
<1>2. CASE Fill
  <2>1. PICK S \in Selections(Capacity) :
            /\ stage' = [t \in Task |-> IF t \in S THEN "begin" ELSE stage[t]]
            /\ phase' = IF S = {} /\ InFlight = {} THEN "returned" ELSE "race"
    BY <1>2 DEF Fill
  <2>2. Capacity \in Nat /\ env' = env
    BY <1>2 DEF Fill, Slots, Capacity
  <2>3. S \subseteq Task /\ IsFiniteSet(S) /\ Cardinality(S) \in Nat /\ Cardinality(S) <= Capacity
    BY <2>2, SelectionFits DEF Eligible
  <2>4. InFlight' = InFlight \cup S
    BY <2>1, <2>3 DEF InFlight
  <2>5. IsFiniteSet(InFlight \cap S)
    BY FS_Subset
  <2>6. Cardinality(InFlight \cap S) \in Nat
    BY <2>5, FS_CardinalityType
  <2>7. Cardinality(InFlight') <= Cardinality(InFlight) + Cardinality(S)
    <3>1. Cardinality(InFlight \cup S)
            = Cardinality(InFlight) + Cardinality(S) - Cardinality(InFlight \cap S)
      BY <2>3, FS_Union
    <3>2. Cardinality(InFlight \cup S) <= Cardinality(InFlight) + Cardinality(S)
      BY <2>3, <2>6, <3>1
    <3> QED
      BY <2>4, <3>2
  <2>8. Cardinality(InFlight') \in Nat
    BY <2>3, <2>4, FS_Union, FS_CardinalityType
  <2>9. phase' = "returned" => InFlight' = {}
    BY <2>1, <2>4
  <2> QED
    BY <1>2, <2>1, <2>2, <2>3, <2>7, <2>8, <2>9 DEF Fill, Slots, Capacity
<1>3. CASE FillThrows
  BY <1>3 DEF FillThrows, Slots, InFlight
<1>4. ASSUME NEW t \in Task, Collect(t) PROVE Slots'
  <2>1. InFlight' \in SUBSET InFlight
    BY <1>4 DEF Collect, InFlight, TypeOK
  <2>2. Cardinality(InFlight') <= Cardinality(InFlight) /\ Cardinality(InFlight') \in Nat
    BY <2>1, FS_Subset, FS_CardinalityType
  <2> QED
    BY <1>4, <2>2 DEF Collect, Slots
<1>5. ASSUME NEW t \in Task, Reject(t) PROVE Slots'
  BY <1>5 DEF Reject, Slots, InFlight
<1>6. ASSUME NEW t \in Task, RunTask(t) PROVE Slots'
  BY <1>6, PromiseStays, PromiseFrame DEF Slots
<1>7. CASE Stop
  BY <1>7 DEF Stop, Slots, InFlight
<1>8. CASE Crash
  <2>1. InFlight' = {}
    BY <1>8 DEF Crash, InFlight
  <2> QED
    BY <1>8, <2>1, FS_EmptySet DEF Crash, Slots
<1>9. CASE UNCHANGED vars
  BY <1>9 DEF vars, Slots, InFlight
<1> QED
  BY <1>1, <1>2, <1>3, <1>4, <1>5, <1>6, <1>7, <1>8, <1>9 DEF Next, Loop

(***************************************************************************)
(* The count of retries.                                                   *)
(***************************************************************************)
LEMMA RetryStep ==
    ASSUME TypeOK, \A t \in Task : Retry(t), [Next]_vars, NEW u \in Task
    PROVE  Retry(u)'
<1>0. Retry(u) /\ retries[u] \in Nat /\ read[u] \in Nat /\ env.maxRetries[u] \in Nat
  BY EnvType DEF TypeOK
<1>1. CASE Fill
  <2>1. PICK S \in Selections(Capacity) :
            /\ stage' = [t \in Task |-> IF t \in S THEN "begin" ELSE stage[t]]
            /\ read' = [t \in Task |-> IF t \in S THEN retries[t] ELSE read[t]]
    BY <1>1 DEF Fill
  <2>2. UNCHANGED <<status, retries, fatal, env>>
    BY <1>1 DEF Fill
  <2>3. CASE u \in S
    <3>1. status[u] \in {"running", "pending"} \/ CanRetry(u)
      BY <2>3 DEF Selections, Eligible
    <3>2. retries[u] < Limit(u)
      BY <1>0, <3>1 DEF CanRetry, MayRetry, Retry, Limit
    <3> QED
      BY <1>0, <2>1, <2>2, <2>3, <3>2 DEF Retry, Limit
  <2>4. CASE u \notin S
    BY <1>0, <2>1, <2>2, <2>4 DEF Retry, Limit
  <2> QED
    BY <2>3, <2>4
<1>2. ASSUME NEW t \in Task, RunTask(t) PROVE Retry(u)'
  <2>1. CASE u # t
    <3>1. /\ stage'[u] = stage[u] /\ read'[u] = read[u] /\ env' = env
          /\ status'[u] = status[u] /\ retries'[u] = retries[u]
      BY <1>2, <2>1, PromiseFrame DEF TypeOK
    <3> QED
      BY <1>0, <3>1 DEF Retry, Limit
  <2>2. CASE u = t
    <3> USE <1>0, <2>2 DEF TypeOK, Retry, Limit, Working
    <3>1. CASE Begin(t)
      BY <3>1 DEF Begin, Update, Store, Goto, queue
    <3>2. CASE Execute(t)
      BY <3>2 DEF Execute, Goto, MayRetry
    <3>3. CASE Complete(t)
      BY <3>3 DEF Complete, Update, Store, Goto, queue
    <3>4. CASE Requeue(t)
      BY <3>4 DEF Requeue, Update, Store, Goto, queue
    <3>5. CASE GiveUp(t)
      BY <3>5 DEF GiveUp, Update, Store, Goto, queue
    <3>6. CASE HandleError(t)
      BY <3>6 DEF HandleError, Update, Store, Goto, queue
    <3> QED
      BY <1>2, <3>1, <3>2, <3>3, <3>4, <3>5, <3>6 DEF RunTask
  <2> QED
    BY <2>1, <2>2
<1>3. ASSUME NEW t \in Task, Collect(t) PROVE Retry(u)'
  BY <1>0, <1>3 DEF Collect, TypeOK, Retry, Limit, Working
<1>4. CASE Crash
  BY <1>0, <1>4 DEF Crash, Retry, Limit, Working
<1>5. CASE Check \/ FillThrows \/ (\E t \in Task : Reject(t)) \/ Stop \/ UNCHANGED vars
  <2>1. UNCHANGED <<status, retries, stage, read, env>>
    BY <1>5 DEF Check, FillThrows, Reject, Stop, vars
  <2> QED
    BY <1>0, <2>1 DEF Retry, Limit
<1> QED
  BY <1>1, <1>2, <1>3, <1>4, <1>5 DEF Next, Loop

(***************************************************************************)
(* The flow of a task, when the calls on the queue do not fail.            *)
(***************************************************************************)
LEMMA FlowStep ==
    ASSUME TypeOK, Dependable, \A t \in Task : Flow(t), [Next]_vars, NEW u \in Task
    PROVE  Flow(u)'
<1>0. /\ Flow(u)
      /\ env.deps[u] \subseteq Task
      /\ retries[u] \in Nat /\ read[u] \in Nat /\ env.maxRetries[u] \in Nat
  BY EnvType DEF TypeOK
<1>1. CASE Fill
  <2>1. PICK S \in Selections(Capacity) :
            stage' = [t \in Task |-> IF t \in S THEN "begin" ELSE stage[t]]
    BY <1>1 DEF Fill
  <2>2. UNCHANGED <<status, retries, fatal, env>>
    BY <1>1 DEF Fill
  <2>3. CASE u \in S
    <3>1. status[u] \in {"running", "pending"} \/ CanRetry(u)
      BY <2>3 DEF Selections, Eligible
    <3>2. DependenciesCompleted(u)
      BY <2>3 DEF Selections, Eligible
    <3> QED
      BY <2>1, <2>2, <2>3, <3>1, <3>2
      DEF Flow, Live, CanRetry, MayRetry, DependenciesCompleted
  <2>4. CASE u \notin S
    BY <1>0, <2>1, <2>2, <2>4 DEF Flow, Live
  <2> QED
    BY <2>3, <2>4
<1>2. ASSUME NEW t \in Task, RunTask(t) PROVE Flow(u)'
  <2>1. /\ stage[t] \in Working /\ Live(t)
        /\ \A d \in env.deps[t] : status[d] = "completed"
        /\ env' = env
    BY <1>2, PromiseFrame DEF Flow, Working
  <2>2. \A d \in Task : status[d] = "completed" => status'[d] = "completed"
    BY <1>2, <2>1, PromiseFrame DEF Live
  <2>3. CASE u # t
    <3>1. /\ stage'[u] = stage[u] /\ status'[u] = status[u]
          /\ retries'[u] = retries[u] /\ fatal'[u] = fatal[u]
      BY <1>2, <2>3, PromiseFrame DEF TypeOK
    <3> QED
      BY <1>0, <2>1, <2>2, <3>1 DEF Flow, Live
  <2>4. CASE u = t
    <3>1. \A d \in env'.deps[u] : status'[d] = "completed"
      BY <1>0, <2>1, <2>2, <2>4
    <3>2. stage'[u] \in Working => Live(u)'
      <4> USE <1>0, <2>1, <2>4 DEF Dependable, TypeOK, Live, Working
      <4>1. CASE Begin(t)
        BY <4>1 DEF Begin, Update, Store, Goto
      <4>2. CASE Execute(t)
        BY <4>2 DEF Execute
      <4>3. CASE Complete(t)
        BY <4>3 DEF Complete, Update, Store, Goto
      <4>4. CASE Requeue(t)
        BY <4>4 DEF Requeue, Update, Store, Goto
      <4>5. CASE GiveUp(t)
        BY <4>5 DEF GiveUp, Update, Store, Goto
      <4>6. CASE HandleError(t)
        BY <4>6 DEF HandleError, Update, Store, Goto
      <4> QED
        BY <1>2, <4>1, <4>2, <4>3, <4>4, <4>5, <4>6 DEF RunTask
    <3> QED
      BY <3>1, <3>2 DEF Flow
  <2> QED
    BY <2>3, <2>4
<1>3. ASSUME NEW t \in Task, Collect(t) PROVE Flow(u)'
  <2>1. UNCHANGED <<status, retries, fatal, env>>
    BY <1>3 DEF Collect
  <2>2. stage'[u] \in {stage[u], "idle"}
    BY <1>3 DEF Collect, TypeOK
  <2> QED
    BY <1>0, <2>1, <2>2 DEF Flow, Live, Working
<1>4. CASE Crash
  BY <1>0, <1>4 DEF Crash, Flow, Live, Working
<1>5. CASE Check \/ FillThrows \/ (\E t \in Task : Reject(t)) \/ Stop \/ UNCHANGED vars
  <2>1. UNCHANGED <<status, retries, fatal, stage, env>>
    BY <1>5 DEF Check, FillThrows, Reject, Stop, vars
  <2> QED
    BY <1>0, <2>1 DEF Flow, Live
<1> QED
  BY <1>1, <1>2, <1>3, <1>4, <1>5 DEF Next, Loop

(***************************************************************************)
(* The loop returns with nothing left to do.                               *)
(***************************************************************************)
LEMMA LeftStep ==
    ASSUME IInv, [Next]_vars
    PROVE  NothingLeft'
<1> SUFFICES ASSUME Dependable', phase' = "returned", ~stopped', NEW t \in Task
             PROVE  \/ Settled(t)'
                    \/ status'[t] = "pending" /\ \E d \in env'.deps[t] : status'[d] # "completed"
  BY DEF NothingLeft
<1>1. CASE Check
  BY <1>1 DEF Check
<1>2. CASE Fill
  <2>1. PICK S \in Selections(Capacity) :
            phase' = IF S = {} /\ InFlight = {} THEN "returned" ELSE "race"
    BY <1>2 DEF Fill
  <2>2. UNCHANGED <<status, retries, fatal, env>>
    BY <1>2 DEF Fill
  <2>3. Capacity \in Nat /\ Capacity > 0
    BY <1>2, EnvType, FiniteFlight DEF IInv, Fill, Slots, Capacity
  <2>4. InFlight = {} /\ Eligible = {}
    BY <2>1, <2>3, SelectionFits
  <2>5. \/ status[t] \notin {"running", "pending"} /\ ~CanRetry(t)
        \/ \E d \in env.deps[t] : status[d] # "completed"
    BY <2>4 DEF Eligible, DependenciesCompleted
  <2>6. Flow(t)
    BY <2>2 DEF IInv, Dependable
  <2>7. retries[t] \in Nat /\ env.maxRetries[t] \in Nat /\ status[t] \in Status
    BY EnvType DEF IInv, TypeOK
  <2> QED
    BY <2>2, <2>5, <2>6, <2>7 DEF Flow, Settled, CanRetry, MayRetry, Status
<1>3. CASE FillThrows \/ (\E u \in Task : Collect(u) \/ Reject(u)) \/ Crash
  BY <1>3 DEF FillThrows, Collect, Reject, Crash
<1>4. ASSUME NEW u \in Task, RunTask(u) PROVE FALSE
  BY <1>4, PromiseFrame DEF IInv, Slots, InFlight, Working
<1>5. CASE Stop
  BY <1>5 DEF Stop
<1>6. CASE UNCHANGED vars
  BY <1>6 DEF vars, IInv, NothingLeft, Dependable, Settled
<1> QED
  BY <1>1, <1>2, <1>3, <1>4, <1>5, <1>6 DEF Next, Loop

LEMMA StepInv ==
    ASSUME IInv, [Next]_vars
    PROVE  IInv'
<1>1. env' = env
  <2>1. ASSUME NEW t \in Task, RunTask(t) PROVE env' = env
    BY <2>1, PromiseFrame DEF IInv
  <2> QED
    BY <2>1 DEF Next, Loop, Check, Fill, FillThrows, Collect, Reject, Stop, Crash, vars
<1>2. TypeOK' /\ Slots' /\ NothingLeft'
  BY TypeStep, SlotsStep, LeftStep DEF IInv
<1>3. \A t \in Task : Retry(t)'
  BY RetryStep DEF IInv
<1>4. Dependable' => \A t \in Task : Flow(t)'
  BY <1>1, FlowStep DEF IInv, Dependable
<1> QED
  BY <1>2, <1>3, <1>4 DEF IInv
-----------------------------------------------------------------------------
(***************************************************************************)
(* The invariant: in every environment, with restarts, stops and calls on  *)
(* the queue that fail.                                                    *)
(***************************************************************************)
THEOREM EngineInvariant == Spec => []IInv
<1>1. Init => IInv
  BY InitInv
<1>2. IInv /\ [Next]_vars => IInv'
  BY StepInv
<1> QED
  BY <1>1, <1>2, PTL DEF Spec

(***************************************************************************)
(* Every variable keeps its type.                                          *)
(***************************************************************************)
THEOREM TypeCorrect == Spec => []TypeOK
<1>1. IInv => TypeOK
  BY DEF IInv
<1> QED
  BY <1>1, EngineInvariant, PTL

(***************************************************************************)
(* A task is in flight only while all it depends on is completed.          *)
(***************************************************************************)
THEOREM DependenciesFirst == Spec => []DependenciesHold
<1>1. IInv => DependenciesHold
  BY DEF IInv, DependenciesHold, Flow, InFlight
<1> QED
  BY <1>1, EngineInvariant, PTL

(***************************************************************************)
(* Never more promises than max_parallel_tasks, for any number of tasks.   *)
(***************************************************************************)
THEOREM ParallelLimit == Spec => []WithinLimit
<1>1. IInv => WithinLimit
  BY DEF IInv, Slots, WithinLimit
<1> QED
  BY <1>1, EngineInvariant, PTL

(***************************************************************************)
(* retry_count stays within max_retries.                                   *)
(***************************************************************************)
THEOREM RetryLimit == Spec => []RetriesBounded
<1>1. IInv => RetriesBounded
  BY DEF IInv, Retry, Limit, RetriesBounded
<1> QED
  BY <1>1, EngineInvariant, PTL

(***************************************************************************)
(* execute() returns only when each task is settled or blocked.            *)
(***************************************************************************)
THEOREM Exhaustive == Spec => []NothingLeft
<1>1. IInv => NothingLeft
  BY DEF IInv
<1> QED
  BY <1>1, EngineInvariant, PTL

(***************************************************************************)
(* A settled task is never touched again: no promise works on one, and     *)
(* none is selected.                                                       *)
(***************************************************************************)
THEOREM SettledStay == Spec => SettledForGood
<1> DEFINE Stays ==
        Dependable => \A t \in Task : Settled(t) =>
            /\ status'[t] = status[t]
            /\ retries'[t] = retries[t]
            /\ stage[t] = "idle" => stage'[t] = "idle"
<1>1. IInv /\ [Next]_vars => [Stays]_vars
  <2> SUFFICES ASSUME IInv, Next, Dependable, NEW t \in Task, Settled(t)
               PROVE  /\ status'[t] = status[t]
                      /\ retries'[t] = retries[t]
                      /\ stage[t] = "idle" => stage'[t] = "idle"
    OBVIOUS
  <2>1. ~Live(t)
    BY EnvType DEF IInv, TypeOK, Settled, Live
  <2>2. stage[t] \notin Working
    BY <2>1 DEF IInv, Flow
  <2>3. CASE Fill
    <3>1. PICK S \in Selections(Capacity) :
              stage' = [u \in Task |-> IF u \in S THEN "begin" ELSE stage[u]]
      BY <2>3 DEF Fill
    <3>2. t \notin S
      BY <2>1 DEF Selections, Eligible, CanRetry, MayRetry, Live
    <3> QED
      BY <2>3, <3>1, <3>2 DEF Fill
  <2>4. ASSUME NEW u \in Task, RunTask(u)
        PROVE  /\ status'[t] = status[t] /\ retries'[t] = retries[t]
               /\ stage'[t] = stage[t]
    <3>1. stage[u] \in Working /\ u # t
      BY <2>2, <2>4, PromiseFrame DEF IInv
    <3> QED
      BY <2>4, <3>1, PromiseFrame DEF IInv, TypeOK
  <2>5. ASSUME NEW u \in Task, Collect(u)
        PROVE  /\ status'[t] = status[t] /\ retries'[t] = retries[t]
               /\ stage[t] = "idle" => stage'[t] = "idle"
    BY <2>5 DEF Collect, IInv, TypeOK
  <2>6. CASE Check \/ FillThrows \/ (\E u \in Task : Reject(u)) \/ Stop \/ Crash
    BY <2>6 DEF Check, FillThrows, Reject, Stop, Crash
  <2> QED
    BY <2>3, <2>4, <2>5, <2>6 DEF Next, Loop
<1> QED
  BY <1>1, EngineInvariant, PTL DEF Spec, SettledForGood
-----------------------------------------------------------------------------
(***************************************************************************)
(* The counts that execute() returns, in a process that neither dies nor   *)
(* sees a call on the queue throw.  What is counted are the tasks whose    *)
(* promise was collected: the completed ones exactly; the ones lost for    *)
(* good at least as often as a permanent failure was reported; and a lost  *)
(* one was reported somehow.  A failed task that is tried again leaves the *)
(* last set and enters it again with another report.                       *)
(***************************************************************************)
Buried(t) == status[t] \in {"failed", "skipped"} /\ ~Live(t)

Kept == {t \in Task : stage[t] = "idle" /\ status[t] = "completed"}
Graves == {t \in Task : stage[t] = "idle" /\ Buried(t)}
Losses == {t \in Task : stage[t] = "idle" /\ status[t] \in {"failed", "skipped"}}

\* What the result of a promise says of its task.
Reported(t) ==
    /\ stage[t] = "success" => status[t] = "completed"
    /\ status[t] = "completed" => stage[t] \in {"idle", "success"}
    /\ stage[t] = "permanent" => Buried(t)
    /\ stage[t] = "exhausted" => read[t] + 1 >= env.maxRetries[t]

TallyInv ==
    /\ \A t \in Task : Reported(t)
    /\ tally.completed = Cardinality(Kept)
    /\ tally.permanent <= Cardinality(Graves)
    /\ Cardinality(Losses) <= tally.permanent + tally.failed

Undisturbed == Dependable /\ "crash" \notin env.events

LEMMA FiniteCollected ==
    /\ IsFiniteSet(Kept) /\ Cardinality(Kept) \in Nat
    /\ IsFiniteSet(Graves) /\ Cardinality(Graves) \in Nat
    /\ IsFiniteSet(Losses) /\ Cardinality(Losses) \in Nat
<1>1. Kept \in SUBSET Task /\ Graves \in SUBSET Task /\ Losses \in SUBSET Task
  BY DEF Kept, Graves, Losses
<1> QED
  BY <1>1, EngineAssumption, FS_Subset, FS_CardinalityType

LEMMA TallyUnchanged ==
    ASSUME TallyInv, UNCHANGED <<status, retries, fatal, stage, read, tally, env>>
    PROVE  TallyInv'
<1>1. Kept' = Kept /\ Graves' = Graves /\ Losses' = Losses
  BY DEF Kept, Graves, Losses, Buried, Live
<1> QED
  BY <1>1 DEF TallyInv, Reported, Buried, Live

\* The tasks launched are not completed and not lost for good.
LEMMA TallyFill ==
    ASSUME TypeOK, TallyInv, Fill PROVE TallyInv'
<1>1. PICK S \in Selections(Capacity) :
        /\ stage' = [t \in Task |-> IF t \in S THEN "begin" ELSE stage[t]]
        /\ read' = [t \in Task |-> IF t \in S THEN retries[t] ELSE read[t]]
  BY DEF Fill
<1>2. UNCHANGED <<status, retries, fatal, tally, env>>
  BY DEF Fill
<1>3. \A t \in S : t \in Task /\ status[t] # "completed" /\ ~Buried(t)
  BY DEF Selections, Eligible, Buried, Live, CanRetry, MayRetry
<1>4. Kept' = Kept /\ Graves' = Graves /\ Losses' \subseteq Losses
  BY <1>1, <1>2, <1>3 DEF Kept, Graves, Losses, Buried, Live
<1>5. Cardinality(Losses') <= Cardinality(Losses) /\ Cardinality(Losses') \in Nat
  BY <1>4, FiniteCollected, FS_Subset, FS_CardinalityType
<1>6. \A t \in Task : Reported(t)'
  BY <1>1, <1>2, <1>3 DEF TallyInv, Reported, Buried, Live
<1>7. tally.permanent \in Nat /\ tally.failed \in Nat
  BY DEF TypeOK
<1>8. /\ tally'.completed = Cardinality(Kept') /\ tally'.permanent <= Cardinality(Graves')
      /\ Cardinality(Losses') <= tally'.permanent + tally'.failed
  BY <1>2, <1>4, <1>5, <1>7, FiniteCollected DEF TallyInv
<1> QED
  BY <1>6, <1>8 DEF TallyInv

\* One promise is collected: its task joins the sets that its report is for.
LEMMA TallyCollect ==
    ASSUME TypeOK, TallyInv, NEW t \in Task, Collect(t) PROVE TallyInv'
<1>1. /\ stage[t] \in Outcome /\ stage'[t] = "idle" /\ tally' = Counted(stage[t])
      /\ \A u \in Task \ {t} : stage'[u] = stage[u]
      /\ UNCHANGED <<status, retries, fatal, read, env>>
  BY DEF Collect, TypeOK
<1>2. Reported(t)
  BY DEF TallyInv
<1>3. \A u \in Task : Reported(u)'
  BY <1>1 DEF TallyInv, Reported, Buried, Live
<1>4. t \notin Kept /\ t \notin Graves /\ t \notin Losses
  BY <1>1 DEF Kept, Graves, Losses, Outcome
<1>5. /\ Kept' = IF status[t] = "completed" THEN Kept \cup {t} ELSE Kept
      /\ Graves' = IF Buried(t) THEN Graves \cup {t} ELSE Graves
      /\ Losses' = IF status[t] \in {"failed", "skipped"} THEN Losses \cup {t} ELSE Losses
  BY <1>1, <1>4 DEF Kept, Graves, Losses, Buried, Live
<1>6. /\ Cardinality(Kept') = Cardinality(Kept) + (IF status[t] = "completed" THEN 1 ELSE 0)
      /\ Cardinality(Graves') = Cardinality(Graves) + (IF Buried(t) THEN 1 ELSE 0)
      /\ Cardinality(Losses') =
            Cardinality(Losses) + (IF status[t] \in {"failed", "skipped"} THEN 1 ELSE 0)
  <2>1. \A S : IsFiniteSet(S) /\ Cardinality(S) \in Nat /\ t \notin S =>
            Cardinality(S \cup {t}) = Cardinality(S) + 1
    BY FS_AddElement
  <2>2. Cardinality(Kept') = Cardinality(Kept) + (IF status[t] = "completed" THEN 1 ELSE 0)
    BY <1>4, <1>5, <2>1, FiniteCollected
  <2>3. Cardinality(Graves') = Cardinality(Graves) + (IF Buried(t) THEN 1 ELSE 0)
    BY <1>4, <1>5, <2>1, FiniteCollected
  <2>4. Cardinality(Losses') =
            Cardinality(Losses) + (IF status[t] \in {"failed", "skipped"} THEN 1 ELSE 0)
    BY <1>4, <1>5, <2>1, FiniteCollected
  <2> QED
    BY <2>2, <2>3, <2>4
<1>7. tally.completed \in Nat /\ tally.permanent \in Nat /\ tally.failed \in Nat
  BY DEF TypeOK
<1>8. CASE stage[t] = "success"
  <2>1. /\ tally'.completed = tally.completed + 1
        /\ tally'.permanent = tally.permanent /\ tally'.failed = tally.failed
    BY <1>1, <1>8 DEF Counted, TypeOK
  <2>2. status[t] = "completed" /\ ~Buried(t)
    BY <1>2, <1>8 DEF Reported, Buried
  <2> QED
    BY <1>3, <1>6, <1>7, <2>1, <2>2, FiniteCollected DEF TallyInv
<1>9. CASE stage[t] = "permanent"
  <2>1. /\ tally'.permanent = tally.permanent + 1
        /\ tally'.completed = tally.completed /\ tally'.failed = tally.failed
    BY <1>1, <1>9 DEF Counted, TypeOK
  <2>2. Buried(t) /\ status[t] # "completed"
    BY <1>2, <1>9 DEF Reported, Buried
  <2> QED
    BY <1>3, <1>6, <1>7, <2>1, <2>2, FiniteCollected DEF TallyInv
<1>10. CASE stage[t] = "failed"
  <2>1. /\ tally'.failed = tally.failed + 1
        /\ tally'.completed = tally.completed /\ tally'.permanent = tally.permanent
    BY <1>1, <1>10 DEF Counted, TypeOK
  <2>2. status[t] # "completed"
    BY <1>2, <1>10 DEF Reported
  <2> QED
    BY <1>3, <1>6, <1>7, <2>1, <2>2, FiniteCollected DEF TallyInv
<1> QED
  BY <1>1, <1>8, <1>9, <1>10 DEF Outcome

\* A promise that works belongs to none of the sets; its last update decides its report.
LEMMA TallyRunTask ==
    ASSUME IInv, Dependable, TallyInv, NEW t \in Task, RunTask(t) PROVE TallyInv'
<1>1. /\ stage[t] \in Working /\ stage'[t] # "idle" /\ stage'[t] # "begin"
      /\ \A u \in Task \ {t} : /\ stage'[u] = stage[u] /\ status'[u] = status[u]
                              /\ retries'[u] = retries[u] /\ fatal'[u] = fatal[u]
      /\ UNCHANGED <<read, tally, env>>
  BY PromiseFrame DEF IInv, TypeOK, Working, Outcome
<1>2. Kept' = Kept /\ Graves' = Graves /\ Losses' = Losses
  BY <1>1 DEF Kept, Graves, Losses, Buried, Live, Working
<1>3. ASSUME NEW u \in Task \ {t} PROVE Reported(u)'
  BY <1>1 DEF TallyInv, Reported, Buried, Live
<1>4. Reported(t)'
  <2>1. Reported(t) /\ status[t] # "completed"
    BY <1>1 DEF TallyInv, Reported, Working
  <2>2. read[t] \in Nat /\ env.maxRetries[t] \in Nat
    BY EnvType DEF IInv, TypeOK
  <2> USE <1>1, <2>1, <2>2 DEF IInv, Dependable, TypeOK, Reported, Buried, Live
  <2>3. CASE Begin(t)
    BY <2>3 DEF Begin, Update, Store, Goto
  <2>4. CASE Execute(t)
    <3>1. UNCHANGED <<status, retries, fatal>>
      BY <2>4 DEF Execute
    <3>2. stage'[t] \in {"complete", "error", "retry", "exhausted", "fatal"}
      BY <2>4 DEF Execute, Goto
    <3>3. stage'[t] = "exhausted" => ~(read[t] + 1 < env.maxRetries[t])
      BY <2>4 DEF Execute, Goto, MayRetry
    <3> QED
      BY <3>1, <3>2, <3>3
  <2>5. CASE Complete(t)
    BY <2>5 DEF Complete, Update, Store, Goto
  <2>6. CASE Requeue(t)
    BY <2>6 DEF Requeue, Update, Store, Goto
  <2>7. CASE GiveUp(t)
    <3>1. /\ status'[t] = "failed" /\ retries'[t] = read[t] + 1
          /\ fatal'[t] = (stage[t] = "fatal") /\ stage'[t] = "permanent"
      BY <2>7 DEF GiveUp, Update, Store, Goto
    <3>2. stage[t] = "fatal" \/ read[t] + 1 >= env.maxRetries[t]
      BY <2>7 DEF GiveUp
    <3>3. CASE stage[t] = "fatal"
      <4>1. fatal'[t] = TRUE
        BY <3>1, <3>3
      <4> QED
        BY <3>1, <4>1
    <3>4. CASE read[t] + 1 >= env.maxRetries[t]
      <4>1. ~(retries'[t] < env.maxRetries[t])
        BY <3>1, <3>4
      <4> QED
        BY <3>1, <4>1
    <3> QED
      BY <3>2, <3>3, <3>4
  <2>8. CASE HandleError(t)
    BY <2>8 DEF HandleError, Update, Store, Goto
  <2> QED
    BY <2>3, <2>4, <2>5, <2>6, <2>7, <2>8 DEF RunTask
<1> QED
  BY <1>1, <1>2, <1>3, <1>4 DEF TallyInv

LEMMA TallyStep ==
    ASSUME IInv, Undisturbed, TallyInv, [Next]_vars PROVE TallyInv'
<1>1. CASE Fill
  BY <1>1, TallyFill DEF IInv
<1>2. ASSUME NEW t \in Task, Collect(t) PROVE TallyInv'
  BY <1>2, TallyCollect DEF IInv
<1>3. ASSUME NEW t \in Task, RunTask(t) PROVE TallyInv'
  BY <1>3, TallyRunTask DEF Undisturbed
<1>4. CASE Check \/ FillThrows \/ (\E t \in Task : Reject(t)) \/ Stop \/ UNCHANGED vars
  <2>1. UNCHANGED <<status, retries, fatal, stage, read, tally, env>>
    BY <1>4 DEF Check, FillThrows, Reject, Stop, vars
  <2> QED
    BY <2>1, TallyUnchanged
<1>5. CASE Crash
  BY <1>5 DEF Crash, Undisturbed
<1> QED
  BY <1>1, <1>2, <1>3, <1>4, <1>5 DEF Next, Loop

(***************************************************************************)
(* For every queue: what execute() says it did is what the queue shows.    *)
(***************************************************************************)
THEOREM TallyTrue == Spec => []TallyAccurate
<1> DEFINE Inv == Undisturbed => TallyInv
<1>1. Init => Inv
  <2>1. ASSUME Init PROVE TallyInv
    <3>1. Kept = {} /\ Graves = {} /\ Losses = {}
      BY <2>1 DEF Init, Kept, Graves, Losses, Buried
    <3>2. Cardinality({}) = 0
      BY FS_EmptySet
    <3> QED
      BY <2>1, <3>1, <3>2 DEF Init, NoTally, TallyInv, Reported
  <2> QED
    BY <2>1
<1>2. IInv /\ Inv /\ [Next]_vars => Inv'
  <2>1. ASSUME IInv, [Next]_vars PROVE env' = env
    <3>1. ASSUME NEW t \in Task, RunTask(t) PROVE env' = env
      BY <2>1, <3>1, PromiseFrame DEF IInv
    <3> QED
      BY <2>1, <3>1 DEF Next, Loop, Check, Fill, FillThrows, Collect, Reject, Stop, Crash, vars
  <2> QED
    BY <2>1, TallyStep DEF Undisturbed, Dependable
<1>3. IInv /\ Inv => TallyAccurate
  <2> DEFINE Lost == {t \in Task : status[t] \in {"failed", "skipped"}}
             Done == {t \in Task : status[t] = "completed"}
  <2> SUFFICES ASSUME IInv, TallyInv, phase = "returned"
               PROVE  /\ tally.completed = Cardinality(Done)
                      /\ tally.permanent <= Cardinality(Lost)
                      /\ Cardinality(Lost) <= tally.permanent + tally.failed
    BY DEF TallyAccurate, Undisturbed
  <2>1. \A t \in Task : stage[t] = "idle"
    BY DEF IInv, Slots, InFlight
  <2>2. Done = Kept /\ Lost = Losses /\ Graves \subseteq Losses
    BY <2>1 DEF Kept, Losses, Graves, Buried
  <2>3. Cardinality(Graves) <= Cardinality(Losses)
    BY <2>2, FiniteCollected, FS_Subset
  <2>4. tally.permanent \in Nat
    BY DEF IInv, TypeOK
  <2> QED
    BY <2>2, <2>3, <2>4, FiniteCollected DEF TallyInv
<1> QED
  BY <1>1, <1>2, <1>3, EngineInvariant, PTL DEF Spec
=============================================================================
