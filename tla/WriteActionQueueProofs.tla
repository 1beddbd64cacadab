----------------------- MODULE WriteActionQueueProofs -----------------------
(***************************************************************************)
(* What holds of WriteActionQueue for any processes, number of actions,    *)
(* keys, limits and environments.                                          *)
(*                                                                         *)
(* Work relates where a process is to what it works on and to the lock.    *)
(* Kept says that contents about to be saved lack only actions that are    *)
(* settled; nobody else can change the queue in the meantime.  Unspent     *)
(* says that whatever may still be executed has not been, which needs a    *)
(* process that has the queue for itself: drain() reads its plan without   *)
(* the lock.  Counting says what the holder of the lock still owes to the  *)
(* manifest, whose counts are changed by increments after the queue.       *)
(***************************************************************************)
EXTENDS WriteActionQueue, FiniteSetTheorems, TLAPS

OnAction == {"in_progress", "completed", "retry", "failed"}

Work ==
    \A p \in Process :
        /\ pc[p] \in Locked => lock = p
        /\ pc[p] \in {"update", "save"} => goal[p] \in OnAction \cup {"clear"}
        /\ pc[p] = "count" => goal[p] \in OnAction \cup {"enqueue"}
        /\ pc[p] = "run" => goal[p] = "in_progress"
        /\ pc[p] \in Locked /\ goal[p] \in OnAction => at[p] \in Action

Kept ==
    \A p \in Process : pc[p] = "save" =>
        \A i \in Id : queue[i].status # "missing" /\ copy[p][i].status = "missing" =>
            queue[i].status \in Settled

-----------------------------------------------------------------------------
LEMMA NothingTyped == Nothing \in [Status -> -1..1] /\ EmptyQueue \in Queue
  BY DEF Nothing, EmptyQueue, Queue, Entry

\* The contents that an update saves are a queue, and the deltas are small.
LEMMA ChangedTyped ==
    ASSUME TypeOK, NEW p \in Process, goal[p] \in OnAction \cup {"clear"}
    PROVE  Changed(p) \in Queue
<1>1. CASE goal[p] = "clear"
  <2>1. Changed(p) = Cleared
    BY <1>1 DEF Changed
  <2>2. \A i \in Id : queue[i] \in Entry /\ EmptyQueue[i] \in Entry
    BY NothingTyped DEF TypeOK, Queue
  <2> QED
    BY <2>1, <2>2 DEF Cleared, Queue
<1>2. CASE goal[p] = "retry"
  <2>1. at[p].id \in Id => queue[at[p].id].retries + 1 \in Nat
    BY DEF TypeOK, Queue, Entry
  <2>2. at[p].id \in Id =>
            [status |-> "pending", retries |-> queue[at[p].id].retries + 1] \in Entry
    BY <2>1 DEF Entry, Status
  <2>3. Changed(p) = [queue EXCEPT ![at[p].id] =
                        [status |-> "pending", retries |-> queue[at[p].id].retries + 1]]
    BY <1>2 DEF Changed
  <2> QED
    BY <2>2, <2>3 DEF TypeOK, Queue
<1>3. CASE goal[p] \in {"in_progress", "completed", "failed"}
  <2> DEFINE e == [queue[at[p].id] EXCEPT !.status = goal[p]]
  <2>1. goal[p] \in Status
    BY <1>3 DEF Status
  <2>2. ASSUME at[p].id \in Id PROVE e \in Entry
    <3>1. queue[at[p].id] \in Entry
      BY <2>2 DEF TypeOK, Queue
    <3> QED
      BY <2>1, <3>1 DEF Entry
  <2>3. Changed(p) = [queue EXCEPT ![at[p].id] = e]
    BY <1>3 DEF Changed
  <2> HIDE DEF e
  <2> QED
    BY <2>2, <2>3 DEF TypeOK, Queue
<1> QED
  BY <1>1, <1>2, <1>3 DEF OnAction

LEMMA DeltaTyped ==
    \A from, to : Delta(from, to) \in [Status -> -1..1]
  BY DEF Delta

LEMMA TornTyped ==
    ASSUME NEW contents \in Queue, NEW n \in Nat
    PROVE  Torn(contents, n) \in Queue
  BY DEF Torn, Queue, Entry, EmptyQueue, Id

LEMMA EffectsTyped ==
    ASSUME TypeOK, NEW k
    PROVE  [effects EXCEPT ![k] = @ + 1] \in [Id -> Nat]
<1>1. k \in Id => effects[k] + 1 \in Nat
  BY DEF TypeOK
<1> QED
  BY <1>1 DEF TypeOK

LEMMA ReadableTyped ==
    ASSUME TypeOK, NEW contents \in Readable
    PROVE  contents \in Queue
<1>1. CASE contents = queue
  BY <1>1 DEF TypeOK
<1>2. CASE \E q \in Process, n \in 0..MaxActions : contents = Torn(copy[q], n)
  BY <1>2, TornTyped, WriteActionAssumption DEF TypeOK
<1> QED
  BY <1>1, <1>2 DEF Readable

LEMMA InitInv == ASSUME Init PROVE TypeOK /\ Work /\ Kept
<1>1. TypeOK
  BY NothingTyped, WriteActionAssumption DEF Init, TypeOK, NoAction, Goal, Nothing, Status
<1> QED
  BY <1>1 DEF Init, Work, Kept, Locked

\* How a call ends, or an action that has thrown goes on.
LEMMA ReleaseTyped ==
    ASSUME TypeOK, NEW p \in Process, Release(p)
    PROVE  /\ lock' \in Process \cup {Nobody}
           /\ pc' \in [Process -> {"idle", "check", "clear", "load", "next"} \cup Locked]
           /\ at' \in [Process -> Action \cup {NoAction}]
           /\ goal' \in [Process -> Goal]
  BY DEF Release, TypeOK, Goto, Goal

LEMMA FailureTyped ==
    ASSUME TypeOK, NEW p \in Process, Failure(p)
    PROVE  /\ goal' \in [Process -> Goal]
           /\ pc' \in [Process -> {"idle", "check", "clear", "load", "next"} \cup Locked]
<1>1. CASE Plan(p, "retry")
  BY <1>1 DEF Plan, Goto, TypeOK, Goal, Locked
<1>2. CASE Plan(p, "failed")
  BY <1>2 DEF Plan, Goto, TypeOK, Goal, Locked
<1> QED
  BY <1>1, <1>2 DEF Failure

LEMMA ThrowTyped ==
    ASSUME TypeOK, NEW p \in Process, Throw(p)
    PROVE  /\ lock' \in Process \cup {Nobody}
           /\ pc' \in [Process -> {"idle", "check", "clear", "load", "next"} \cup Locked]
           /\ at' \in [Process -> Action \cup {NoAction}]
           /\ goal' \in [Process -> Goal]
<1>1. CASE Release(p)
  BY <1>1, ReleaseTyped
<1>2. CASE Failure(p) /\ UNCHANGED <<lock, at>>
  BY <1>2, FailureTyped DEF TypeOK
<1> QED
  BY <1>1, <1>2 DEF Throw

LEMMA TypeStep ==
    ASSUME TypeOK, Work, [Next]_vars PROVE TypeOK'
<1> USE WriteActionAssumption
<1>1. ASSUME NEW p \in Process, Enqueue(p) PROVE TypeOK'
  <2>1. queue' \in Queue
    BY <1>1 DEF Enqueue, TypeOK, Queue, Entry, Status
  <2>2. owed' \in [Process -> [Status -> -1..1]]
    BY <1>1, NothingTyped DEF Enqueue, TypeOK, Status
  <2>3. created' \in 0..MaxActions
    BY <1>1 DEF Enqueue, TypeOK
  <2>4. goal' \in [Process -> Goal]
        /\ pc' \in [Process -> {"idle", "check", "clear", "load", "next"} \cup Locked]
    BY <1>1 DEF Enqueue, TypeOK, Goal, Goto, Locked
  <2> QED
    BY <1>1, <2>1, <2>2, <2>3, <2>4 DEF Enqueue, TypeOK
<1>2. ASSUME NEW p \in Process, ClearCompleted(p) PROVE TypeOK'
  BY <1>2 DEF ClearCompleted, TypeOK, Plan, Goto, Goal, Locked
<1>3. ASSUME NEW p \in Process, Drain(p) PROVE TypeOK'
  BY <1>3 DEF Drain, TypeOK, Goto
<1>4. ASSUME NEW p \in Process, CheckCooldown(p) PROVE TypeOK'
  BY <1>4 DEF CheckCooldown, TypeOK, Goto
<1>5. ASSUME NEW p \in Process, ClearCooldown(p) PROVE TypeOK'
  BY <1>5 DEF ClearCooldown, TypeOK, Goto
<1>6. ASSUME NEW p \in Process, Load(p) PROVE TypeOK'
  <2>1. PICK contents \in Readable :
            /\ plan' = [plan EXCEPT ![p] =
                    {[id |-> i, retries |-> contents[i].retries] : i \in Select(contents)}]
            /\ Goto(p, IF Select(contents) = {} THEN "idle" ELSE "next")
    BY <1>6 DEF Load
  <2>2. {[id |-> i, retries |-> contents[i].retries] : i \in Select(contents)}
            \in SUBSET Action
    <3>1. \A i \in Id : contents[i].retries \in Nat
      BY ReadableTyped DEF Queue, Entry
    <3>2. Select(contents) \subseteq Id
      BY DEF Select
    <3> QED
      BY <3>1, <3>2 DEF Action
  <2> QED
    BY <1>6, <2>1, <2>2 DEF Load, TypeOK, Goto
<1>7. ASSUME NEW p \in Process, Take(p) PROVE TypeOK'
  <2>1. PICK a \in plan[p] :
            at' = [at EXCEPT ![p] = a] /\ plan' = [plan EXCEPT ![p] = @ \ {a}]
    BY <1>7 DEF Take, First
  <2>2. a \in Action /\ plan[p] \ {a} \in SUBSET Action
    BY DEF TypeOK
  <2> QED
    BY <1>7, <2>1, <2>2 DEF Take, TypeOK, Plan, Goto, Goal, Locked
<1>8. ASSUME NEW p \in Process, Update(p) PROVE TypeOK'
  <2>1. CASE Throw(p) /\ UNCHANGED <<copy, owed>>
    BY <1>8, <2>1, ThrowTyped DEF Update, TypeOK
  <2>2. CASE /\ copy' = [copy EXCEPT ![p] = Changed(p)]
             /\ owed' = [owed EXCEPT ![p] =
                    IF goal[p] = "clear" THEN Nothing
                    ELSE Delta(queue[at[p].id].status, Changed(p)[at[p].id].status)]
             /\ Goto(p, "save")
             /\ UNCHANGED <<lock, at, goal>>
    <3>1. Changed(p) \in Queue
      BY <1>8, ChangedTyped DEF Update, Work
    <3>2. copy' \in [Process -> Queue]
      BY <2>2, <3>1 DEF TypeOK
    <3>3. owed' \in [Process -> [Status -> -1..1]]
      BY <2>2, DeltaTyped, NothingTyped DEF TypeOK
    <3>4. pc' \in [Process -> {"idle", "check", "clear", "load", "next"} \cup Locked]
      BY <2>2 DEF TypeOK, Goto, Locked
    <3> QED
      BY <1>8, <2>2, <3>2, <3>3, <3>4 DEF Update, TypeOK
  <2> QED
    BY <1>8, <2>1, <2>2 DEF Update
<1>9. ASSUME NEW p \in Process, Save(p) PROVE TypeOK'
  <2>1. queue' \in Queue /\ copy' \in [Process -> Queue]
    BY <1>9, NothingTyped DEF Save, TypeOK
  <2>2. CASE Release(p)
    BY <1>9, <2>1, <2>2, ReleaseTyped DEF Save, TypeOK
  <2>3. CASE Goto(p, "count") /\ UNCHANGED <<lock, at, goal>>
    BY <1>9, <2>1, <2>3 DEF Save, TypeOK, Goto, Locked
  <2> QED
    BY <1>9, <2>2, <2>3 DEF Save
<1>10. ASSUME NEW p \in Process, Count(p) PROVE TypeOK'
  <2>1. counts' \in [Status -> Nat]
    BY <1>10 DEF Count, TypeOK
  <2>2. owed' \in [Process -> [Status -> -1..1]]
    BY <1>10, NothingTyped DEF Count, TypeOK
  <2>3. CASE Release(p)
    BY <1>10, <2>1, <2>2, <2>3, ReleaseTyped DEF Count, TypeOK
  <2>4. CASE Goto(p, "run") /\ UNCHANGED <<lock, at, goal>>
    BY <1>10, <2>1, <2>2, <2>4 DEF Count, TypeOK, Goto, Locked
  <2> QED
    BY <1>10, <2>3, <2>4 DEF Count
<1>11. ASSUME NEW p \in Process, CountThrows(p) PROVE TypeOK'
  <2>1. owed' \in [Process -> [Status -> -1..1]]
    BY <1>11, NothingTyped DEF CountThrows, TypeOK
  <2>2. Throw(p)
    BY <1>11 DEF CountThrows
  <2> QED
    BY <1>11, <2>1, <2>2, ThrowTyped DEF CountThrows, TypeOK
<1>12. ASSUME NEW p \in Process, Succeed(p) PROVE TypeOK'
  <2>1. effects' \in [Id -> Nat] /\ cooldown' \in {"none", "active", "over"}
    BY <1>12, EffectsTyped DEF Succeed, RecordEnvelope
  <2> QED
    BY <1>12, <2>1 DEF Succeed, TypeOK, Plan, Goto, Goal, Locked
<1>13. ASSUME NEW p \in Process, Fail(p) PROVE TypeOK'
  <2>1. cooldown' \in {"none", "active", "over"}
    BY <1>13 DEF Fail, RecordEnvelope, TypeOK
  <2>2. /\ goal' \in [Process -> Goal]
        /\ pc' \in [Process -> {"idle", "check", "clear", "load", "next"} \cup Locked]
    BY <1>13, FailureTyped DEF Fail
  <2> QED
    BY <1>13, <2>1, <2>2 DEF Fail, TypeOK
<1>14. ASSUME NEW p \in Process, LoseAnswer(p) PROVE TypeOK'
  <2>1. effects' \in [Id -> Nat]
    BY <1>14, EffectsTyped DEF LoseAnswer
  <2>2. /\ goal' \in [Process -> Goal]
        /\ pc' \in [Process -> {"idle", "check", "clear", "load", "next"} \cup Locked]
    BY <1>14, FailureTyped DEF LoseAnswer
  <2> QED
    BY <1>14, <2>1, <2>2 DEF LoseAnswer, TypeOK
<1>15. ASSUME NEW p \in Process, Crash(p) PROVE TypeOK'
  <2>1. queue' \in Queue
    BY <1>15, TornTyped DEF Crash, TypeOK
  <2>2. copy' \in [Process -> Queue] /\ owed' \in [Process -> [Status -> -1..1]]
    BY <1>15, NothingTyped DEF Crash, TypeOK
  <2> QED
    BY <1>15, <2>1, <2>2 DEF Crash, TypeOK, Goto, Goal
<1>16. ASSUME Expire PROVE TypeOK'
  BY <1>16 DEF Expire, TypeOK
<1>17. ASSUME NEW p \in Process, GiveUp(p) PROVE TypeOK'
  <2>1. PICK a \in plan[p] :
            /\ plan' = [plan EXCEPT ![p] = @ \ {a}]
            /\ Goto(p, IF plan[p] = {a} THEN "idle" ELSE "next")
    BY <1>17 DEF GiveUp, First
  <2>2. plan[p] \ {a} \in SUBSET Action
    BY DEF TypeOK
  <2> QED
    BY <1>17, <2>1, <2>2 DEF GiveUp, TypeOK, Goto
<1>18. ASSUME UNCHANGED vars PROVE TypeOK'
  BY <1>18 DEF vars, TypeOK
<1> QED
  BY <1>1, <1>2, <1>3, <1>4, <1>5, <1>6, <1>7, <1>8, <1>9, <1>10, <1>11, <1>12, <1>13, <1>14,
     <1>15, <1>16, <1>17, <1>18 DEF Next, Step

-----------------------------------------------------------------------------
LEMMA WorkStep ==
    ASSUME TypeOK, Work, [Next]_vars PROVE Work'
<1> USE WriteActionAssumption DEF Work, Locked, OnAction
<1>1. ASSUME NEW p \in Process, Enqueue(p) PROVE Work'
  BY <1>1 DEF Enqueue, TypeOK, Goto
<1>2. ASSUME NEW p \in Process, ClearCompleted(p) PROVE Work'
  BY <1>2 DEF ClearCompleted, TypeOK, Plan, Goto
<1>3. ASSUME NEW p \in Process, Drain(p) PROVE Work'
  BY <1>3 DEF Drain, TypeOK, Goto
<1>4. ASSUME NEW p \in Process, CheckCooldown(p) PROVE Work'
  BY <1>4 DEF CheckCooldown, TypeOK, Goto
<1>5. ASSUME NEW p \in Process, ClearCooldown(p) PROVE Work'
  BY <1>5 DEF ClearCooldown, TypeOK, Goto
<1>6. ASSUME NEW p \in Process, Load(p) PROVE Work'
  BY <1>6 DEF Load, TypeOK, Goto
<1>7. ASSUME NEW p \in Process, Take(p) PROVE Work'
  BY <1>7 DEF Take, TypeOK, Plan, Goto, Free, First
<1>8. ASSUME NEW p \in Process, Update(p) PROVE Work'
  <2>1. CASE Throw(p) /\ goal[p] # "clear"
    BY <1>8, <2>1 DEF Update, TypeOK, Throw, Failure, Release, Plan, Goto
  <2>2. CASE Goto(p, "save") /\ UNCHANGED <<lock, at, goal>>
    BY <1>8, <2>2 DEF Update, TypeOK, Goto
  <2> QED
    BY <1>8, <2>1, <2>2 DEF Update
<1>9. ASSUME NEW p \in Process, Save(p) PROVE Work'
  BY <1>9 DEF Save, TypeOK, Release, Goto
<1>10. ASSUME NEW p \in Process, Count(p) PROVE Work'
  BY <1>10 DEF Count, TypeOK, Release, Goto
<1>11. ASSUME NEW p \in Process, CountThrows(p) PROVE Work'
  BY <1>11 DEF CountThrows, TypeOK, Throw, Failure, Release, Plan, Goto
<1>12. ASSUME NEW p \in Process, Succeed(p) PROVE Work'
  BY <1>12 DEF Succeed, TypeOK, Plan, Goto
<1>13. ASSUME NEW p \in Process, Fail(p) PROVE Work'
  BY <1>13 DEF Fail, TypeOK, Failure, Plan, Goto
<1>14. ASSUME NEW p \in Process, LoseAnswer(p) PROVE Work'
  BY <1>14 DEF LoseAnswer, TypeOK, Failure, Plan, Goto
<1>15. ASSUME NEW p \in Process, Crash(p) PROVE Work'
  BY <1>15 DEF Crash, TypeOK, Goto
<1>16. ASSUME Expire PROVE Work'
  BY <1>16 DEF Expire
<1>17. ASSUME NEW p \in Process, GiveUp(p) PROVE Work'
  BY <1>17 DEF GiveUp, TypeOK, Goto
<1>18. ASSUME UNCHANGED vars PROVE Work'
  BY <1>18 DEF vars
<1> QED
  BY <1>1, <1>2, <1>3, <1>4, <1>5, <1>6, <1>7, <1>8, <1>9, <1>10, <1>11, <1>12, <1>13, <1>14,
     <1>15, <1>16, <1>17, <1>18 DEF Next, Step

(***************************************************************************)
(* Only Update begins to save contents, which lack what was cleared; only  *)
(* Enqueue, Save and Crash change the queue, and the first two need the    *)
(* lock.                                                                   *)
(***************************************************************************)
LEMMA ChangedKeeps ==
    ASSUME TypeOK, NEW p \in Process, goal[p] \in OnAction \cup {"clear"}, NEW i \in Id,
           queue[i].status # "missing", Changed(p)[i].status = "missing"
    PROVE  queue[i].status \in Settled
<1>1. CASE goal[p] = "clear"
  BY <1>1 DEF Changed, Cleared
<1>2. CASE goal[p] = "retry"
  <2>1. Changed(p) = [queue EXCEPT ![at[p].id] =
                        [status |-> "pending", retries |-> queue[at[p].id].retries + 1]]
    BY <1>2 DEF Changed
  <2>2. Changed(p)[i].status \in {"pending", queue[i].status}
    BY <2>1 DEF TypeOK, Queue
  <2> QED
    BY <2>2
<1>3. CASE goal[p] \in {"in_progress", "completed", "failed"}
  <2>1. Changed(p) = [queue EXCEPT ![at[p].id].status = goal[p]]
    BY <1>3 DEF Changed
  <2>2. Changed(p)[i].status \in {goal[p], queue[i].status}
    BY <2>1 DEF TypeOK, Queue, Entry
  <2> QED
    BY <1>3, <2>2
<1> QED
  BY <1>1, <1>2, <1>3 DEF OnAction

LEMMA KeptUnchanged ==
    ASSUME TypeOK, Kept, UNCHANGED <<queue, copy>>,
           \A q \in Process : pc'[q] = "save" => pc[q] = "save"
    PROVE  Kept'
  BY DEF Kept

LEMMA KeptStep ==
    ASSUME TypeOK, Work, Kept, [Next]_vars PROVE Kept'
<1>1. ASSUME NEW p \in Process, Update(p) PROVE Kept'
  <2>1. CASE Throw(p) /\ UNCHANGED copy
    <3>1. UNCHANGED queue /\ \A q \in Process : pc'[q] = "save" => pc[q] = "save"
      BY <1>1, <2>1 DEF Update, Throw, Failure, Release, Plan, Goto, TypeOK
    <3> QED
      BY <2>1, <3>1, KeptUnchanged
  <2>2. CASE copy' = [copy EXCEPT ![p] = Changed(p)] /\ Goto(p, "save")
    <3>1. goal[p] \in OnAction \cup {"clear"} /\ UNCHANGED queue
      BY <1>1 DEF Update, Work
    <3>2. \A i \in Id : queue[i].status # "missing" /\ Changed(p)[i].status = "missing" =>
              queue[i].status \in Settled
      BY <3>1, ChangedKeeps
    <3>3. /\ copy'[p] = Changed(p)
          /\ \A q \in Process : q # p => copy'[q] = copy[q] /\ pc'[q] = pc[q]
      BY <2>2 DEF Goto, TypeOK
    <3> QED
      BY <3>1, <3>2, <3>3 DEF Kept
  <2> QED
    BY <1>1, <2>1, <2>2 DEF Update
<1>2. ASSUME NEW p \in Process, Save(p) PROVE Kept'
  BY <1>2 DEF Kept, Save, Work, Locked, Release, Goto, TypeOK
<1>3. ASSUME NEW p \in Process, Enqueue(p) PROVE Kept'
  BY <1>3, WriteActionAssumption DEF Kept, Enqueue, Work, Locked, Goto, TypeOK
<1>4. ASSUME NEW p \in Process, Crash(p) PROVE Kept'
  <2>1. CASE UNCHANGED queue
    BY <1>4, <2>1 DEF Kept, Crash, Goto, TypeOK
  <2>2. CASE pc[p] = "save"
    BY <1>4, <2>2 DEF Kept, Crash, Work, Locked, Goto, TypeOK
  <2> QED
    BY <1>4, <2>1, <2>2 DEF Crash
<1>5. ASSUME NEW p \in Process,
             ClearCompleted(p) \/ Drain(p) \/ CheckCooldown(p) \/ ClearCooldown(p) \/ Load(p)
      PROVE  Kept'
  <2>1. UNCHANGED <<queue, copy>> /\ \A q \in Process : pc'[q] = "save" => pc[q] = "save"
    BY <1>5 DEF ClearCompleted, Drain, CheckCooldown, ClearCooldown, Load, Plan, Goto, TypeOK
  <2> QED
    BY <2>1, KeptUnchanged
<1>6. ASSUME NEW p \in Process, Take(p) \/ GiveUp(p) \/ Count(p) \/ CountThrows(p)
      PROVE  Kept'
  <2>1. UNCHANGED <<queue, copy>> /\ \A q \in Process : pc'[q] = "save" => pc[q] = "save"
    BY <1>6 DEF Take, GiveUp, Count, CountThrows, Throw, Failure, Release, Plan, Goto, TypeOK
  <2> QED
    BY <2>1, KeptUnchanged
<1>7. ASSUME NEW p \in Process, Succeed(p) \/ Fail(p) \/ LoseAnswer(p) PROVE Kept'
  <2>1. UNCHANGED <<queue, copy>> /\ \A q \in Process : pc'[q] = "save" => pc[q] = "save"
    BY <1>7 DEF Succeed, Fail, LoseAnswer, Failure, Plan, Goto, TypeOK
  <2> QED
    BY <2>1, KeptUnchanged
<1>8. ASSUME Expire \/ UNCHANGED vars PROVE Kept'
  BY <1>8 DEF Expire, vars, Kept
<1> QED
  BY <1>1, <1>2, <1>3, <1>4, <1>5, <1>6, <1>7, <1>8 DEF Next, Step

(***************************************************************************)
(* Every variable keeps its type, in every environment.                    *)
(***************************************************************************)
THEOREM TypeCorrect == Spec => []TypeOK
<1>1. Init => TypeOK /\ Work
  BY InitInv
<1>2. TypeOK /\ Work /\ [Next]_vars => (TypeOK /\ Work)'
  BY TypeStep, WorkStep
<1> QED
  BY <1>1, <1>2, PTL DEF Spec

\* Saving is the only step that forgets, and it forgets what was settled.
LEMMA ForgetsSettled ==
    ASSUME TypeOK, Kept, [Next]_vars, Without({"torn"}), NEW i \in Id,
           queue[i].status # "missing", queue'[i].status = "missing"
    PROVE  queue[i].status \in Settled
<1>1. ASSUME NEW p \in Process, Save(p) PROVE queue[i].status \in Settled
  BY <1>1 DEF Kept, Save
<1>2. ASSUME NEW p \in Process, Enqueue(p) PROVE FALSE
  BY <1>2 DEF Enqueue, TypeOK, Queue
<1>3. ASSUME NEW p \in Process, Crash(p) PROVE FALSE
  BY <1>3 DEF Crash, Without
<1>4. ASSUME NEW p \in Process,
             ClearCompleted(p) \/ Drain(p) \/ CheckCooldown(p) \/ ClearCooldown(p) \/ Load(p)
      PROVE  FALSE
  BY <1>4 DEF ClearCompleted, Drain, CheckCooldown, ClearCooldown, Load
<1>5. ASSUME NEW p \in Process,
             Take(p) \/ GiveUp(p) \/ Update(p) \/ Count(p) \/ CountThrows(p) \/ Succeed(p) \/ Fail(p)
                \/ LoseAnswer(p)
      PROVE  FALSE
  BY <1>5 DEF Take, GiveUp, Update, Count, CountThrows, Succeed, Fail, LoseAnswer
<1>6. ASSUME Expire \/ UNCHANGED vars PROVE FALSE
  BY <1>6 DEF Expire, vars
<1> QED
  BY <1>1, <1>2, <1>3, <1>4, <1>5, <1>6 DEF Next, Step

(***************************************************************************)
(* For any processes: an action leaves the queue only when it is settled;  *)
(* rewriting the whole file never drops one that was added meanwhile.      *)
(***************************************************************************)
THEOREM ForgetsNothing == Spec => NoneForgotten
<1>1. Init => TypeOK /\ Work /\ Kept
  BY InitInv
<1>2. TypeOK /\ Work /\ Kept /\ [Next]_vars => (TypeOK /\ Work /\ Kept)'
  BY TypeStep, WorkStep, KeptStep
<1>3. TypeOK /\ Kept /\ [Next]_vars =>
        [Without({"torn"}) => \A i \in Id :
            queue[i].status # "missing" /\ queue'[i].status = "missing" =>
                queue[i].status \in Settled]_vars
  BY ForgetsSettled
<1> QED
  BY <1>1, <1>2, <1>3, PTL DEF Spec, NoneForgotten

-----------------------------------------------------------------------------
(***************************************************************************)
(* At most once, for one process that drains alone: what it may still      *)
(* execute has not been executed.                                          *)
(***************************************************************************)
Idle ==
    \A p \in Process \ env.procs : pc[p] = "idle" /\ plan[p] = {} /\ at[p] = NoAction

Fresh ==
    \A i \in Id :
        /\ effects[i] <= 1
        /\ queue[i].status = "pending" => effects[i] = 0
        /\ i > created => effects[i] = 0 /\ queue[i].status = "missing"

PlanUnspent(p) ==
    /\ \A a \in plan[p] : effects[a.id] = 0 /\ a.id # at[p].id
    /\ \A a, b \in plan[p] : a.id = b.id => a = b
    /\ pc[p] \notin Locked => at[p] = NoAction

CopyUnspent(p) ==
    pc[p] = "save" => \A i \in Id :
        /\ copy[p][i].status = "pending" => effects[i] = 0
        /\ i > created => copy[p][i].status = "missing"
        /\ goal[p] = "in_progress" /\ i = at[p].id => copy[p][i].status = "in_progress"

WorkUnspent(p) ==
    /\ pc[p] \in Locked /\ goal[p] = "in_progress" => effects[at[p].id] = 0
    /\ pc[p] = "update" /\ goal[p] = "retry" =>
        effects[at[p].id] = 0 \/ at[p].id \notin Present
    /\ pc[p] \in {"count", "run"} /\ goal[p] = "in_progress" =>
        queue[at[p].id].status = "in_progress"

Ours(p) == Fresh /\ PlanUnspent(p) /\ CopyUnspent(p) /\ WorkUnspent(p)

Unspent == Fresh /\ \A p \in env.procs : Ours(p)

\* A process outside the environment never moves.
LEMMA IdleStep ==
    ASSUME TypeOK, Idle, [Next]_vars PROVE Idle' /\ env' = env
<1>1. ASSUME NEW p \in Process,
             Enqueue(p) \/ ClearCompleted(p) \/ Drain(p) \/ CheckCooldown(p) \/ ClearCooldown(p)
                \/ Load(p)
      PROVE  Idle' /\ env' = env
  BY <1>1 DEF Enqueue, ClearCompleted, Drain, CheckCooldown, ClearCooldown, Load, Plan, Goto,
              Idle, TypeOK
<1>2. ASSUME NEW p \in Process, Take(p) \/ GiveUp(p) \/ Update(p) \/ Save(p)
      PROVE  Idle' /\ env' = env
  BY <1>2 DEF Take, GiveUp, First, Update, Save, Throw, Failure, Release, Plan, Goto, Idle, TypeOK
<1>3. ASSUME NEW p \in Process, Count(p) \/ CountThrows(p) PROVE Idle' /\ env' = env
  BY <1>3 DEF Count, CountThrows, Throw, Failure, Release, Plan, Goto, Idle, TypeOK
<1>4. ASSUME NEW p \in Process, Succeed(p) \/ Fail(p) \/ LoseAnswer(p) \/ Crash(p)
      PROVE  Idle' /\ env' = env
  BY <1>4 DEF Succeed, Fail, LoseAnswer, Crash, Failure, Plan, Goto, Idle, TypeOK
<1>5. ASSUME Expire \/ UNCHANGED vars PROVE Idle' /\ env' = env
  BY <1>5 DEF Expire, vars, Idle
<1> QED
  BY <1>1, <1>2, <1>3, <1>4, <1>5 DEF Next, Step

LEMMA OursTake ==
    ASSUME TypeOK, NEW p \in Process, Ours(p), Take(p) PROVE Ours(p)'
<1>1. PICK a \in plan[p] :
        at' = [at EXCEPT ![p] = a] /\ plan' = [plan EXCEPT ![p] = @ \ {a}]
  BY DEF Take, First
<1>2. at'[p] = a /\ plan'[p] = plan[p] \ {a} /\ pc'[p] = "update" /\ goal'[p] = "in_progress"
  BY <1>1 DEF Take, Plan, Goto, TypeOK
<1>3. UNCHANGED <<queue, created, effects>>
  BY DEF Take
<1> QED
  BY <1>1, <1>2, <1>3 DEF Ours, Fresh, PlanUnspent, CopyUnspent, WorkUnspent, Locked, TypeOK

LEMMA OursLoad ==
    ASSUME TypeOK, Work, Idle, Alone, NEW p \in env.procs, p \in Process, Ours(p), Load(p)
    PROVE  Ours(p)'
<1>1. \A q \in Process : pc[q] # "save"
  BY DEF Load, Alone, Idle
<1>2. Readable = {queue}
  BY <1>1 DEF Readable
<1>3. plan'[p] = {[id |-> i, retries |-> queue[i].retries] : i \in Select(queue)}
  BY <1>2 DEF Load, TypeOK
<1>4. \A i \in Select(queue) : i \in Id /\ effects[i] = 0
  BY DEF Select, Ours, Fresh
<1>5. /\ pc'[p] \in {"idle", "next"} /\ pc[p] = "load" /\ at[p] = NoAction
      /\ UNCHANGED <<queue, created, effects, at, goal, copy>>
  BY DEF Load, Goto, TypeOK, Ours, PlanUnspent, Locked
<1>6. PlanUnspent(p)'
  BY <1>3, <1>4, <1>5 DEF PlanUnspent, NoAction, Id
<1> QED
  BY <1>5, <1>6 DEF Ours, Fresh, CopyUnspent, WorkUnspent, Locked

LEMMA OursGiveUp ==
    ASSUME TypeOK, NEW p \in Process, Ours(p), GiveUp(p) PROVE Ours(p)'
<1>1. /\ plan'[p] \subseteq plan[p] /\ pc[p] = "next" /\ pc'[p] \in {"idle", "next"}
      /\ UNCHANGED <<queue, created, effects, at, goal, copy>>
  BY DEF GiveUp, First, Goto, TypeOK
<1> QED
  BY <1>1 DEF Ours, Fresh, PlanUnspent, CopyUnspent, WorkUnspent, Locked

\* What an update saves repeats nothing: only "retry" makes an action pending.
LEMMA OursUpdate ==
    ASSUME TypeOK, Work, NEW p \in Process, Ours(p), Update(p) PROVE Ours(p)'
<1>1. /\ UNCHANGED <<queue, created, effects, plan>> /\ pc[p] = "update" /\ Fresh'
      /\ goal[p] \in OnAction \cup {"clear"}
  BY DEF Update, Ours, Fresh, Work
<1>2. CASE goal[p] # "clear" /\ at[p].id \notin Present
  <2>1. Throw(p)
    BY <1>2 DEF Update
  <2> QED
    BY <1>1, <1>2, <2>1 DEF Throw, Failure, Release, Plan, Goto, Ours, PlanUnspent, CopyUnspent,
        WorkUnspent, Locked, NoAction, Action, Id, TypeOK, Present
<1>3. CASE ~(goal[p] # "clear" /\ at[p].id \notin Present)
  <2>1. /\ copy'[p] = Changed(p) /\ pc'[p] = "save"
        /\ UNCHANGED <<at, goal>>
    BY <1>3 DEF Update, Goto, TypeOK
  <2>2. \A i \in Id :
            /\ Changed(p)[i].status = "pending" => effects[i] = 0
            /\ i > created => Changed(p)[i].status = "missing"
            /\ goal[p] = "in_progress" /\ i = at[p].id => Changed(p)[i].status = "in_progress"
    <3>1. CASE goal[p] = "clear"
      BY <3>1 DEF Changed, Cleared, EmptyQueue, Ours, Fresh
    <3>2. CASE goal[p] = "retry"
      <4>1. Changed(p) = [queue EXCEPT ![at[p].id] =
                            [status |-> "pending", retries |-> queue[at[p].id].retries + 1]]
        BY <3>2 DEF Changed
      <4> QED
        BY <1>1, <1>3, <3>2, <4>1 DEF Ours, Fresh, WorkUnspent, Present, TypeOK, Queue
    <3>3. CASE goal[p] \in {"in_progress", "completed", "failed"}
      <4>1. Changed(p) = [queue EXCEPT ![at[p].id].status = goal[p]]
        BY <3>3 DEF Changed
      <4>2. \A i \in Id : i # at[p].id => Changed(p)[i] = queue[i]
        BY <4>1 DEF TypeOK, Queue
      <4>3. at[p].id \in Id => Changed(p)[at[p].id].status = goal[p]
        BY <4>1 DEF TypeOK, Queue, Entry
      <4> QED
        BY <1>3, <3>3, <4>2, <4>3 DEF Ours, Fresh, Present
    <3> QED
      BY <1>1, <3>1, <3>2, <3>3 DEF OnAction
  <2> QED
    BY <1>1, <2>1, <2>2 DEF Ours, PlanUnspent, CopyUnspent, WorkUnspent, Locked
<1> QED
  BY <1>2, <1>3

LEMMA OursSave ==
    ASSUME TypeOK, Work, NEW p \in Process, Ours(p), Save(p) PROVE Ours(p)'
<1>1. /\ queue' = copy[p] /\ pc[p] = "save" /\ UNCHANGED <<created, effects, plan>>
      /\ pc'[p] # "save" /\ pc'[p] # "update"
  BY DEF Save, Release, Goto, TypeOK
<1>2. Fresh'
  BY <1>1 DEF Ours, Fresh, CopyUnspent
<1>3. CASE Release(p)
  BY <1>1, <1>2, <1>3 DEF Release, Goto, Ours, PlanUnspent, CopyUnspent, WorkUnspent, Locked,
      NoAction, Action, Id, TypeOK
<1>4. CASE goal[p] # "clear" /\ Goto(p, "count") /\ UNCHANGED <<at, goal>>
  <2>1. goal[p] = "in_progress" => at[p].id \in Id
    BY <1>1 DEF Work, Locked, OnAction, Action
  <2> QED
    BY <1>1, <1>2, <1>4, <2>1 DEF Goto, Ours, PlanUnspent, CopyUnspent, WorkUnspent, Locked,
        TypeOK
<1> QED
  BY <1>3, <1>4 DEF Save

LEMMA OursEnqueue ==
    ASSUME TypeOK, NEW p \in Process, Ours(p), Enqueue(p) PROVE Ours(p)'
<1>1. /\ pc[p] = "idle" /\ pc'[p] = "count" /\ goal'[p] = "enqueue" /\ created' = created + 1
      /\ UNCHANGED <<effects, plan, at>>
  BY DEF Enqueue, Goto, TypeOK
<1>2. /\ created + 1 \in Id
      /\ queue' = [queue EXCEPT ![created + 1] = [status |-> "pending", retries |-> 0]]
  BY WriteActionAssumption DEF Enqueue, TypeOK, Id
<1>3. Fresh'
  <2>1. created \in Nat
    BY WriteActionAssumption DEF TypeOK
  <2>2. effects[created + 1] = 0
    BY <1>2, <2>1 DEF Ours, Fresh
  <2>3. \A i \in Id : i # created + 1 => queue'[i] = queue[i]
    BY <1>2 DEF TypeOK, Queue
  <2>4. \A i \in Id : i > created + 1 => i > created
    BY <2>1 DEF Id
  <2> QED
    BY <1>1, <2>1, <2>2, <2>3, <2>4 DEF Ours, Fresh
<1>4. at[p] = NoAction /\ \A a \in plan[p] : a.id # NoAction.id
  BY <1>1 DEF Ours, PlanUnspent, Locked, TypeOK, Action, Id, NoAction
<1> QED
  BY <1>1, <1>3, <1>4 DEF Ours, PlanUnspent, CopyUnspent, WorkUnspent, Locked

\* Its status is in_progress, so that nobody takes it up again.
LEMMA OursSucceed ==
    ASSUME TypeOK, Work, NEW p \in Process, Ours(p), Succeed(p) PROVE Ours(p)'
<1>1. /\ at[p].id \in Id /\ effects[at[p].id] = 0
      /\ queue[at[p].id].status = "in_progress"
  BY DEF Succeed, Work, Locked, OnAction, Action, Ours, WorkUnspent
<1>2. /\ effects' = [effects EXCEPT ![at[p].id] = 1]
      /\ pc[p] = "run" /\ pc'[p] = "update" /\ goal'[p] = "completed"
      /\ UNCHANGED <<queue, created, plan, at, copy>>
  BY <1>1 DEF Succeed, Plan, Goto, TypeOK
<1>3. Fresh'
  BY <1>1, <1>2 DEF Ours, Fresh, TypeOK
<1>4. PlanUnspent(p)'
  BY <1>2 DEF Ours, PlanUnspent, TypeOK, Action, Locked
<1> QED
  BY <1>2, <1>3, <1>4 DEF Ours, CopyUnspent, WorkUnspent

LEMMA OursCrash ==
    ASSUME TypeOK, NEW p \in Process, Ours(p), Crash(p) PROVE Ours(p)'
<1>1. /\ pc'[p] = "idle" /\ plan'[p] = {} /\ at'[p] = NoAction
      /\ UNCHANGED <<created, effects>>
  BY DEF Crash, Goto, TypeOK
<1>2. Fresh'
  <2>1. CASE UNCHANGED queue
    BY <1>1, <2>1 DEF Ours, Fresh
  <2>2. CASE pc[p] = "save" /\ \E n \in 0..MaxActions : queue' = Torn(copy[p], n)
    BY <1>1, <2>2 DEF Ours, Fresh, CopyUnspent, Torn, EmptyQueue
  <2> QED
    BY <2>1, <2>2 DEF Crash
<1> QED
  BY <1>1, <1>2 DEF Ours, PlanUnspent, CopyUnspent, WorkUnspent, Locked

LEMMA UnspentStep ==
    ASSUME TypeOK, Work, Idle, Alone, Without({"lost", "fault"}), Unspent, [Next]_vars
    PROVE  Unspent'
<1>1. env' = env
  BY IdleStep
<1>2. ASSUME NEW p \in Process, p \in env.procs, Ours(p)' PROVE Unspent'
  BY <1>1, <1>2 DEF Unspent, Ours, Alone
<1>3. ASSUME NEW p \in Process, p \in env.procs, Ours(p) PROVE Enqueue(p) => Ours(p)'
  BY <1>3, OursEnqueue
<1>4. ASSUME NEW p \in Process, p \in env.procs, Ours(p),
             ClearCompleted(p) \/ Drain(p) \/ CheckCooldown(p) \/ ClearCooldown(p)
      PROVE  Ours(p)'
  BY <1>4 DEF ClearCompleted, Drain, CheckCooldown, ClearCooldown, Plan, Goto, Ours, Fresh,
      PlanUnspent, CopyUnspent, WorkUnspent, Locked, NoAction, TypeOK
<1>5. ASSUME NEW p \in Process, p \in env.procs, Ours(p), Count(p) PROVE Ours(p)'
  BY <1>5 DEF Count, Release, Goto, Ours, Fresh, PlanUnspent, CopyUnspent, WorkUnspent, Locked,
      NoAction, Action, Id, TypeOK
<1>6. ASSUME NEW p \in Process, p \in env.procs, Ours(p), Fail(p) PROVE Ours(p)'
  BY <1>6 DEF Fail, Failure, Plan, Goto, Work, Ours, Fresh, PlanUnspent, CopyUnspent,
      WorkUnspent, Locked, TypeOK
<1>7. ASSUME NEW p \in Process, CountThrows(p) \/ LoseAnswer(p) PROVE FALSE
  BY <1>7 DEF CountThrows, LoseAnswer, Without
<1>8. ASSUME NEW p \in Process, p \notin env.procs PROVE ~Step(p) /\ ~GiveUp(p) /\ ~Crash(p)
  BY <1>8 DEF Idle, Step, CheckCooldown, ClearCooldown, Load, Take, Update, Save, Count, Succeed,
      Fail, GiveUp, Crash, Locked
<1>9. ASSUME Expire \/ UNCHANGED vars PROVE Unspent'
  BY <1>9 DEF Expire, vars, Unspent, Ours, Fresh, PlanUnspent, CopyUnspent, WorkUnspent, Present
<1>10. ASSUME NEW p \in Process, p \in env.procs, Ours(p), Step(p) \/ GiveUp(p) \/ Crash(p)
       PROVE  Ours(p)'
  BY <1>4, <1>5, <1>6, <1>10, OursTake, OursGiveUp, OursLoad, OursUpdate, OursSave, OursSucceed,
     OursCrash DEF Step
<1>11. ASSUME NEW p \in Process, Enqueue(p) \/ Drain(p) \/ ClearCompleted(p)
       PROVE  p \in env.procs
  BY <1>11 DEF Enqueue, Drain, ClearCompleted
<1>12. \A p \in env.procs : Ours(p)
  BY DEF Unspent
<1> QED
  BY <1>2, <1>3, <1>4, <1>7, <1>8, <1>9, <1>10, <1>11, <1>12 DEF Next

(***************************************************************************)
(* For one process, however often it dies and wherever: every request      *)
(* takes effect at most once.                                              *)
(***************************************************************************)
THEOREM ExecutesAtMostOnce == Spec => []AtMostOnce
<1> DEFINE Cond == Alone /\ Without({"lost", "fault"})
           Inv == TypeOK /\ Work /\ Idle /\ (Cond => Unspent)
<1>1. Init => Inv
  <2>1. ASSUME Init PROVE Idle /\ Unspent
    <3>1. env.procs \subseteq Process /\ 0 \in Nat
      BY <2>1, WriteActionAssumption DEF Init
    <3>2. Idle /\ Fresh
      BY <2>1 DEF Init, Idle, Fresh, EmptyQueue, Id
    <3> QED
      BY <2>1, <3>1, <3>2 DEF Init, Unspent, Ours, PlanUnspent, CopyUnspent, WorkUnspent, Locked
  <2> QED
    BY <2>1, InitInv
<1>2. Inv /\ [Next]_vars => Inv'
  <2>1. ASSUME Inv, [Next]_vars PROVE Inv'
    <3>1. (TypeOK /\ Work /\ Idle)' /\ env' = env
      BY <2>1, TypeStep, WorkStep, IdleStep
    <3>2. Cond' => Cond
      BY <3>1 DEF Alone, Without
    <3>3. Cond => Unspent'
      BY <2>1, UnspentStep
    <3> QED
      BY <3>1, <3>2, <3>3
  <2> QED
    BY <2>1
<1>3. Inv => AtMostOnce
  BY DEF Unspent, Fresh, AtMostOnce
<1> QED
  BY <1>1, <1>2, <1>3, PTL DEF Spec
-----------------------------------------------------------------------------
(***************************************************************************)
(* The counts of the manifest.  They are increments of what the queue was  *)
(* when an update loaded it, so the proof says what the holder of the lock *)
(* is about to save and still owes; a retry is only right because it finds *)
(* its action in progress, its formula being wrong for a settled one.      *)
(***************************************************************************)
Beyond ==
    \A i \in Id : i > created =>
        queue[i].status = "missing" /\ \A p \in Process : copy[p][i].status = "missing"

Marked(p) ==
    /\ goal[p] = "clear" => "clear" \in env.events
    /\ pc[p] \in {"update", "save"} /\ goal[p] \in {"completed", "retry", "failed"}
            /\ at[p].id \in Present =>
        queue[at[p].id].status = "in_progress"
    /\ pc[p] \in {"count", "run"} /\ goal[p] = "in_progress" =>
        queue[at[p].id].status = "in_progress"

Saving(p) ==
    pc[p] = "save" =>
        /\ copy[p] = Changed(p)
        /\ goal[p] # "clear" =>
            /\ at[p].id \in Present
            /\ owed[p] = Delta(queue[at[p].id].status, copy[p][at[p].id].status)

\* What the holder of the lock has still to write to the manifest.
Owing(s) == IF lock \in Process /\ pc[lock] = "count" THEN owed[lock][s] ELSE 0

\* The statuses whose counts are kept.
Kinds == {s \in Status : Without({"clear"}) \/ s \notin Settled}

Balanced == \A s \in Kinds : counts[s] + Owing(s) = Cardinality(With(s))

Counting ==
    /\ Beyond
    /\ \A p \in Process : Marked(p) /\ Saving(p)
    /\ Balanced

LEMMA FiniteWith ==
    ASSUME NEW s
    PROVE  With(s) \subseteq Id /\ IsFiniteSet(With(s)) /\ Cardinality(With(s)) \in Nat
<1>1. IsFiniteSet(Id)
  BY FS_Interval, WriteActionAssumption DEF Id
<1>2. With(s) \subseteq Id
  BY DEF With
<1> QED
  BY <1>1, <1>2, FS_Subset, FS_CardinalityType

\* What the change of one action does to the number of those in a status.
LEMMA OneChanged ==
    ASSUME NEW i \in Id, \A j \in Id : j # i => queue'[j] = queue[j],
           NEW s, queue'[i].status # queue[i].status
    PROVE  Cardinality(With(s)') = Cardinality(With(s)) +
                (IF s = queue'[i].status THEN 1 ELSE IF s = queue[i].status THEN -1 ELSE 0)
<1>1. /\ With(s) \subseteq Id /\ IsFiniteSet(With(s)) /\ Cardinality(With(s)) \in Nat
  BY FiniteWith
<1>2. CASE s = queue'[i].status
  <2>1. With(s)' = With(s) \cup {i} /\ i \notin With(s)
    BY <1>2 DEF With
  <2> QED
    BY <1>1, <1>2, <2>1, FS_AddElement
<1>3. CASE s # queue'[i].status /\ s = queue[i].status
  <2>1. With(s)' = With(s) \ {i} /\ i \in With(s)
    BY <1>3 DEF With
  <2> QED
    BY <1>1, <1>3, <2>1, FS_RemoveElement
<1>4. CASE s # queue'[i].status /\ s # queue[i].status
  <2>1. With(s)' = With(s)
    BY <1>4 DEF With
  <2> QED
    BY <1>1, <1>4, <2>1
<1> QED
  BY <1>2, <1>3, <1>4

LEMMA NoneChanged ==
    ASSUME \A j \in Id : queue'[j].status = queue[j].status, NEW s
    PROVE  With(s)' = With(s)
  BY DEF With

\* A step that touches neither the queue nor what is owed.
LEMMA CountingUnchanged ==
    ASSUME TypeOK, Counting, UNCHANGED <<queue, created, counts, copy, owed, env>>,
           \A q \in Process : Marked(q)',
           \A q \in Process : pc'[q] = "save" =>
                pc[q] = "save" /\ goal'[q] = goal[q] /\ at'[q] = at[q],
           \A s \in Status : Owing(s)' = Owing(s)
    PROVE  Counting'
<1>1. Beyond'
  BY DEF Counting, Beyond
<1>2. ASSUME NEW q \in Process PROVE Saving(q)'
  <2>1. SUFFICES ASSUME pc'[q] = "save" PROVE Saving(q)'
    BY DEF Saving
  <2>2. pc[q] = "save" /\ goal'[q] = goal[q] /\ at'[q] = at[q]
    BY <2>1
  <2>3. Changed(q)' = Changed(q)
    BY <2>2 DEF Changed, Cleared
  <2> QED
    BY <2>2, <2>3 DEF Counting, Saving, Present
<1>3. Balanced'
  BY DEF Counting, Balanced, Kinds, Without, With
<1> QED
  BY <1>1, <1>2, <1>3 DEF Counting

\* Without the lock nothing of what is counted moves.
LEMMA CountingUnlocked ==
    ASSUME TypeOK, Work, Counting, NEW p \in Process,
           UNCHANGED <<queue, created, counts, copy, owed, env, lock>>,
           \A q \in Process : q # p => pc'[q] = pc[q] /\ goal'[q] = goal[q] /\ at'[q] = at[q],
           pc[p] \notin Locked, pc'[p] \notin Locked, goal'[p] = goal[p], at'[p] = at[p]
    PROVE  Counting'
<1>1. \A q \in Process : Marked(q)'
  BY DEF Counting, Marked, Present, Locked
<1>2. \A s \in Status : Owing(s)' = Owing(s)
  BY DEF Owing, Locked
<1> QED
  BY <1>1, <1>2, CountingUnchanged DEF Locked

LEMMA CountingEnqueue ==
    ASSUME TypeOK, Work, Counting, NEW p \in Process, Enqueue(p) PROVE Counting'
<1> DEFINE new == created + 1
<1>1. /\ created \in Nat /\ new \in Id /\ created' = new /\ lock = Nobody /\ lock' = p
      /\ \A q \in Process : pc[q] \notin Locked
      /\ UNCHANGED <<counts, copy, at, env>>
  BY WriteActionAssumption DEF Enqueue, TypeOK, Work, Id
<1>2. /\ queue'[new] = [status |-> "pending", retries |-> 0]
      /\ \A j \in Id : j # new => queue'[j] = queue[j]
      /\ queue[new].status = "missing"
  BY <1>1 DEF Enqueue, TypeOK, Queue, Counting, Beyond
<1>3. /\ pc'[p] = "count" /\ goal'[p] = "enqueue"
      /\ owed'[p] = [Nothing EXCEPT !["pending"] = 1]
      /\ \A q \in Process : q # p => pc'[q] = pc[q] /\ goal'[q] = goal[q]
  BY DEF Enqueue, Goto, TypeOK
<1>4. Beyond'
  BY <1>1, <1>2 DEF Counting, Beyond, Id
<1>5. \A q \in Process : Marked(q)' /\ Saving(q)'
  BY <1>1, <1>3 DEF Counting, Marked, Saving, Locked
<1>6. ASSUME NEW s \in Kinds' PROVE counts'[s] + Owing(s)' = Cardinality(With(s)')
  <2>1. s \in Kinds /\ s \in Status /\ s # "missing" /\ counts[s] \in Nat
    BY <1>1, <1>6 DEF Kinds, Without, Status, TypeOK
  <2>2. Cardinality(With(s)') = Cardinality(With(s)) + (IF s = "pending" THEN 1 ELSE 0)
    BY <1>1, <1>2, <2>1, OneChanged
  <2>3. Owing(s)' = IF s = "pending" THEN 1 ELSE 0
    BY <1>1, <1>3, <2>1 DEF Owing, Nothing
  <2>4. counts[s] = Cardinality(With(s))
    <3>1. Owing(s) = 0
      BY <1>1, WriteActionAssumption DEF Owing
    <3> QED
      BY <2>1, <3>1 DEF Counting, Balanced
  <2> QED
    BY <1>1, <2>1, <2>2, <2>3, <2>4
<1> QED
  BY <1>4, <1>5, <1>6 DEF Counting, Balanced

\* The lock is taken: nobody else owes anything.
LEMMA CountingLock ==
    ASSUME TypeOK, Work, Counting, NEW p \in Process, ClearCompleted(p) \/ Take(p)
    PROVE  Counting'
<1>1. /\ lock = Nobody /\ lock' = p /\ pc'[p] = "update" /\ goal'[p] \in {"clear", "in_progress"}
      /\ goal'[p] = "clear" => "clear" \in env.events
      /\ \A q \in Process : pc[q] \notin Locked
      /\ UNCHANGED <<queue, created, counts, copy, owed, env>>
      /\ \A q \in Process : q # p => pc'[q] = pc[q] /\ goal'[q] = goal[q] /\ at'[q] = at[q]
  BY WriteActionAssumption DEF ClearCompleted, Take, Free, First, Plan, Goto, TypeOK, Work
<1>2. \A q \in Process : Marked(q)'
  BY <1>1 DEF Counting, Marked, Locked, Present
<1>3. \A s \in Status : Owing(s)' = Owing(s)
  BY <1>1, WriteActionAssumption DEF Owing
<1> QED
  BY <1>1, <1>2, <1>3, CountingUnchanged DEF Locked

\* The executor is done: its action is in progress.
LEMMA CountingRun ==
    ASSUME TypeOK, Work, Counting, NEW p \in Process, Succeed(p) \/ Fail(p) \/ LoseAnswer(p)
    PROVE  Counting'
<1>1. /\ lock = p /\ pc[p] = "run" /\ pc'[p] = "update"
      /\ goal[p] = "in_progress" /\ goal'[p] \in {"completed", "retry", "failed"}
      /\ UNCHANGED <<queue, created, counts, copy, owed, env, lock, at>>
      /\ \A q \in Process : q # p => pc'[q] = pc[q] /\ goal'[q] = goal[q]
  BY DEF Succeed, Fail, LoseAnswer, Failure, Plan, Goto, TypeOK, Work, Locked
<1>2. \A q \in Process : Marked(q)'
  BY <1>1 DEF Counting, Marked, Present
<1>3. \A s \in Status : Owing(s)' = Owing(s)
  BY <1>1 DEF Owing
<1> QED
  BY <1>1, <1>2, <1>3, CountingUnchanged

LEMMA CountingUpdate ==
    ASSUME TypeOK, Work, Counting, NEW p \in Process, Update(p) PROVE Counting'
<1>1. /\ lock = p /\ pc[p] = "update" /\ goal[p] \in OnAction \cup {"clear"}
      /\ UNCHANGED <<queue, created, counts, plan, env>>
      /\ \A q \in Process : q # p => pc[q] \notin Locked
  BY WriteActionAssumption DEF Update, Work, Locked
<1>2. CASE goal[p] # "clear" /\ at[p].id \notin Present
  <2>1. Throw(p) /\ UNCHANGED <<copy, owed>>
    BY <1>1, <1>2 DEF Update
  <2>2. /\ pc'[p] \in {"update", "idle", "next"} /\ goal'[p] \in {"none", "retry", "failed"}
        /\ pc'[p] = "update" => at'[p] = at[p]
        /\ \A q \in Process : q # p => pc'[q] = pc[q] /\ goal'[q] = goal[q] /\ at'[q] = at[q]
    BY <2>1 DEF Throw, Failure, Release, Plan, Goto, TypeOK
  <2>3. \A q \in Process : Marked(q)'
    BY <1>1, <1>2, <2>2 DEF Counting, Marked, Locked, Present
  <2>4. \A s \in Status : Owing(s) = 0 /\ Owing(s)' = 0
    BY <1>1, <2>2 DEF Owing, Locked
  <2> QED
    BY <1>1, <2>1, <2>2, <2>3, <2>4, CountingUnchanged DEF Locked
<1>3. CASE ~(goal[p] # "clear" /\ at[p].id \notin Present)
  <2>1. /\ copy' = [copy EXCEPT ![p] = Changed(p)]
        /\ owed' = [owed EXCEPT ![p] =
                IF goal[p] = "clear" THEN Nothing
                ELSE Delta(queue[at[p].id].status, Changed(p)[at[p].id].status)]
        /\ Goto(p, "save") /\ UNCHANGED <<lock, at, goal>>
    BY <1>3 DEF Update
  <2>2. /\ copy'[p] = Changed(p) /\ \A q \in Process : q # p => copy'[q] = copy[q]
        /\ goal[p] # "clear" =>
              owed'[p] = Delta(queue[at[p].id].status, Changed(p)[at[p].id].status)
        /\ pc'[p] = "save" /\ \A q \in Process : q # p => pc'[q] = pc[q]
    BY <2>1 DEF Goto, TypeOK
  <2>3. ASSUME NEW i \in Id, i > created PROVE Changed(p)[i].status = "missing"
    <3>1. queue[i].status = "missing"
      BY <2>3 DEF Counting, Beyond
    <3>2. CASE goal[p] = "clear"
      BY <3>1, <3>2 DEF Changed, Cleared, Settled
    <3>3. CASE goal[p] # "clear"
      <4>1. i # at[p].id
        BY <1>3, <3>1, <3>3 DEF Present
      <4>2. Changed(p)[i] = queue[i]
        BY <3>3, <4>1 DEF Changed, TypeOK, Queue
      <4> QED
        BY <3>1, <4>2
    <3> QED
      BY <3>2, <3>3
  <2>4. Beyond'
    BY <1>1, <2>2, <2>3 DEF Counting, Beyond
  <2>5. \A q \in Process : Marked(q)'
    BY <1>1, <2>1, <2>2 DEF Counting, Marked, Present
  <2>6. Changed(p)' = Changed(p) /\ Present' = Present
    BY <1>1, <2>1 DEF Changed, Cleared, Present
  <2>7. \A q \in Process : Saving(q)'
    BY <1>1, <1>3, <2>1, <2>2, <2>6 DEF Saving, Locked
  <2>8. \A s \in Status : Owing(s) = 0 /\ Owing(s)' = 0
    BY <1>1, <2>1, <2>2 DEF Owing
  <2>9. Balanced'
    BY <1>1, <2>8 DEF Counting, Balanced, Kinds, Without, With
  <2> QED
    BY <2>4, <2>5, <2>7, <2>9 DEF Counting
<1> QED
  BY <1>2, <1>3

LEMMA CountingSave ==
    ASSUME TypeOK, Work, Counting, NEW p \in Process, Save(p) PROVE Counting'
<1>1. /\ lock = p /\ pc[p] = "save" /\ goal[p] \in OnAction \cup {"clear"}
      /\ queue' = Changed(p) /\ Changed(p) = copy[p]
      /\ copy' = [copy EXCEPT ![p] = EmptyQueue]
      /\ UNCHANGED <<created, counts, owed, env>>
      /\ \A q \in Process : q # p => pc[q] \notin Locked
  BY WriteActionAssumption DEF Save, Work, Locked, Counting, Saving
<1>2. Beyond'
  <2>1. \A q \in Process : copy'[q] \in {copy[q], EmptyQueue}
    BY <1>1 DEF TypeOK
  <2>2. \A i \in Id : EmptyQueue[i].status = "missing"
    BY DEF EmptyQueue
  <2> QED
    BY <1>1, <2>1, <2>2 DEF Counting, Beyond
<1>3. /\ pc'[p] \in {"count", "idle", "next"}
      /\ \A q \in Process : q # p => pc'[q] = pc[q] /\ goal'[q] = goal[q] /\ at'[q] = at[q]
  BY DEF Save, Release, Goto, TypeOK
<1>4. \A q \in Process : Saving(q)'
  BY <1>1, <1>3 DEF Saving, Locked
<1>5. \A s \in Status : Owing(s) = 0
  BY <1>1 DEF Owing
<1>6. CASE goal[p] = "clear"
  <2>1. Release(p) /\ lock' = Nobody
    BY <1>6 DEF Save, Release
  <2>2. pc'[p] \in {"idle", "next"} /\ goal'[p] = "none" /\ "clear" \in env.events
    BY <1>6, <2>1 DEF Release, Goto, TypeOK, Counting, Marked
  <2>3. \A q \in Process : Marked(q)'
    BY <1>1, <1>3, <2>2 DEF Counting, Marked, Locked
  <2>4. \A s \in Status : Owing(s)' = 0
    BY <2>1, WriteActionAssumption DEF Owing
  <2>5. ASSUME NEW s \in Status, s \notin Settled PROVE With(s)' = With(s)
    <3>1. queue' = Cleared
      BY <1>1, <1>6 DEF Changed
    <3>2. \A j \in Id : queue'[j].status = s <=> queue[j].status = s
      BY <2>5, <3>1 DEF Cleared, EmptyQueue, Settled, Status
    <3> QED
      BY <3>2 DEF With
  <2>6. Balanced'
    BY <1>1, <1>5, <2>2, <2>4, <2>5 DEF Counting, Balanced, Kinds, Without
  <2> QED
    BY <1>2, <1>4, <2>3, <2>6 DEF Counting
<1>7. CASE goal[p] # "clear"
  <2> DEFINE i == at[p].id
             from == queue[i].status
             to == queue'[i].status
  <2>1. /\ Goto(p, "count") /\ UNCHANGED <<lock, at, goal>> /\ pc'[p] = "count"
    BY <1>7 DEF Save, Goto, TypeOK
  <2>2. i \in Id /\ from # "missing" /\ owed[p] = Delta(from, to)
    BY <1>1, <1>7 DEF Counting, Saving, Present
  <2>3. \A j \in Id : j # i => queue'[j] = queue[j]
    BY <1>1, <1>7 DEF Changed, TypeOK, Queue
  <2>4. goal[p] \in {"completed", "retry", "failed"} => from = "in_progress"
    BY <1>1, <2>2 DEF Counting, Marked, Present
  <2>5. to = IF goal[p] = "retry" THEN "pending" ELSE goal[p]
    <3>1. CASE goal[p] = "retry"
      BY <1>1, <2>2, <3>1 DEF Changed, TypeOK, Queue
    <3>2. CASE goal[p] \in {"in_progress", "completed", "failed"}
      <4>1. queue[i] \in Entry
        BY <2>2 DEF TypeOK, Queue
      <4> QED
        BY <1>1, <2>2, <3>2, <4>1 DEF Changed, TypeOK, Queue, Entry
    <3> QED
      BY <1>1, <1>7, <3>1, <3>2 DEF OnAction
  <2>6. \A q \in Process : Marked(q)'
    <3>1. Marked(p)'
      BY <1>1, <1>7, <2>1, <2>2, <2>5 DEF Marked
    <3> QED
      BY <1>1, <1>3, <3>1 DEF Counting, Marked, Locked
  <2>7. ASSUME NEW s \in Kinds' PROVE counts'[s] + Owing(s)' = Cardinality(With(s)')
    <3>1. s \in Kinds /\ s \in Status /\ counts[s] \in Nat
      BY <1>1, <2>7 DEF Kinds, Without, TypeOK
    <3>2. counts[s] = Cardinality(With(s))
      BY <1>5, <3>1 DEF Counting, Balanced
    <3>3. Owing(s)' = Delta(from, to)[s]
      BY <1>1, <2>1, <2>2 DEF Owing
    <3>4. Delta(from, to)[s] =
              IF from = to THEN 0 ELSE IF s = to THEN 1
              ELSE IF s = from THEN -1 ELSE 0
      <4>1. ~(to = "pending" /\ from \in Settled)
        BY <1>1, <1>7, <2>4, <2>5 DEF OnAction, Settled
      <4> HIDE DEF from, to
      <4> QED
        BY <3>1, <4>1 DEF Delta
    <3>5. CASE from = to
      <4>1. \A j \in Id : queue'[j].status = queue[j].status
        BY <2>3, <3>5
      <4>2. With(s)' = With(s)
        BY <4>1, NoneChanged
      <4> QED
        BY <1>1, <3>1, <3>2, <3>3, <3>4, <3>5, <4>2
    <3>6. CASE from # to
      <4>1. Cardinality(With(s)') = Cardinality(With(s)) +
                (IF s = to THEN 1 ELSE IF s = from THEN -1 ELSE 0)
        BY <2>2, <2>3, <3>6, OneChanged
      <4> QED
        BY <1>1, <3>1, <3>2, <3>3, <3>4, <3>6, <4>1
    <3> QED
      BY <3>5, <3>6
  <2> QED
    BY <1>2, <1>4, <2>6, <2>7 DEF Counting, Balanced
<1> QED
  BY <1>6, <1>7

\* A count never goes below zero, so nothing is cut off.
LEMMA CountingCount ==
    ASSUME TypeOK, Work, Counting, NEW p \in Process, Count(p) PROVE Counting'
<1>1. /\ lock = p /\ pc[p] = "count" /\ p \in Process
      /\ UNCHANGED <<queue, created, copy, env>>
      /\ \A q \in Process : q # p => pc[q] \notin Locked
  BY WriteActionAssumption DEF Count, Work, Locked
<1>2. /\ pc'[p] \in {"run", "idle", "next"} /\ goal'[p] \in {goal[p], "none"}
      /\ pc'[p] = "run" => goal[p] = "in_progress" /\ at'[p] = at[p] /\ goal'[p] = goal[p]
      /\ lock' \in {p, Nobody}
      /\ \A q \in Process : q # p => pc'[q] = pc[q] /\ goal'[q] = goal[q] /\ at'[q] = at[q]
  BY <1>1 DEF Count, Release, Goto, TypeOK
<1>3. Beyond'
  BY <1>1 DEF Counting, Beyond
<1>4. \A q \in Process : Marked(q)' /\ Saving(q)'
  BY <1>1, <1>2 DEF Counting, Marked, Saving, Locked
<1>5. ASSUME NEW s \in Kinds' PROVE counts'[s] + Owing(s)' = Cardinality(With(s)')
  <2>1. s \in Kinds /\ s \in Status /\ counts[s] \in Nat /\ owed[p][s] \in -1..1
    BY <1>1, <1>5 DEF Kinds, Without, TypeOK
  <2>2. counts[s] + owed[p][s] = Cardinality(With(s)) /\ Cardinality(With(s)) \in Nat
    BY <1>1, <2>1, FiniteWith DEF Counting, Balanced, Owing
  <2>3. counts'[s] = counts[s] + owed[p][s]
    BY <2>1, <2>2 DEF Count
  <2>4. Owing(s)' = 0
    BY <1>1, <1>2, WriteActionAssumption DEF Owing
  <2>5. With(s)' = With(s)
    BY <1>1 DEF With
  <2> QED
    BY <2>1, <2>2, <2>3, <2>4, <2>5
<1> QED
  BY <1>3, <1>4, <1>5 DEF Counting, Balanced

LEMMA CountingStep ==
    ASSUME TypeOK, Work, Counting, Without({"crash", "fault"}), [Next]_vars
    PROVE  Counting'
<1>1. ASSUME NEW p \in Process, Enqueue(p) PROVE Counting'
  BY <1>1, CountingEnqueue
<1>2. ASSUME NEW p \in Process,
             Drain(p) \/ CheckCooldown(p) \/ ClearCooldown(p) \/ Load(p) \/ GiveUp(p)
      PROVE  Counting'
  <2>1. /\ UNCHANGED <<queue, created, counts, copy, owed, env, lock, goal, at>>
        /\ \A q \in Process : q # p => pc'[q] = pc[q]
        /\ pc[p] \notin Locked /\ pc'[p] \notin Locked
    BY <1>2 DEF Drain, CheckCooldown, ClearCooldown, Load, GiveUp, Goto, TypeOK, Locked
  <2> QED
    BY <2>1, CountingUnlocked
<1>3. ASSUME NEW p \in Process, ClearCompleted(p) \/ Take(p) PROVE Counting'
  BY <1>3, CountingLock
<1>4. ASSUME NEW p \in Process, Update(p) PROVE Counting'
  BY <1>4, CountingUpdate
<1>5. ASSUME NEW p \in Process, Save(p) PROVE Counting'
  BY <1>5, CountingSave
<1>6. ASSUME NEW p \in Process, Count(p) PROVE Counting'
  BY <1>6, CountingCount
<1>7. ASSUME NEW p \in Process, Succeed(p) \/ Fail(p) \/ LoseAnswer(p) PROVE Counting'
  BY <1>7, CountingRun
<1>8. ASSUME NEW p \in Process, CountThrows(p) \/ Crash(p) PROVE FALSE
  BY <1>8 DEF CountThrows, Crash, Without
<1>9. ASSUME Expire \/ UNCHANGED vars PROVE Counting'
  <2>1. UNCHANGED <<queue, created, counts, effects, lock, pc, plan, at, goal, copy, owed, env>>
    BY <1>9 DEF Expire, vars
  <2>2. \A q \in Process : Marked(q)'
    BY <2>1 DEF Counting, Marked, Present
  <2>3. \A s \in Status : Owing(s)' = Owing(s)
    BY <2>1 DEF Owing
  <2> QED
    BY <2>1, <2>2, <2>3, CountingUnchanged
<1> QED
  BY <1>1, <1>2, <1>3, <1>4, <1>5, <1>6, <1>7, <1>8, <1>9 DEF Next, Step

(***************************************************************************)
(* For any processes and actions: when the lock is free the counts in the  *)
(* manifest are those of the queue.                                        *)
(***************************************************************************)
THEOREM CountsTrue == Spec => []CountsMatch
<1> DEFINE Cond == Without({"crash", "fault"})
           Inv == TypeOK /\ Work /\ Idle /\ (Cond => Counting)
<1>1. Init => Inv
  <2>1. ASSUME Init PROVE Idle /\ Counting
    <3>1. Idle /\ Beyond
      BY <2>1 DEF Init, Idle, Beyond, EmptyQueue
    <3>2. \A p \in Process : Marked(p) /\ Saving(p)
      BY <2>1 DEF Init, Marked, Saving
    <3>3. ASSUME NEW s \in Status PROVE counts[s] + Owing(s) = Cardinality(With(s))
      <4>1. With(s) = {}
        BY <2>1 DEF Init, With, EmptyQueue, Status
      <4>2. counts[s] = 0 /\ Owing(s) = 0
        BY <2>1, WriteActionAssumption DEF Init, Nothing, Owing
      <4> QED
        BY <4>1, <4>2, FS_EmptySet
    <3> QED
      BY <3>1, <3>2, <3>3 DEF Counting, Balanced, Kinds
  <2> QED
    BY <2>1, InitInv
<1>2. Inv /\ [Next]_vars => Inv'
  <2>1. ASSUME Inv, [Next]_vars PROVE Inv'
    <3>1. (TypeOK /\ Work /\ Idle)' /\ env' = env
      BY <2>1, TypeStep, WorkStep, IdleStep
    <3>2. Cond' => Cond
      BY <3>1 DEF Without
    <3>3. Cond => Counting'
      BY <2>1, CountingStep
    <3> QED
      BY <3>1, <3>2, <3>3
  <2> QED
    BY <2>1
<1>3. Inv => CountsMatch
  <2> SUFFICES ASSUME Inv, Cond, lock = Nobody, NEW s \in Status,
                      Without({"clear"}) \/ s \notin Settled
               PROVE  counts[s] = Cardinality(With(s))
    BY DEF CountsMatch
  <2>1. Owing(s) = 0 /\ counts[s] \in Nat
    BY WriteActionAssumption DEF Owing, TypeOK
  <2> QED
    BY <2>1 DEF Counting, Balanced, Kinds
<1> QED
  BY <1>1, <1>2, <1>3, PTL DEF Spec
=============================================================================
