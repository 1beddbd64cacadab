--------------------------- MODULE QueueWalProofs ---------------------------
(***************************************************************************)
(* What holds of QueueWal for any processes, tasks, batches and bounds, as *)
(* long as no process dies between the append of an operation and the      *)
(* write of the counter (the run QueueWal_counter_window shows what        *)
(* happens then).                                                          *)
(*                                                                         *)
(* First the sequence numbers (IInv).  The numbers in the log are          *)
(* consecutive and reach down to the snapshot; the counter is the last     *)
(* number used, except between the append and its own write; a snapshot    *)
(* about to be saved has that number; a log about to be cut ends at the    *)
(* snapshot.  The lock keeps the steps of two calls apart.                 *)
(*                                                                         *)
(* Then the tasks (DataInv).  What a restart finds is a fold of the log    *)
(* over the snapshot, what a process has in memory a fold of its calls;    *)
(* line by line the two folds take the same step (SameStep), as long as a  *)
(* call creates what is not there and updates what is.  Last the counts    *)
(* (CountInv), which both folds keep by increments.                        *)
(***************************************************************************)
EXTENDS QueueWal, FiniteSetTheorems, TLAPS

NoWindow == \A e \in Environment : "window" \notin e.events

Typed ==
    /\ log \in Seq(Line)
    /\ counter \in Nat \cup {NoCounter}
    /\ snapshot.lastSeq \in Nat
    /\ pc \in [Process -> Resting \cup Before \cup After]
    /\ call \in [Process -> Operation]
    /\ work = [p \in Process |-> work[p]]
    /\ env \in Environment

\* Only the process that holds the lock is in the middle of a call.
Locked == \A p \in Process : pc[p] \notin Resting => lock = p

Consecutive == \A i \in 1..Len(log) : log[i].seq = log[1].seq + i - 1

Joined ==
    log # <<>> =>
        /\ log[1].seq <= snapshot.lastSeq + 1
        /\ snapshot.lastSeq <= log[Len(log)].seq

Committing == \E p \in Process : pc[p] = "commit"

Counted ==
    \/ Committing /\ log # <<>>
    \/ ~Committing /\ ReadSequence = LastSeq /\ (log # <<>> => counter # NoCounter)

Ready ==
    \A p \in Process :
        /\ pc[p] = "append" => call[p].kind # "snapshot"
        /\ pc[p] = "save" => work[p].lastSeq = LastSeq
        /\ pc[p] = "truncate" => LastSeq = snapshot.lastSeq
        /\ pc[p] = "recount" => log = <<>>

IInv == Typed /\ Locked /\ Consecutive /\ Joined /\ Counted /\ Ready

-----------------------------------------------------------------------------
\* The lines of a mutation are numbered from the counter on.
LEMMA LinesNumbered ==
    ASSUME IInv, NEW op \in Operation, op.kind # "snapshot", ReadSequence \in Nat
    PROVE  /\ Lines(op) \in Seq(Line)
           /\ Len(Lines(op)) = Len(op.tasks)
           /\ Len(op.tasks) \in Nat \ {0}
           /\ \A i \in 1..Len(op.tasks) : Lines(op)[i].seq = ReadSequence + i
<1>1. op \in Mutation
  BY DEF Operation, Snapshot
<1>2. op.tasks \in Seq(Task) /\ op.tasks # <<>> /\ op.kind \in {"create", "update"}
      /\ op.status \in Status
  <2>1. CASE \E b \in Batch : op = Create(b)
    BY <2>1, QueueAssumption DEF Create
  <2>2. CASE \E t \in Task, s \in Status : op = Update(t, s)
    BY <2>2 DEF Update
  <2> QED
    BY <1>1, <2>1, <2>2 DEF Mutation
<1>3. Len(op.tasks) \in Nat \ {0}
  BY <1>2
<1>4. \A i \in 1..Len(op.tasks) : op.tasks[i] \in Task
  BY <1>2
<1>5. \A i \in 1..Len(op.tasks) :
        [kind |-> op.kind, seq |-> ReadSequence + i, task |-> op.tasks[i],
         status |-> op.status] \in Line
  BY <1>2, <1>3, <1>4 DEF Line
<1> QED
  BY <1>3, <1>5 DEF Lines

\* The numbers of the log are numbers.
LEMMA LogNumbers ==
    ASSUME Typed
    PROVE  Len(log) \in Nat /\ \A i \in 1..Len(log) : log[i].seq \in Nat
<1>1. Len(log) \in Nat /\ \A i \in 1..Len(log) : log[i] \in Line
  BY DEF Typed
<1> QED
  BY <1>1 DEF Line

\* The number of the last line is what it looks like when the log is not empty.
LEMMA LastNumber ==
    ASSUME Typed, Joined
    PROVE  /\ LastSeq \in Nat
           /\ log # <<>> => LastSeq = log[Len(log)].seq
           /\ log = <<>> => LastSeq = snapshot.lastSeq
<1>1. log # <<>> => Len(log) \in 1..Len(log) /\ log[Len(log)] \in Line
  BY DEF Typed
<1>2. log # <<>> => log[Len(log)].seq \in Nat
  BY <1>1 DEF Line
<1> QED
  BY <1>2 DEF Typed, Joined, LastSeq

LEMMA InitInv == ASSUME Init PROVE IInv
<1>1. call \in [Process -> Operation]
  BY DEF Init, Operation
<1>2. Typed
  BY <1>1 DEF Init, Typed, NewIndex, Resting
<1> QED
  BY <1>2 DEF Init, IInv, Locked, Consecutive, Joined, Counted, Committing, Ready, Resting,
              ReadSequence, LastSeq, NewIndex

(***************************************************************************)
(* A step that leaves the files, the saved state and the commits alone.    *)
(***************************************************************************)
LEMMA DiskUntouched ==
    ASSUME IInv, Typed', Locked', Ready', UNCHANGED disk, Committing' = Committing
    PROVE  IInv'
  BY DEF IInv, disk, Consecutive, Joined, Counted, ReadSequence, LastSeq

\* Every step keeps the invariant of the numbers.
LEMMA StepInv ==
    ASSUME NoWindow, IInv, [Next]_vars PROVE IInv'
<1> USE QueueAssumption
<1>0. LastSeq \in Nat /\ (log # <<>> => LastSeq = log[Len(log)].seq)
      /\ (log = <<>> => LastSeq = snapshot.lastSeq)
  BY LastNumber DEF IInv
<1>1. ASSUME NEW p \in Process, NEW op \in Operation, Begin(p, op) PROVE IInv'
  <2>1. Typed'
    BY <1>1 DEF IInv, Typed, Begin, Goto, Before
  <2>2. Locked'
    BY <1>1 DEF IInv, Typed, Locked, Begin, Goto
  <2>3. Ready' /\ Committing' = Committing /\ UNCHANGED disk
    BY <1>1 DEF IInv, Typed, Ready, Begin, Goto, disk, Committing, LastSeq, Resting
  <2> QED
    BY <2>1, <2>2, <2>3, DiskUntouched
<1>2. ASSUME NEW p \in Process, OpenCache(p) PROVE IInv'
  <2>1. Typed'
    BY <1>2 DEF IInv, Typed, OpenCache, Finish, Goto, Before, Resting
  <2>2. Locked'
    BY <1>2 DEF IInv, Typed, Locked, OpenCache, Finish, Goto, Resting
  <2>3. Ready' /\ Committing' = Committing /\ UNCHANGED disk
    BY <1>2 DEF IInv, Typed, Ready, OpenCache, Finish, Goto, disk, Committing, LastSeq
  <2> QED
    BY <2>1, <2>2, <2>3, DiskUntouched
<1>3. ASSUME NEW p \in Process, AppendLines(p) PROVE IInv'
  <2> DEFINE new == Lines(call[p])
             n == Len(log)
  <2>1. ~Committing /\ ReadSequence = LastSeq
    BY <1>3 DEF IInv, Locked, Counted, Committing, AppendLines, Resting
  <2>2. /\ new \in Seq(Line) /\ Len(new) \in Nat \ {0}
        /\ \A i \in 1..Len(new) : new[i].seq = LastSeq + i
    BY <1>3, <1>0, <2>1, LinesNumbered DEF IInv, Typed, Ready, AppendLines
  <2>3. /\ log \in Seq(Line) /\ n \in Nat /\ log' = log \o new
        /\ \A i \in 1..n : log[i].seq \in Nat
    BY <1>3, LogNumbers DEF IInv, Typed, AppendLines
  <2> HIDE DEF new
  <2>4. /\ log' \in Seq(Line) /\ Len(log') = n + Len(new) /\ log' # <<>>
        /\ \A i \in 1..n : log'[i] = log[i]
        /\ \A i \in n + 1..n + Len(new) : log'[i] = new[i - n]
    BY <2>2, <2>3
  <2>5. \A i \in n + 1..n + Len(new) : log'[i].seq = LastSeq + (i - n)
    BY <2>2, <2>3, <2>4
  <2>6. n > 0 => log[1].seq + n - 1 = LastSeq
    BY <1>0, <2>3 DEF IInv, Consecutive
  <2>7. Consecutive'
    <3>1. CASE n = 0
      BY <3>1, <1>0, <2>2, <2>3, <2>4, <2>5 DEF Consecutive
    <3>2. CASE n > 0
      <4>1. log'[1] = log[1] /\ log[1].seq \in Nat
        BY <3>2, <2>3, <2>4
      <4>2. \A i \in 1..n : log'[i].seq = log[1].seq + i - 1
        BY <2>3, <2>4 DEF IInv, Consecutive
      <4>3. \A i \in n + 1..n + Len(new) : log'[i].seq = log[1].seq + i - 1
        BY <3>2, <2>2, <2>3, <2>5, <2>6, <4>1
      <4>4. \A i \in 1..n + Len(new) : i \in 1..n \/ i \in n + 1..n + Len(new)
        BY <2>2, <2>3
      <4> QED
        BY <2>4, <4>1, <4>2, <4>3, <4>4 DEF Consecutive
    <3> QED
      BY <2>3, <3>1, <3>2
  <2>8. Joined'
    <3>1. snapshot' = snapshot /\ snapshot.lastSeq \in Nat
      BY <1>3 DEF AppendLines, IInv, Typed
    <3>2. log'[Len(log')].seq = LastSeq + Len(new)
      BY <2>2, <2>3, <2>4, <2>5
    <3>3. snapshot.lastSeq <= LastSeq
      BY <1>0, <2>3 DEF IInv, Joined
    <3>4. log'[1].seq <= snapshot.lastSeq + 1
      <4>1. CASE n = 0
        <5>1. log = <<>> /\ 1 \in n + 1..n + Len(new)
          BY <4>1, <2>2, <2>3
        <5>2. log'[1].seq = LastSeq + (1 - n)
          BY <2>5, <5>1
        <5> QED
          BY <1>0, <4>1, <5>1, <5>2
      <4>2. CASE n > 0
        <5>1. log'[1] = log[1] /\ log # <<>>
          BY <4>2, <2>3, <2>4
        <5>2. log[1].seq <= snapshot.lastSeq + 1
          BY <5>1 DEF IInv, Joined
        <5> QED
          BY <5>1, <5>2
      <4>3. n = 0 \/ n > 0
        BY <2>3
      <4> QED
        BY <4>1, <4>2, <4>3
    <3> QED
      BY <1>0, <2>2, <3>1, <3>2, <3>3, <3>4 DEF Joined
  <2>9. Typed' /\ Locked' /\ Counted' /\ pc'[p] = "commit"
    BY <1>3, <2>4 DEF IInv, Typed, Locked, Counted, Committing, AppendLines, Goto, After,
                      Resting
  <2>10. Ready'
    BY <1>3, <2>9 DEF IInv, Typed, Locked, Ready, AppendLines, Goto, Resting
  <2> QED
    BY <2>7, <2>8, <2>9, <2>10 DEF IInv
<1>4. ASSUME NEW p \in Process, Commit(p) PROVE IInv'
  <2>1. log # <<>> /\ UNCHANGED <<log, snapshot>> /\ counter' = LastSeq
    BY <1>4, <1>0 DEF IInv, Counted, Committing, Commit
  <2>2. LastSeq' = LastSeq
    BY <2>1 DEF LastSeq
  <2>3. Typed'
    BY <1>0, <1>4, <2>1 DEF IInv, Typed, Commit, Goto, After
  <2>4. Locked'
    BY <1>4 DEF IInv, Typed, Locked, Commit, Goto, Resting
  <2>5. ~Committing'
    BY <1>4, <2>4 DEF IInv, Typed, Locked, Commit, Goto, Committing, Resting
  <2>6. Consecutive' /\ Joined' /\ Counted'
    BY <1>0, <2>1, <2>2, <2>5 DEF IInv, Consecutive, Joined, Counted, ReadSequence
  <2>7. Ready'
    <3>1. \A q \in Process : q # p => pc'[q] \in Resting
      BY <1>4, <2>3, <2>4 DEF IInv, Locked, Commit, Typed, Goto, Resting
    <3>2. pc'[p] = "save" => work'[p].lastSeq = LastSeq
      BY <1>4, <2>1 DEF IInv, Typed, Commit, Goto, Numbered
    <3>3. pc'[p] \in {"save", "manifest"}
      BY <1>4 DEF IInv, Typed, Commit, Goto
    <3> QED
      BY <2>2, <3>1, <3>2, <3>3 DEF Ready, Resting
  <2> QED
    BY <2>3, <2>4, <2>6, <2>7 DEF IInv
<1>5. ASSUME NEW p \in Process, Rebuild(p) PROVE IInv'
  <2>1. Typed'
    BY <1>5 DEF IInv, Typed, Rebuild, Finish, Goto, After, Resting
  <2>2. Locked'
    BY <1>5 DEF IInv, Typed, Locked, Rebuild, Finish, Goto, Resting
  <2>3. Hydrated.lastSeq = LastSeq
    BY DEF Hydrated, Numbered
  <2>4. Committing' = Committing /\ UNCHANGED disk
    BY <1>5 DEF IInv, Typed, Rebuild, Finish, Goto, disk, Committing
  <2>5. Ready'
    BY <1>5, <2>3, <2>4 DEF IInv, Typed, Ready, Rebuild, Finish, Goto, LastSeq, disk
  <2> QED
    BY <2>1, <2>2, <2>4, <2>5, DiskUntouched
<1>6. ASSUME NEW p \in Process, SaveSnapshot(p) PROVE IInv'
  <2>1. UNCHANGED <<log, counter>> /\ snapshot'.lastSeq = LastSeq
    BY <1>6 DEF IInv, Ready, SaveSnapshot
  <2>2. LastSeq' = LastSeq
    BY <1>0, <2>1 DEF LastSeq
  <2>3. Typed'
    BY <1>0, <1>6, <2>1 DEF IInv, Typed, SaveSnapshot, Goto, After
  <2>4. Locked'
    BY <1>6 DEF IInv, Typed, Locked, SaveSnapshot, Goto, Resting
  <2>5. Consecutive' /\ Joined'
    <3>1. log # <<>> => log[1].seq \in Nat /\ log[1].seq <= log[Len(log)].seq + 1
      <4>1. log # <<>> => 1 \in 1..Len(log) /\ Len(log) \in 1..Len(log)
        BY DEF IInv, Typed
      <4>2. \A i \in 1..Len(log) : log[i].seq \in Nat
        BY LogNumbers DEF IInv
      <4>3. log # <<>> => log[Len(log)].seq = log[1].seq + Len(log) - 1
        BY <4>1 DEF IInv, Consecutive
      <4> QED
        BY <4>1, <4>2, <4>3
    <3> QED
      BY <1>0, <2>1, <3>1 DEF IInv, Consecutive, Joined
  <2>6. ~Committing /\ ~Committing'
    BY <1>6 DEF IInv, Typed, Locked, SaveSnapshot, Goto, Committing, Resting
  <2>7. Counted'
    BY <2>1, <2>2, <2>6 DEF IInv, Counted, ReadSequence
  <2>8. Ready'
    BY <1>6, <2>1, <2>2, <2>4 DEF IInv, Typed, Locked, Ready, SaveSnapshot, Goto, Resting
  <2> QED
    BY <2>3, <2>4, <2>5, <2>7, <2>8 DEF IInv
<1>7. ASSUME NEW p \in Process, TruncateLog(p) PROVE IInv'
  <2>1. log' = <<>> /\ UNCHANGED <<counter, snapshot>> /\ snapshot.lastSeq = LastSeq
    BY <1>7 DEF IInv, Ready, TruncateLog
  <2>2. LastSeq' = LastSeq
    BY <2>1 DEF LastSeq
  <2>3. Typed' /\ Locked' /\ Consecutive' /\ Joined'
    BY <1>7, <2>1 DEF IInv, Typed, Locked, TruncateLog, Goto, After, Resting, Consecutive, Joined
  <2>4. ~Committing /\ ~Committing'
    BY <1>7 DEF IInv, Typed, Locked, TruncateLog, Goto, Committing, Resting
  <2>5. Counted'
    <3>1. CASE counter = NoCounter
      BY <3>1, <2>1, <2>2, <2>4 DEF IInv, Counted, ReadSequence
    <3>2. CASE counter # NoCounter
      BY <3>2, <2>1, <2>2, <2>4 DEF IInv, Counted, ReadSequence
    <3> QED
      BY <3>1, <3>2
  <2>6. Ready'
    BY <1>7, <2>1, <2>2, <2>3 DEF IInv, Typed, Locked, Ready, TruncateLog, Goto, Resting
  <2> QED
    BY <2>3, <2>5, <2>6 DEF IInv
<1>8. ASSUME NEW p \in Process, ResetCounter(p) PROVE IInv'
  <2>1. /\ log = <<>> /\ UNCHANGED <<log, snapshot>>
        /\ counter' = snapshot.lastSeq /\ snapshot.lastSeq \in Nat
    BY <1>8 DEF IInv, Typed, Ready, ResetCounter
  <2>2. LastSeq' = LastSeq /\ LastSeq = snapshot.lastSeq
    BY <2>1 DEF LastSeq
  <2>3. Typed'
    BY <1>8, <2>1 DEF IInv, Typed, ResetCounter, Finish, Goto, After, Resting
  <2>4. Locked'
    BY <1>8 DEF IInv, Typed, Locked, ResetCounter, Finish, Goto, Resting
  <2>5. ~Committing'
    BY <1>8 DEF IInv, Typed, Locked, ResetCounter, Finish, Goto, Committing, Resting
  <2>6. Consecutive' /\ Joined' /\ Counted'
    BY <2>1, <2>2, <2>5 DEF IInv, Consecutive, Joined, Counted, ReadSequence
  <2>7. Ready'
    BY <1>8, <2>1, <2>2 DEF IInv, Typed, Locked, Ready, ResetCounter, Finish, Goto, Resting
  <2> QED
    BY <2>3, <2>4, <2>6, <2>7 DEF IInv
<1>9. ASSUME NEW p \in Process, UpdateManifest(p) PROVE IInv'
  <2>1. Typed' /\ UNCHANGED disk
    BY <1>9 DEF IInv, Typed, UpdateManifest, Finish, Goto, Resting, disk
  <2>2. Locked'
    BY <1>9 DEF IInv, Typed, Locked, UpdateManifest, Finish, Goto, Resting
  <2>3. Ready' /\ Committing' = Committing
    BY <1>9 DEF IInv, Typed, Ready, UpdateManifest, Finish, Goto, Committing, LastSeq
  <2> QED
    BY <2>1, <2>2, <2>3, DiskUntouched
<1>10. ASSUME NEW p \in Process, LoadCache(p) \/ VerifySnapshot(p) \/ VerifyLog(p)
       PROVE  IInv'
  <2>1. UNCHANGED <<log, counter, snapshot, pc, call, work, lock, env>>
    BY <1>10 DEF LoadCache, VerifySnapshot, VerifyLog
  <2> QED
    BY <2>1 DEF IInv, Typed, Locked, Consecutive, Joined, Counted, Committing, Ready,
                ReadSequence, LastSeq
<1>11. ASSUME NEW p \in Process, Crash(p) PROVE IInv'
  <2>1. pc[p] # "commit"
    BY <1>11 DEF Crash, IInv, Typed, NoWindow
  <2>2. Typed' /\ UNCHANGED disk
    BY <1>11 DEF IInv, Typed, Crash, Goto, Resting, disk
  <2>3. Locked'
    BY <1>11 DEF IInv, Typed, Locked, Crash, Goto, Resting
  <2>4. Committing' = Committing
    BY <1>11, <2>1 DEF IInv, Typed, Crash, Goto, Committing
  <2>5. Ready'
    BY <1>11 DEF IInv, Typed, Ready, Crash, Goto, LastSeq
  <2> QED
    BY <2>2, <2>3, <2>4, <2>5, DiskUntouched
<1>12. CASE UNCHANGED vars
  BY <1>12 DEF vars, IInv, Typed, Locked, Consecutive, Joined, Counted, Committing, Ready,
               ReadSequence, LastSeq
<1> QED
  BY <1>1, <1>2, <1>3, <1>4, <1>5, <1>6, <1>7, <1>8, <1>9, <1>10, <1>11, <1>12 DEF Next

(***************************************************************************)
(* The inductive invariant of the numbers.                                 *)
(***************************************************************************)
THEOREM NumberingInvariant == ASSUME NoWindow PROVE Spec => []IInv
<1>1. Init => IInv
  BY InitInv
<1>2. IInv /\ [Next]_vars => IInv'
  BY StepInv
<1> QED
  BY <1>1, <1>2, PTL DEF Spec
-----------------------------------------------------------------------------
LEMMA LoadableWhen == ASSUME IInv PROVE AlwaysLoadable
<1>1. /\ Len(log) \in Nat /\ DOMAIN log = 1..Len(log) /\ snapshot.lastSeq \in Nat
      /\ \A i \in 1..Len(log) : log[i].seq \in Nat /\ log[i].seq = log[1].seq + i - 1
  BY LogNumbers DEF IInv, Typed, Consecutive
<1>2. \A i, j \in DOMAIN log : i < j => log[i].seq < log[j].seq
  BY <1>1
<1>3. ASSUME NEW i \in 1..Len(log), log[i].seq > snapshot.lastSeq
      PROVE  IF i - 1 \in 1..Len(log) /\ log[i - 1].seq > snapshot.lastSeq
             THEN log[i].seq = log[i - 1].seq + 1
             ELSE log[i].seq = snapshot.lastSeq + 1
  <2>1. CASE i = 1
    BY <1>1, <1>3, <2>1 DEF IInv, Joined
  <2>2. CASE i # 1
    <3>1. i - 1 \in 1..Len(log)
      BY <1>1, <2>2
    <3>2. log[i].seq = log[1].seq + i - 1 /\ log[i - 1].seq = log[1].seq + (i - 1) - 1
      BY <1>1, <3>1
    <3>3. log[1].seq \in Nat /\ log[i].seq = log[i - 1].seq + 1
      BY <1>1, <3>1, <3>2
    <3> QED
      BY <1>1, <1>3, <3>1, <3>3
  <2> QED
    BY <2>1, <2>2
<1>4. Verifies(snapshot.lastSeq)
  BY <1>1, <1>3 DEF Verifies
<1> QED
  BY <1>2, <1>4 DEF AlwaysLoadable

(***************************************************************************)
(* The queue passes its own integrity check in every state, also in those  *)
(* a crash leaves in the middle of a compaction.                           *)
(***************************************************************************)
THEOREM Loadable == ASSUME NoWindow PROVE Spec => []AlwaysLoadable
  BY LoadableWhen, NumberingInvariant, PTL

(***************************************************************************)
(* An operation never gets a number that was used before.                  *)
(***************************************************************************)
THEOREM Fresh == ASSUME NoWindow PROVE Spec => NumbersAreFresh
<1>1. ASSUME IInv, NEW p \in Process, AppendLines(p)
      PROVE  /\ snapshot.lastSeq <= ReadSequence
             /\ \A i \in DOMAIN log : log[i].seq <= ReadSequence
  <2>1. ReadSequence = LastSeq
    BY <1>1 DEF IInv, Locked, Counted, Committing, AppendLines, Resting
  <2>2. /\ Len(log) \in Nat /\ DOMAIN log = 1..Len(log) /\ snapshot.lastSeq \in Nat
        /\ \A i \in 1..Len(log) : log[i].seq \in Nat /\ log[i].seq = log[1].seq + i - 1
    BY <1>1, LogNumbers DEF IInv, Typed, Consecutive
  <2>3. /\ LastSeq \in Nat /\ (log # <<>> => LastSeq = log[Len(log)].seq)
        /\ (log = <<>> => LastSeq = snapshot.lastSeq)
    BY <1>1, LastNumber DEF IInv
  <2>4. log # <<>> => Len(log) \in 1..Len(log)
    BY <1>1 DEF IInv, Typed
  <2>5. \A i \in DOMAIN log : log[i].seq <= LastSeq
    BY <2>2, <2>3, <2>4
  <2> QED
    BY <1>1, <2>1, <2>2, <2>3, <2>5 DEF IInv, Joined
<1>2. IInv /\ [Next]_vars =>
        [\A p \in Process : AppendLines(p) =>
            /\ snapshot.lastSeq <= ReadSequence
            /\ \A i \in DOMAIN log : log[i].seq <= ReadSequence]_vars
  BY <1>1
<1> QED
  BY <1>2, NumberingInvariant, PTL DEF Spec, NumbersAreFresh
-----------------------------------------------------------------------------
(***************************************************************************)
(* What the log says: the replay of its lines, one after the other.        *)
(***************************************************************************)
Replay == INSTANCE FoldLemmas WITH Op <- ApplyOperation
Edit == INSTANCE FoldLemmas WITH Op <- ApplyEdit

\* The two folds of the model are those that FoldLemmas is about.
LEMMA ReplayIsFold ==
    ASSUME NEW index, NEW lines
    PROVE  FoldLeft(ApplyOperation, index, lines) = Replay!Fold(index, lines)
  BY DEF Replay!Fold, Replay!FoldLeft, Replay!MapThenFoldSet, FoldLeft, MapThenFoldSet,
         Replay!Max, Max

LEMMA EditIsFold ==
    ASSUME NEW index, NEW edits
    PROVE  FoldLeft(ApplyEdit, index, edits) = Edit!Fold(index, edits)
  BY DEF Edit!Fold, Edit!FoldLeft, Edit!MapThenFoldSet, FoldLeft, MapThenFoldSet,
         Edit!Max, Max

\* Counts stay integers, an index an index.
LEMMA MovedTyped ==
    ASSUME NEW counts \in [Status -> Int], NEW from, NEW to
    PROVE  Moved(counts, from, to) \in [Status -> Int]
  BY DEF Moved

LEMMA SetTaskTyped ==
    ASSUME NEW index \in Index, NEW t \in Task, NEW from \in Status \cup {Absent}, NEW to \in Status
    PROVE  /\ SetTask(index, t, from, to) \in Index
           /\ SetTask(index, t, from, to).lastSeq = index.lastSeq
<1>1. Moved(index.counts, from, to) \in [Status -> Int]
  BY MovedTyped DEF Index
<1> QED
  BY <1>1 DEF SetTask, Index

\* What setting a task does to each task and to each count.
LEMMA SetTaskEffect ==
    ASSUME NEW index \in Index, NEW t \in Task, NEW from \in Status \cup {Absent}, NEW to \in Status
    PROVE  /\ \A u \in Task :
                SetTask(index, t, from, to).tasks[u] = IF u = t THEN to ELSE index.tasks[u]
           /\ \A s \in Status :
                SetTask(index, t, from, to).counts[s] =
                    index.counts[s] - (IF s = from THEN 1 ELSE 0) + (IF s = to THEN 1 ELSE 0)
  BY DEF SetTask, Index, Moved

\* Replaying a line keeps an index one, and goes on to the number of the line.
LEMMA OperationTyped ==
    ASSUME NEW index \in Index, NEW line \in Line
    PROVE  /\ ApplyOperation(index, line) \in Index
           /\ ApplyOperation(index, line).lastSeq =
                IF line.seq <= index.lastSeq THEN index.lastSeq ELSE line.seq
<1>1. PICK next \in Index : next = [index EXCEPT !.lastSeq = line.seq]
  BY DEF Index, Line
<1>2. next.lastSeq = line.seq /\ line.task \in Task /\ line.status \in Status
  BY <1>1 DEF Index, Line
<1>3. ASSUME NEW from \in Status \cup {Absent}
      PROVE  /\ SetTask(next, line.task, from, line.status) \in Index
             /\ SetTask(next, line.task, from, line.status).lastSeq = line.seq
  <2>1. PICK t \in Task : t = line.task
    BY <1>2
  <2>2. PICK to \in Status : to = line.status
    BY <1>2
  <2>3. SetTask(next, t, from, to) \in Index /\ SetTask(next, t, from, to).lastSeq = next.lastSeq
    BY SetTaskTyped
  <2> QED
    BY <1>2, <2>1, <2>2, <2>3
<1>4. index.tasks[line.task] \in Status \cup {Absent}
  BY <1>2 DEF Index
<1>5. \/ line.seq <= index.lastSeq /\ ApplyOperation(index, line) = index
      \/ ~(line.seq <= index.lastSeq) /\ ApplyOperation(index, line) = next
      \/ ~(line.seq <= index.lastSeq)
         /\ ApplyOperation(index, line) = SetTask(next, line.task, Absent, line.status)
      \/ ~(line.seq <= index.lastSeq)
         /\ ApplyOperation(index, line) = SetTask(next, line.task, index.tasks[line.task], line.status)
  BY <1>1 DEF ApplyOperation
<1> QED
  BY <1>2, <1>3, <1>4, <1>5

\* Lines that the index covers are not replayed.
LEMMA Covered ==
    ASSUME NEW index, NEW lines \in Seq(Line), \A i \in 1..Len(lines) : lines[i].seq <= index.lastSeq
    PROVE  Replay!Fold(index, lines) = index
<1> DEFINE P == Nat \X {index}
<1>1. <<0, index>> \in P
  OBVIOUS
<1>2. \A i \in 1..Len(lines) : \A v : <<i - 1, v>> \in P => <<i, ApplyOperation(v, lines[i])>> \in P
  BY DEF ApplyOperation
<1>3. <<Len(lines), Replay!Fold(index, lines)>> \in P
  <2> HIDE DEF P
  <2> QED
    BY <1>1, <1>2, Replay!FoldInduct
<1> QED
  BY <1>3

\* Numbering an index changes its number alone.
LEMMA NumberedTyped ==
    ASSUME NEW index \in Index, NEW n \in Nat
    PROVE  /\ Numbered(index, n) \in Index
           /\ Numbered(index, n).tasks = index.tasks
           /\ Numbered(index, n).counts = index.counts
           /\ Numbered(index, n).lastSeq = n
           /\ index.lastSeq = n => Numbered(index, n) = index
  BY DEF Numbered, Index

\* A log in order is replayed up to its last line.
LEMMA ReplayEnds ==
    ASSUME NEW index \in Index, NEW lines \in Seq(Line),
           \A i \in 1..Len(lines) : lines[i].seq = lines[1].seq + i - 1
    PROVE  /\ Replay!Fold(index, lines) \in Index
           /\ Replay!Fold(index, lines).lastSeq =
                IF lines # <<>> /\ lines[Len(lines)].seq > index.lastSeq
                THEN lines[Len(lines)].seq ELSE index.lastSeq
<1> DEFINE Upto(k) == IF k # 0 /\ lines[k].seq > index.lastSeq THEN lines[k].seq ELSE index.lastSeq
           P == {pr \in Nat \X Index : pr[2].lastSeq = Upto(pr[1])}
<1>0. /\ index.lastSeq \in Nat /\ Len(lines) \in Nat
      /\ \A i \in 1..Len(lines) : lines[i] \in Line /\ lines[i].seq \in Nat
  <2>1. Len(lines) \in Nat /\ \A i \in 1..Len(lines) : lines[i] \in Line
    OBVIOUS
  <2> QED
    BY <2>1 DEF Index, Line
<1>1. <<0, index>> \in P
  OBVIOUS
<1>2. ASSUME NEW i \in 1..Len(lines), NEW v, <<i - 1, v>> \in P
      PROVE  <<i, ApplyOperation(v, lines[i])>> \in P
  <2>1. v \in Index /\ v.lastSeq = Upto(i - 1) /\ i \in Nat /\ i - 1 \in Nat
    BY <1>2
  <2>2. lines[i] \in Line /\ lines[i].seq \in Nat /\ lines[1].seq \in Nat
    BY <1>0
  <2>3. lines[i].seq = lines[1].seq + i - 1
    OBVIOUS
  <2>4. i = 1 \/ (i - 1 \in 1..Len(lines) /\ lines[i - 1].seq = lines[1].seq + (i - 1) - 1)
    BY <1>0
  <2>5. ApplyOperation(v, lines[i]) \in Index
        /\ ApplyOperation(v, lines[i]).lastSeq = IF lines[i].seq <= v.lastSeq THEN v.lastSeq ELSE lines[i].seq
    BY <2>1, <2>2, OperationTyped
  <2>6. (IF lines[i].seq <= v.lastSeq THEN v.lastSeq ELSE lines[i].seq) = Upto(i)
    BY <1>0, <2>1, <2>2, <2>3, <2>4
  <2> HIDE DEF Upto
  <2> QED
    BY <2>1, <2>5, <2>6
<1>3. <<Len(lines), Replay!Fold(index, lines)>> \in P
  <2> HIDE DEF P
  <2> QED
    BY <1>1, <1>2, Replay!FoldInduct
<1>4. Replay!Fold(index, lines) \in Index /\ Replay!Fold(index, lines).lastSeq = Upto(Len(lines))
  <2> HIDE DEF Upto
  <2> QED
    BY <1>3
<1>5. Len(lines) # 0 <=> lines # <<>>
  OBVIOUS
<1> QED
  BY <1>4, <1>5

\* What a restart finds is the replay of the log, whose number is that of its last line.
LEMMA HydratedReplay ==
    ASSUME IInv, snapshot \in Index
    PROVE  /\ Hydrated = Replay!Fold(snapshot, log)
           /\ Hydrated \in Index
           /\ Hydrated.lastSeq = LastSeq
<1>1. log \in Seq(Line) /\ \A i \in 1..Len(log) : log[i].seq = log[1].seq + i - 1
  BY DEF IInv, Typed, Consecutive
<1>2. Replay!Fold(snapshot, log) \in Index /\ Replay!Fold(snapshot, log).lastSeq = LastSeq
  BY <1>1, ReplayEnds DEF LastSeq
<1>3. LastSeq \in Nat
  BY LastNumber DEF IInv
<1>4. Hydrated = Numbered(Replay!Fold(snapshot, log), LastSeq)
  BY ReplayIsFold DEF Hydrated
<1> QED
  BY <1>2, <1>3, <1>4, NumberedTyped

\* The same of the next state.
LEMMA HydratedReplayNext ==
    ASSUME IInv', snapshot' \in Index
    PROVE  /\ Hydrated' = Replay!Fold(snapshot', log')
           /\ Hydrated' \in Index
           /\ Hydrated.lastSeq' = LastSeq'
<1>1. log' \in Seq(Line) /\ \A i \in 1..Len(log') : log'[i].seq = log'[1].seq + i - 1
  BY DEF IInv, Typed, Consecutive
<1>2. Replay!Fold(snapshot', log') \in Index /\ Replay!Fold(snapshot', log').lastSeq = LastSeq'
  BY <1>1, ReplayEnds DEF LastSeq
<1>3. LastSeq' \in Nat
  BY <1>2 DEF Index
<1>4. Hydrated' = Numbered(Replay!Fold(snapshot', log'), LastSeq')
  BY ReplayIsFold DEF Hydrated
<1> QED
  BY <1>2, <1>3, <1>4, NumberedTyped
-----------------------------------------------------------------------------
(***************************************************************************)
(* The two sides of a call: the lines it appends, replayed, and the edits  *)
(* of the index in memory.                                                 *)
(***************************************************************************)
EditRecord == [kind : {"create", "update"}, task : Task, status : Status]

\* What a call that changes the queue consists of.
LEMMA MutationTyped ==
    ASSUME NEW op \in Operation, op.kind # "snapshot"
    PROVE  /\ op.tasks \in Seq(Task) /\ Len(op.tasks) \in Nat \ {0}
           /\ \A i \in 1..Len(op.tasks) : op.tasks[i] \in Task
           /\ op.kind \in {"create", "update"} /\ op.status \in Status
           /\ op.kind = "create" => op.status = Pending /\ op.tasks \in Batch
           /\ op.kind = "update" => Len(op.tasks) = 1
<1>1. op \in Mutation
  BY DEF Operation, Snapshot
<1>2. CASE \E b \in Batch : op = Create(b)
  <2>1. PICK b \in Batch : op = Create(b)
    BY <1>2
  <2>2. b \in Seq(Task) /\ b # <<>> /\ Pending \in Status
    BY QueueAssumption
  <2>3. op.tasks = b /\ op.kind = "create" /\ op.status = Pending
    BY <2>1 DEF Create
  <2>4. Len(b) \in Nat \ {0} /\ \A i \in 1..Len(b) : b[i] \in Task
    BY <2>2
  <2> QED
    BY <2>2, <2>3, <2>4
<1>3. CASE \E t \in Task, s \in Status : op = Update(t, s)
  BY <1>3 DEF Update
<1> QED
  BY <1>1, <1>2, <1>3 DEF Mutation

\* What the lines of a call are, one by one.
LEMMA LinesOfCall ==
    ASSUME IInv, NEW op \in Operation, op.kind # "snapshot", ReadSequence \in Nat
    PROVE  /\ Lines(op) \in Seq(Line) /\ Len(Lines(op)) = Len(op.tasks)
           /\ \A i \in 1..Len(op.tasks) :
                /\ Lines(op)[i].kind = op.kind /\ Lines(op)[i].task = op.tasks[i]
                /\ Lines(op)[i].status = op.status /\ Lines(op)[i].seq = ReadSequence + i
<1>1. Lines(op) \in Seq(Line) /\ Len(Lines(op)) = Len(op.tasks)
  BY LinesNumbered
<1>2. Len(op.tasks) \in Nat
  BY MutationTyped
<1> QED
  BY <1>1, <1>2 DEF Lines

\* What its edits consist of.
LEMMA EditsOfCall ==
    ASSUME NEW op \in Operation, op.kind # "snapshot"
    PROVE  /\ Edits(op) \in Seq(EditRecord) /\ Len(Edits(op)) = Len(op.tasks)
           /\ \A i \in 1..Len(op.tasks) :
                /\ Edits(op)[i].kind = op.kind /\ Edits(op)[i].task = op.tasks[i]
                /\ Edits(op)[i].status = op.status
<1>1. /\ Len(op.tasks) \in Nat
      /\ \A i \in 1..Len(op.tasks) : [kind |-> op.kind, task |-> op.tasks[i], status |-> op.status] \in EditRecord
  BY MutationTyped DEF EditRecord
<1> QED
  BY <1>1 DEF Edits

\* The first k tasks of a call have its status, the others are as they were.
Said(op, k, index) ==
    [t \in Task |-> IF \E i \in 1..k : op.tasks[i] = t THEN op.status ELSE index.tasks[t]]

\* A line of a create, or of an update of a task that is there, gives the task its status.
LEMMA LineEffect ==
    ASSUME NEW index \in Index, NEW line \in Line, index.lastSeq < line.seq,
           line.kind = "update" => index.tasks[line.task] # Absent
    PROVE  /\ ApplyOperation(index, line) \in Index
           /\ ApplyOperation(index, line).lastSeq = line.seq
           /\ \A u \in Task : ApplyOperation(index, line).tasks[u] =
                                IF u = line.task THEN line.status ELSE index.tasks[u]
<1>1. PICK next \in Index : next = [index EXCEPT !.lastSeq = line.seq]
  BY DEF Index, Line
<1>2. /\ next.lastSeq = line.seq /\ next.tasks = index.tasks /\ line.task \in Task /\ line.status \in Status
      /\ index.tasks[line.task] \in Status \cup {Absent} /\ line.seq \in Nat /\ index.lastSeq \in Nat
  BY <1>1 DEF Index, Line
<1>3. PICK t \in Task, to \in Status : t = line.task /\ to = line.status
  BY <1>2
<1>4. PICK from \in Status \cup {Absent} : ApplyOperation(index, line) = SetTask(next, t, from, to)
  <2>1. line.kind = "create" => ApplyOperation(index, line) = SetTask(next, t, Absent, to)
    BY <1>1, <1>2, <1>3 DEF ApplyOperation
  <2>2. line.kind # "create" => ApplyOperation(index, line) = SetTask(next, t, index.tasks[t], to)
    <3>1. line.kind \in {"create", "update"}
      BY DEF Line
    <3> QED
      BY <1>1, <1>2, <1>3, <3>1 DEF ApplyOperation
  <2> QED
    BY <1>2, <1>3, <2>1, <2>2
<1>5. \A u \in Task : SetTask(next, t, from, to).tasks[u] = IF u = t THEN to ELSE next.tasks[u]
  BY SetTaskEffect
<1>6. SetTask(next, t, from, to) \in Index /\ SetTask(next, t, from, to).lastSeq = next.lastSeq
  BY SetTaskTyped
<1> QED
  BY <1>2, <1>3, <1>4, <1>5, <1>6

\* The replay of a call does what the call says, also where a create meets an old task.
LEMMA ReplayCall ==
    ASSUME NEW op \in Operation, op.kind # "snapshot", NEW index \in Index, NEW lines \in Seq(Line),
           Len(lines) = Len(op.tasks),
           \A i \in 1..Len(op.tasks) :
                /\ lines[i].kind = op.kind /\ lines[i].task = op.tasks[i]
                /\ lines[i].status = op.status /\ lines[i].seq = index.lastSeq + i,
           op.kind = "update" => index.tasks[op.tasks[1]] # Absent
    PROVE  /\ Replay!Fold(index, lines) \in Index
           /\ Replay!Fold(index, lines).tasks = Said(op, Len(op.tasks), index)
<1>1. /\ Len(op.tasks) \in Nat \ {0} /\ op.status \in Status /\ op.kind \in {"create", "update"}
      /\ \A i \in 1..Len(op.tasks) : op.tasks[i] \in Task
      /\ op.kind = "update" => Len(op.tasks) = 1
  BY MutationTyped
<1>2. index.lastSeq \in Nat /\ \A t \in Task : index.tasks[t] \in Status \cup {Absent}
  BY DEF Index
<1>3. \A i \in 1..Len(op.tasks) : lines[i] \in Line
  OBVIOUS
<1> DEFINE n == Len(op.tasks)
           P == {pr \in (0..n) \X Index :
                    /\ pr[2].lastSeq = index.lastSeq + pr[1]
                    /\ \A t \in Task : pr[2].tasks[t] =
                            IF \E i \in 1..pr[1] : op.tasks[i] = t THEN op.status ELSE index.tasks[t]}
<1>4. <<0, index>> \in P
  BY <1>1, <1>2
<1>5. ASSUME NEW i \in 1..Len(lines), NEW v, <<i - 1, v>> \in P
      PROVE  <<i, ApplyOperation(v, lines[i])>> \in P
  <2>1. /\ v \in Index /\ v.lastSeq = index.lastSeq + (i - 1) /\ i \in 0..n /\ i \in 1..n
        /\ \A t \in Task : v.tasks[t] =
                IF \E j \in 1..(i - 1) : op.tasks[j] = t THEN op.status ELSE index.tasks[t]
    BY <1>1, <1>5
  <2>2. lines[i] \in Line /\ lines[i].task = op.tasks[i] /\ lines[i].status = op.status
        /\ lines[i].kind = op.kind /\ lines[i].seq = index.lastSeq + i /\ op.tasks[i] \in Task
    BY <1>1, <1>3, <2>1
  <2>3. v.lastSeq < lines[i].seq
    BY <1>2, <2>1, <2>2
  <2>4. lines[i].kind = "update" => v.tasks[lines[i].task] # Absent
    <3> HAVE lines[i].kind = "update"
    <3>1. i = 1 /\ op.tasks[1] \in Task
      BY <1>1, <2>1, <2>2
    <3>2. ~ \E j \in 1..(i - 1) : op.tasks[j] = op.tasks[1]
      BY <3>1
    <3>3. v.tasks[op.tasks[1]] = index.tasks[op.tasks[1]]
      BY <2>1, <3>1, <3>2
    <3> QED
      BY <2>2, <3>1, <3>3
  <2>5. PICK w : w = ApplyOperation(v, lines[i])
    OBVIOUS
  <2>6. /\ w \in Index /\ w.lastSeq = lines[i].seq
        /\ \A u \in Task : w.tasks[u] = IF u = lines[i].task THEN lines[i].status ELSE v.tasks[u]
    BY <2>1, <2>2, <2>3, <2>4, <2>5, LineEffect
  <2>7. ASSUME NEW t \in Task
        PROVE  w.tasks[t] = IF \E j \in 1..i : op.tasks[j] = t THEN op.status ELSE index.tasks[t]
    <3>1. (\E j \in 1..i : op.tasks[j] = t) <=> (\E j \in 1..(i - 1) : op.tasks[j] = t) \/ op.tasks[i] = t
      BY <1>1, <2>1
    <3> QED
      BY <2>1, <2>2, <2>6, <3>1
  <2>8. <<i, w>> \in P
    BY <2>1, <2>2, <2>6, <2>7
  <2> QED
    BY <2>5, <2>8
<1>6. <<Len(lines), Replay!Fold(index, lines)>> \in P
  <2> HIDE DEF P
  <2> QED
    BY <1>4, <1>5, Replay!FoldInduct
<1>7. PICK r : r = Replay!Fold(index, lines)
  OBVIOUS
<1>8. /\ r \in Index
      /\ \A t \in Task : r.tasks[t] =
                IF \E i \in 1..n : op.tasks[i] = t THEN op.status ELSE index.tasks[t]
  BY <1>6, <1>7
<1>9. r.tasks = [t \in Task |-> r.tasks[t]]
  BY <1>8 DEF Index
<1> QED
  BY <1>7, <1>8, <1>9 DEF Said

\* The counts of an index are those of its tasks.
Tallied(index) ==
    \A s \in Status : index.counts[s] = Cardinality({t \in Task : index.tasks[t] = s})

\* A task that leaves one status for another keeps the counts true.
LEMMA SetTaskTallied ==
    ASSUME IsFiniteSet(Task), NEW index \in Index, Tallied(index), NEW t \in Task, NEW to \in Status
    PROVE  Tallied(SetTask(index, t, index.tasks[t], to))
<1>1. PICK from \in Status \cup {Absent} : from = index.tasks[t]
  BY DEF Index
<1>2. PICK next \in Index : next = SetTask(index, t, from, to)
  BY SetTaskTyped
<1>3. /\ \A u \in Task : next.tasks[u] = IF u = t THEN to ELSE index.tasks[u]
      /\ \A s \in Status : next.counts[s] =
                index.counts[s] - (IF s = from THEN 1 ELSE 0) + (IF s = to THEN 1 ELSE 0)
  BY <1>2, SetTaskEffect
<1>4. ASSUME NEW s \in Status
      PROVE  next.counts[s] = Cardinality({u \in Task : next.tasks[u] = s})
  <2> DEFINE old == {u \in Task : index.tasks[u] = s}
             new == {u \in Task : next.tasks[u] = s}
  <2>1. IsFiniteSet(old) /\ Cardinality(old) \in Nat /\ index.counts[s] = Cardinality(old)
    <3>1. old \subseteq Task
      OBVIOUS
    <3> QED
      BY <3>1, FS_Subset, FS_CardinalityType DEF Tallied
  <2>2. CASE s = from /\ s # to
    <3>1. t \in old /\ new = old \ {t}
      BY <1>1, <1>3, <2>2
    <3> HIDE DEF old, new
    <3>2. Cardinality(new) = Cardinality(old) - 1
      BY <2>1, <3>1, FS_RemoveElement
    <3> QED
      BY <1>3, <2>1, <2>2, <3>2 DEF new
  <2>3. CASE s # from /\ s = to
    <3>1. t \notin old /\ new = old \cup {t}
      BY <1>1, <1>3, <2>3
    <3> HIDE DEF old, new
    <3>2. Cardinality(new) = Cardinality(old) + 1
      BY <2>1, <3>1, FS_AddElement
    <3> QED
      BY <1>3, <2>1, <2>3, <3>2 DEF new
  <2>4. CASE (s = from) = (s = to)
    <3>1. new = old
      BY <1>1, <1>3, <2>4
    <3>2. next.counts[s] = index.counts[s]
      BY <1>3, <2>1, <2>4
    <3> QED
      BY <2>1, <3>1, <3>2
  <2> QED
    BY <2>2, <2>3, <2>4
<1> QED
  BY <1>1, <1>2, <1>4 DEF Tallied

\* What one edit does, whatever the index.
LEMMA EditEffect ==
    ASSUME NEW index \in Index, NEW edit \in EditRecord
    PROVE  /\ ApplyEdit(index, edit) \in Index
           /\ ApplyEdit(index, edit).lastSeq = index.lastSeq
           /\ \A t \in Task :
                \/ ApplyEdit(index, edit).tasks[t] = index.tasks[t]
                \/ t = edit.task /\ ApplyEdit(index, edit).tasks[t] # Absent
           /\ edit.kind = "create" =>
                \A s \in Status \ {edit.status} : ApplyEdit(index, edit).counts[s] = index.counts[s]
           /\ IsFiniteSet(Task) /\ Tallied(index) => Tallied(ApplyEdit(index, edit))
<1>1. PICK t \in Task, to \in Status : t = edit.task /\ to = edit.status
  BY DEF EditRecord
<1>2. PICK from \in Status \cup {Absent} : from = index.tasks[t]
  BY DEF Index
<1>3. CASE ApplyEdit(index, edit) = index
  BY <1>3
<1>4. CASE ApplyEdit(index, edit) = SetTask(index, t, from, to) /\ (edit.kind = "create" => from = Absent)
  <2>1. /\ SetTask(index, t, from, to) \in Index
        /\ SetTask(index, t, from, to).lastSeq = index.lastSeq
    BY SetTaskTyped
  <2>2. /\ \A u \in Task : SetTask(index, t, from, to).tasks[u] = IF u = t THEN to ELSE index.tasks[u]
        /\ \A s \in Status : SetTask(index, t, from, to).counts[s] =
                index.counts[s] - (IF s = from THEN 1 ELSE 0) + (IF s = to THEN 1 ELSE 0)
    BY SetTaskEffect
  <2>3. to # Absent /\ Absent \notin Status
    BY QueueAssumption
  <2>4. \A s \in Status : index.counts[s] \in Int
    BY DEF Index
  <2>5. edit.kind = "create" =>
            \A s \in Status \ {edit.status} : SetTask(index, t, from, to).counts[s] = index.counts[s]
    BY <1>1, <1>4, <2>2, <2>3, <2>4
  <2>6. IsFiniteSet(Task) /\ Tallied(index) => Tallied(SetTask(index, t, from, to))
    BY <1>2, SetTaskTallied
  <2> QED
    BY <1>1, <1>4, <2>1, <2>2, <2>3, <2>5, <2>6
<1>5. \/ ApplyEdit(index, edit) = index
      \/ ApplyEdit(index, edit) = SetTask(index, t, from, to) /\ (edit.kind = "create" => from = Absent)
  BY <1>1, <1>2 DEF ApplyEdit
<1> QED
  BY <1>3, <1>4, <1>5

\* What a call does to the index in memory, whatever the index.
LEMMA EditCall ==
    ASSUME NEW op \in Operation, op.kind # "snapshot", NEW index \in Index
    PROVE  /\ ApplyCall(index, op) \in Index
           /\ \A t \in Task :
                \/ ApplyCall(index, op).tasks[t] = index.tasks[t]
                \/ /\ ApplyCall(index, op).tasks[t] # Absent
                   /\ \E i \in 1..Len(op.tasks) : op.tasks[i] = t
           /\ op.kind = "create" =>
                \A s \in Status \ {Pending} : ApplyCall(index, op).counts[s] = index.counts[s]
           /\ IsFiniteSet(Task) /\ Tallied(index) => Tallied(ApplyCall(index, op))
<1>1. /\ Edits(op) \in Seq(EditRecord) /\ Len(Edits(op)) = Len(op.tasks)
      /\ \A i \in 1..Len(op.tasks) :
            Edits(op)[i].kind = op.kind /\ Edits(op)[i].task = op.tasks[i] /\ Edits(op)[i].status = op.status
  BY EditsOfCall
<1>2. op.kind = "create" => op.status = Pending
  BY MutationTyped
<1>3. PICK edits \in Seq(EditRecord) : edits = Edits(op)
  BY <1>1
<1>4. Len(edits) \in Nat /\ \A i \in 1..Len(edits) : edits[i] \in EditRecord
  OBVIOUS
<1> DEFINE Good(v) ==
             /\ \A t \in Task :
                  \/ v.tasks[t] = index.tasks[t]
                  \/ v.tasks[t] # Absent /\ \E i \in 1..Len(op.tasks) : op.tasks[i] = t
             /\ op.kind = "create" => \A s \in Status \ {Pending} : v.counts[s] = index.counts[s]
             /\ IsFiniteSet(Task) /\ Tallied(index) => Tallied(v)
           P == {pr \in Nat \X Index : Good(pr[2])}
<1>5. <<0, index>> \in P
  OBVIOUS
<1>6. ASSUME NEW i \in 1..Len(edits), NEW v, <<i - 1, v>> \in P
      PROVE  <<i, ApplyEdit(v, edits[i])>> \in P
  <2>1. v \in Index /\ Good(v) /\ edits[i] \in EditRecord /\ i \in Nat /\ i \in 1..Len(op.tasks)
    BY <1>1, <1>3, <1>4, <1>6
  <2>2. PICK e \in EditRecord : e = edits[i]
    BY <2>1
  <2>3. e.kind = op.kind /\ e.task = op.tasks[i] /\ e.status = op.status
    BY <1>1, <1>3, <2>1, <2>2
  <2>4. PICK w : w = ApplyEdit(v, e)
    OBVIOUS
  <2>5. /\ w \in Index
        /\ \A t \in Task : w.tasks[t] = v.tasks[t] \/ (t = e.task /\ w.tasks[t] # Absent)
        /\ e.kind = "create" => \A s \in Status \ {e.status} : w.counts[s] = v.counts[s]
        /\ IsFiniteSet(Task) /\ Tallied(v) => Tallied(w)
    BY <2>1, <2>4, EditEffect
  <2>6. Good(w)
    BY <1>2, <2>1, <2>3, <2>5
  <2> QED
    BY <2>1, <2>2, <2>4, <2>5, <2>6
<1>7. <<Len(edits), Edit!Fold(index, edits)>> \in P
  <2> HIDE DEF P
  <2> QED
    BY <1>5, <1>6, Edit!FoldInduct
<1>8. ApplyCall(index, op) = Edit!Fold(index, edits)
  BY <1>3, EditIsFold DEF ApplyCall
<1>9. ApplyCall(index, op) \in Index /\ Good(ApplyCall(index, op))
  <2> HIDE DEF Good
  <2> QED
    BY <1>7, <1>8
<1> QED
  BY <1>9

\* Two indexes with the same tasks, counts and number are one.
LEMMA IndexEqual ==
    ASSUME NEW x \in Index, NEW y \in Index, \A t \in Task : x.tasks[t] = y.tasks[t],
           \A s \in Status : x.counts[s] = y.counts[s], x.lastSeq = y.lastSeq
    PROVE  x = y
<1>1. x.tasks = y.tasks /\ x.counts = y.counts
  BY DEF Index
<1> QED
  BY <1>1 DEF Index

\* The number of an index does not matter for what a task's new status does to it.
LEMMA SetTaskNumbered ==
    ASSUME NEW x \in Index, NEW y \in Index, NEW n \in Nat,
           NEW t \in Task, NEW from \in Status \cup {Absent}, NEW to \in Status
    PROVE  x.tasks = y.tasks /\ x.counts = y.counts =>
                Numbered(SetTask(x, t, from, to), n) = Numbered(SetTask(y, t, from, to), n)
<1>1. PICK u \in Index : u = SetTask(x, t, from, to)
  BY SetTaskTyped
<1>2. PICK v \in Index : v = SetTask(y, t, from, to)
  BY SetTaskTyped
<1>3. /\ \A r \in Task : SetTask(x, t, from, to).tasks[r] = IF r = t THEN to ELSE x.tasks[r]
      /\ \A s \in Status : SetTask(x, t, from, to).counts[s] =
                x.counts[s] - (IF s = from THEN 1 ELSE 0) + (IF s = to THEN 1 ELSE 0)
  BY SetTaskEffect
<1>4. /\ \A r \in Task : SetTask(y, t, from, to).tasks[r] = IF r = t THEN to ELSE y.tasks[r]
      /\ \A s \in Status : SetTask(y, t, from, to).counts[s] =
                y.counts[s] - (IF s = from THEN 1 ELSE 0) + (IF s = to THEN 1 ELSE 0)
  BY SetTaskEffect
<1> HAVE x.tasks = y.tasks /\ x.counts = y.counts
<1>5. (\A r \in Task : u.tasks[r] = v.tasks[r]) /\ (\A s \in Status : u.counts[s] = v.counts[s])
  <2>1. ASSUME NEW r \in Task PROVE u.tasks[r] = v.tasks[r]
    BY <1>1, <1>2, <1>3, <1>4
  <2>2. ASSUME NEW s \in Status PROVE u.counts[s] = v.counts[s]
    <3>1. u.counts[s] = x.counts[s] - (IF s = from THEN 1 ELSE 0) + (IF s = to THEN 1 ELSE 0)
      BY <1>1, <1>3
    <3>2. v.counts[s] = y.counts[s] - (IF s = from THEN 1 ELSE 0) + (IF s = to THEN 1 ELSE 0)
      BY <1>2, <1>4
    <3>3. x.counts[s] = y.counts[s]
      OBVIOUS
    <3> QED
      BY <3>1, <3>2, <3>3
  <2> QED
    BY <2>1, <2>2
<1>6. Numbered(u, n) = Numbered(v, n)
  <2>1. PICK a \in Index, b \in Index : a = Numbered(u, n) /\ b = Numbered(v, n)
    BY NumberedTyped
  <2>2. a.tasks = u.tasks /\ a.counts = u.counts /\ a.lastSeq = n
        /\ b.tasks = v.tasks /\ b.counts = v.counts /\ b.lastSeq = n
    BY <2>1, NumberedTyped
  <2> QED
    BY <1>5, <2>1, <2>2, IndexEqual
<1> QED
  BY <1>1, <1>2, <1>6

\* One line and one edit agree when the task is there for an update and not for a create.
LEMMA SameStep ==
    ASSUME NEW index \in Index, NEW line \in Line, NEW edit \in EditRecord,
           index.lastSeq < line.seq,
           line.kind = edit.kind, line.task = edit.task, line.status = edit.status,
           edit.kind = "create" <=> index.tasks[edit.task] = Absent
    PROVE  ApplyOperation(index, line) = Numbered(ApplyEdit(index, edit), line.seq)
<1>1. /\ edit.task \in Task /\ edit.status \in Status /\ line.seq \in Nat /\ index.lastSeq \in Nat
      /\ ~(line.seq <= index.lastSeq)
  BY DEF EditRecord, Line, Index
<1>2. PICK t \in Task, to \in Status, from \in Status \cup {Absent} :
        t = edit.task /\ to = edit.status /\ from = index.tasks[t]
  BY <1>1 DEF Index
<1>3. PICK next \in Index : next = [index EXCEPT !.lastSeq = line.seq]
  BY <1>1 DEF Index
<1>4. next.tasks = index.tasks /\ next.counts = index.counts /\ next.lastSeq = line.seq
  BY <1>3 DEF Index
<1>5. ApplyOperation(index, line) = SetTask(next, t, from, to)
  BY <1>1, <1>2, <1>3 DEF ApplyOperation
<1>6. ApplyEdit(index, edit) = SetTask(index, t, from, to)
  BY <1>2 DEF ApplyEdit
<1>7. SetTask(next, t, from, to) = Numbered(SetTask(index, t, from, to), line.seq)
  <2>1. PICK n \in Nat : n = line.seq
    BY <1>1
  <2>2. SetTask(next, t, from, to) \in Index /\ SetTask(next, t, from, to).lastSeq = n
    BY <1>4, <2>1, SetTaskTyped
  <2>3. SetTask(next, t, from, to) = Numbered(SetTask(next, t, from, to), n)
    BY <2>2, NumberedTyped
  <2>4. Numbered(SetTask(next, t, from, to), n) = Numbered(SetTask(index, t, from, to), n)
    BY <1>4, SetTaskNumbered
  <2> QED
    BY <2>1, <2>3, <2>4
<1> QED
  BY <1>5, <1>6, <1>7

\* An edit does not look at the number of the index.
LEMMA EditNumbered ==
    ASSUME NEW index \in Index, NEW edit \in EditRecord, NEW m \in Nat, NEW n \in Nat
    PROVE  Numbered(ApplyEdit(Numbered(index, m), edit), n) = Numbered(ApplyEdit(index, edit), n)
<1>1. PICK other \in Index : other = Numbered(index, m)
  BY NumberedTyped
<1>2. other.tasks = index.tasks /\ other.counts = index.counts
  BY <1>1, NumberedTyped
<1>3. PICK t \in Task, to \in Status, from \in Status \cup {Absent} :
        t = edit.task /\ to = edit.status /\ from = index.tasks[t]
  BY DEF EditRecord, Index
<1>4. Numbered(SetTask(other, t, from, to), n) = Numbered(SetTask(index, t, from, to), n)
  BY <1>2, SetTaskNumbered
<1>5. Numbered(other, n) = Numbered(index, n)
  BY <1>2 DEF Numbered
<1> QED
  BY <1>1, <1>2, <1>3, <1>4, <1>5 DEF ApplyEdit

\* The lines of a call, replayed, make of an index what the call makes of it in memory.
LEMMA SameCall ==
    ASSUME NEW op \in Operation, op.kind # "snapshot", NEW index \in Index, NEW lines \in Seq(Line),
           Len(lines) = Len(op.tasks),
           \A i \in 1..Len(op.tasks) :
                /\ lines[i].kind = op.kind /\ lines[i].task = op.tasks[i]
                /\ lines[i].status = op.status /\ lines[i].seq = index.lastSeq + i,
           \A i, j \in 1..Len(op.tasks) : op.tasks[i] = op.tasks[j] => i = j,
           op.kind = "create" => \A i \in 1..Len(op.tasks) : index.tasks[op.tasks[i]] = Absent,
           op.kind = "update" => index.tasks[op.tasks[1]] # Absent
    PROVE  Replay!Fold(index, lines) = Numbered(ApplyCall(index, op), index.lastSeq + Len(op.tasks))
<1>1. /\ Len(op.tasks) \in Nat \ {0} /\ op.kind \in {"create", "update"}
      /\ \A i \in 1..Len(op.tasks) : op.tasks[i] \in Task
      /\ op.kind = "update" => Len(op.tasks) = 1
  BY MutationTyped
<1>2. index.lastSeq \in Nat
  BY DEF Index
<1>3. PICK edits \in Seq(EditRecord) : edits = Edits(op)
  BY EditsOfCall
<1>4. /\ Len(edits) = Len(op.tasks)
      /\ \A i \in 1..Len(op.tasks) :
            edits[i].kind = op.kind /\ edits[i].task = op.tasks[i] /\ edits[i].status = op.status
  BY <1>3, EditsOfCall
<1>5. \A i \in 1..Len(op.tasks) : lines[i] \in Line /\ edits[i] \in EditRecord
  BY <1>4
<1> DEFINE n == Len(op.tasks)
           Side(k) == Edit!Fold(index, SubSeq(edits, 1, k))
           P == {pr \in (0..n) \X Index :
                    /\ Side(pr[1]) \in Index
                    /\ pr[2] = Numbered(Side(pr[1]), index.lastSeq + pr[1])
                    /\ \A t \in Task : (~ \E i \in 1..pr[1] : op.tasks[i] = t) => pr[2].tasks[t] = index.tasks[t]}
<1>6. <<0, index>> \in P
  <2>1. SubSeq(edits, 1, 0) = <<>>
    OBVIOUS
  <2>2. Side(0) = index
    BY <2>1, Edit!FoldEmpty
  <2>3. index = Numbered(index, index.lastSeq + 0)
    BY <1>2, NumberedTyped
  <2> HIDE DEF Side
  <2> QED
    BY <1>1, <2>2, <2>3
<1>7. ASSUME NEW i \in 1..Len(lines), NEW v, <<i - 1, v>> \in P
      PROVE  <<i, ApplyOperation(v, lines[i])>> \in P
  <2>0. i \in 1..n /\ i \in 0..n /\ i - 1 \in Nat /\ (i - 1) + 1 = i /\ i \in Nat
    BY <1>1
  <2> DEFINE m == i - 1
  <2>1. /\ v \in Index /\ Side(m) \in Index /\ v = Numbered(Side(m), index.lastSeq + m)
        /\ \A t \in Task : (~ \E j \in 1..m : op.tasks[j] = t) => v.tasks[t] = index.tasks[t]
    <3> HIDE DEF Side
    <3> QED
      BY <1>7
  <2>2. Side(i) = ApplyEdit(Side(m), edits[i])
    <3>1. /\ SubSeq(edits, 1, m) \in Seq(EditRecord)
          /\ SubSeq(edits, 1, m + 1) = Append(SubSeq(edits, 1, m), edits[m + 1])
      BY <1>4, <2>0, Edit!PrefixGrows
    <3>2. PICK part \in Seq(EditRecord) : part = SubSeq(edits, 1, m)
      BY <3>1
    <3>3. Edit!Fold(index, Append(part, edits[i])) = ApplyEdit(Edit!Fold(index, part), edits[i])
      BY Edit!FoldAppend
    <3> QED
      BY <2>0, <3>1, <3>2, <3>3
  <2>3. PICK x \in Index : x = Side(m)
    BY <2>1
  <2>4. PICK y : y = Side(i)
    OBVIOUS
  <2> HIDE DEF Side
  <2>5. PICK line \in Line, edit \in EditRecord : line = lines[i] /\ edit = edits[i]
    BY <1>5, <2>0
  <2>6. /\ line.kind = op.kind /\ line.task = op.tasks[i] /\ line.status = op.status
        /\ edit.kind = op.kind /\ edit.task = op.tasks[i] /\ edit.status = op.status
        /\ line.seq = index.lastSeq + i /\ op.tasks[i] \in Task
    BY <1>1, <1>4, <2>0, <2>5
  <2>7. /\ v.tasks = x.tasks /\ v.lastSeq = index.lastSeq + m /\ v = Numbered(x, index.lastSeq + m)
        /\ v.lastSeq \in Nat
    <3>1. PICK c \in Nat : c = index.lastSeq + m
      BY <1>2, <2>0
    <3>2. v = Numbered(x, c)
      BY <2>1, <2>3, <3>1
    <3> QED
      BY <3>1, <3>2, NumberedTyped
  <2>8. ~ \E j \in 1..m : op.tasks[j] = op.tasks[i]
    BY <2>0
  <2>9. v.tasks[op.tasks[i]] = index.tasks[op.tasks[i]]
    BY <2>1, <2>6, <2>8
  <2>10. edit.kind = "create" <=> v.tasks[edit.task] = Absent
    <3>1. CASE op.kind = "create"
      BY <2>0, <2>6, <2>9, <3>1
    <3>2. CASE op.kind = "update"
      BY <1>1, <2>0, <2>6, <2>9, <3>2
    <3> QED
      BY <1>1, <3>1, <3>2
  <2>11. ApplyOperation(v, line) = Numbered(ApplyEdit(v, edit), line.seq)
    <3>1. v.lastSeq < line.seq
      BY <1>2, <2>0, <2>6, <2>7
    <3> QED
      BY <2>1, <2>6, <2>10, <3>1, SameStep
  <2>12. Numbered(ApplyEdit(v, edit), line.seq) = Numbered(ApplyEdit(x, edit), line.seq)
    <3>1. PICK c \in Nat, d \in Nat : c = v.lastSeq /\ d = line.seq
      BY <2>7 DEF Line
    <3>2. v = Numbered(x, c)
      BY <2>7, <3>1
    <3> QED
      BY <3>1, <3>2, EditNumbered
  <2>13. y = ApplyEdit(x, edit) /\ y \in Index
    BY <2>2, <2>3, <2>4, <2>5, EditEffect
  <2>14. PICK w : w = ApplyOperation(v, line)
    OBVIOUS
  <2>15. w = Numbered(y, index.lastSeq + i) /\ w \in Index /\ w.tasks = y.tasks
    <3>1. PICK c \in Nat : c = index.lastSeq + i
      BY <1>2, <2>0
    <3>2. w = Numbered(y, c)
      BY <2>6, <2>11, <2>12, <2>13, <2>14, <3>1
    <3> QED
      BY <2>13, <3>1, <3>2, NumberedTyped
  <2>16. ASSUME NEW t \in Task, ~ \E j \in 1..i : op.tasks[j] = t PROVE w.tasks[t] = index.tasks[t]
    <3>1. t # edit.task /\ ~ \E j \in 1..m : op.tasks[j] = t
      BY <2>0, <2>6, <2>16
    <3>2. y.tasks[t] = x.tasks[t]
      BY <2>13, <3>1, EditEffect
    <3> QED
      BY <2>1, <2>7, <2>15, <3>1, <3>2
  <2>17. <<i, w>> \in P
    BY <2>0, <2>4, <2>13, <2>15, <2>16
  <2> QED
    BY <2>5, <2>14, <2>17
<1>8. <<Len(lines), Replay!Fold(index, lines)>> \in P
  <2> HIDE DEF P
  <2> QED
    BY <1>6, <1>7, Replay!FoldInduct
<1>9. Replay!Fold(index, lines) = Numbered(Side(n), index.lastSeq + n)
  <2> HIDE DEF Side
  <2> QED
    BY <1>8
<1>10. SubSeq(edits, 1, n) = edits
  BY <1>4
<1>11. Side(n) = ApplyCall(index, op)
  <2>1. Side(n) = Edit!Fold(index, edits)
    BY <1>10
  <2>2. FoldLeft(ApplyEdit, index, edits) = Edit!Fold(index, edits)
    BY EditIsFold
  <2> QED
    BY <1>3, <2>1, <2>2 DEF ApplyCall
<1> QED
  BY <1>9, <1>11
-----------------------------------------------------------------------------
(***************************************************************************)
(* The shape of what the processes hold.                                   *)
(***************************************************************************)
IndexTyped ==
    /\ snapshot \in Index
    /\ cache \in [Process -> Index \cup {NoCache}]
    /\ work \in [Process -> Index]

\* A process that takes no part has no call and no index.
Outside == \A p \in Process : p \notin env.procs => pc[p] = "rest" /\ cache[p] = NoCache

\* A call was let in only if its numbers stay within the bound.
Bounded ==
    /\ LastSeq <= env.maxSeq
    /\ \A p \in Process : pc[p] \in Before => ReadSequence + Len(call[p].tasks) <= env.maxSeq

\* A mutation that has come so far has an index to edit.
Equipped ==
    \A p \in Process :
        /\ pc[p] \in {"append"} \cup After /\ call[p].kind # "snapshot" => cache[p] # NoCache
        /\ pc[p] \in {"commit", "manifest"} => call[p].kind # "snapshot"

FormInv == IndexTyped /\ Outside /\ Bounded /\ Equipped

LEMMA InitForm == ASSUME Init PROVE FormInv
<1> USE QueueAssumption
<1>1. NewIndex \in Index
  BY DEF NewIndex, Index
<1>2. IndexTyped
  BY <1>1 DEF Init, IndexTyped
<1>3. LastSeq = 0 /\ env.maxSeq \in Nat
  BY DEF Init, LastSeq, NewIndex
<1> QED
  BY <1>2, <1>3 DEF Init, FormInv, Outside, Bounded, Equipped, Before, After

\* Every step keeps the indexes well formed.
LEMMA FormStep == ASSUME IInv, IInv', FormInv, [Next]_vars PROVE FormInv'
<1> USE QueueAssumption
<1>0. /\ Hydrated \in Index /\ Typed /\ Typed' /\ Locked /\ Locked' /\ IndexTyped
      /\ \A p \in Process : pc[p] \in Resting \cup Before \cup After
  BY HydratedReplay DEF IInv, FormInv, Typed, IndexTyped
<1>1. ASSUME NEW p \in Process, NEW op \in Operation, Begin(p, op) PROVE FormInv'
  <2>1. IndexTyped' /\ Outside' /\ Equipped'
    BY <1>0, <1>1 DEF Begin, Goto, FormInv, IndexTyped, Outside, Equipped, Typed, After, Before, Resting
  <2>2. LastSeq' = LastSeq /\ ReadSequence' = ReadSequence /\ env' = env
    BY <1>1 DEF Begin, LastSeq, ReadSequence
  <2>3. Bounded'
    BY <1>0, <1>1, <2>2 DEF Begin, Goto, FormInv, Bounded, Typed, Before, Resting
  <2> QED
    BY <2>1, <2>3 DEF FormInv
<1>2. ASSUME NEW p \in Process, OpenCache(p) PROVE FormInv'
  <2>1. cache' = [cache EXCEPT ![p] = IF cache[p] = NoCache THEN Hydrated ELSE cache[p]]
    BY <1>2 DEF OpenCache
  <2>2. IndexTyped'
    BY <1>0, <1>2, <2>1 DEF OpenCache, IndexTyped
  <2>3. p \in env.procs /\ env' = env /\ call' = call /\ call[p].kind # "snapshot"
    BY <1>2 DEF OpenCache, FormInv, Outside
  <2>4. pc' = [pc EXCEPT ![p] = "failed"] \/ pc' = [pc EXCEPT ![p] = "append"]
    BY <1>2 DEF OpenCache, Finish, Goto
  <2>5. Outside'
    BY <1>0, <2>1, <2>3, <2>4 DEF FormInv, Outside, Typed, IndexTyped
  <2>6. Equipped'
    <3>1. pc'[p] \in {"failed", "append"} /\ \A q \in Process : q # p => pc'[q] = pc[q] /\ cache'[q] = cache[q]
      BY <1>0, <2>1, <2>4 DEF Typed, IndexTyped
    <3>2. cache'[p] # NoCache
      BY <1>0, <2>1 DEF IndexTyped
    <3> QED
      BY <2>3, <3>1, <3>2 DEF FormInv, Equipped, After
  <2>7. LastSeq' = LastSeq /\ ReadSequence' = ReadSequence
    BY <1>2 DEF OpenCache, LastSeq, ReadSequence
  <2>8. Bounded'
    BY <1>0, <1>2, <2>3, <2>4, <2>7 DEF OpenCache, FormInv, Bounded, Typed, Before
  <2> QED
    BY <2>2, <2>5, <2>6, <2>8 DEF FormInv
<1>3. ASSUME NEW p \in Process, AppendLines(p) PROVE FormInv'
  <2>1. pc[p] = "append" /\ pc' = [pc EXCEPT ![p] = "commit"] /\ call[p].kind # "snapshot"
    BY <1>3 DEF AppendLines, Goto, IInv, Ready
  <2>2. IndexTyped' /\ Outside' /\ Equipped'
    BY <1>0, <1>3, <2>1 DEF AppendLines, FormInv, IndexTyped, Outside, Equipped, Typed, After
  <2>3. \A q \in Process : pc'[q] \notin Before
    BY <1>0, <2>1 DEF Locked, Typed, Before, Resting
  <2>4. LastSeq' <= env.maxSeq
    <3>1. ReadSequence = LastSeq /\ LastSeq \in Nat
      BY <1>0, <2>1, LastNumber DEF IInv, Locked, Counted, Committing, Resting
    <3>2. PICK n \in Nat \ {0} : n = Len(call[p].tasks)
      BY <1>0, <2>1, MutationTyped DEF Typed
    <3>3. LastSeq + n <= env.maxSeq
      BY <2>1, <3>1, <3>2 DEF FormInv, Bounded, Before
    <3>4. PICK lines \in Seq(Line) : /\ lines = Lines(call[p]) /\ Len(lines) = n
                                     /\ \A i \in 1..n : lines[i].seq = LastSeq + i
      BY <1>0, <2>1, <3>1, <3>2, LinesNumbered DEF Typed
    <3>5. log' = log \o lines /\ log \in Seq(Line) /\ snapshot' = snapshot
      BY <1>0, <1>3, <3>4 DEF AppendLines, Typed
    <3>6. log'[Len(log')] = lines[n]
      BY <3>2, <3>4, <3>5
    <3>7. snapshot.lastSeq <= env.maxSeq
      <4>1. snapshot.lastSeq <= LastSeq
        BY <1>0, LastNumber DEF IInv, Typed, Joined
      <4>2. env.maxSeq \in Nat
        BY <1>0 DEF Typed
      <4> QED
        BY <1>0, <3>1, <3>2, <3>3, <4>1, <4>2 DEF Typed
    <3>8. LastSeq' \in {lines[n].seq, snapshot.lastSeq}
      BY <3>5, <3>6 DEF LastSeq
    <3>9. lines[n].seq = LastSeq + n
      BY <3>2, <3>4
    <3> QED
      BY <3>3, <3>7, <3>8, <3>9
  <2>5. env' = env
    BY <1>3 DEF AppendLines
  <2> QED
    BY <2>2, <2>3, <2>4, <2>5 DEF FormInv, Bounded
<1>4. ASSUME NEW p \in Process, Commit(p) PROVE FormInv'
  <2>1. /\ pc[p] = "commit" /\ call[p].kind # "snapshot" /\ call[p] \in Operation
        /\ cache[p] \in Index /\ UNCHANGED <<log, snapshot, env, call>>
    BY <1>0, <1>4 DEF Commit, FormInv, Equipped, IndexTyped, Typed, After
  <2>2. PICK index \in Index :
            /\ cache' = [cache EXCEPT ![p] = index]
            /\ work' = work \/ work' = [work EXCEPT ![p] = index]
    <3>1. counter' \in Nat
      BY <1>4, <1>0, LastNumber DEF Commit, IInv, Counted, Committing
    <3>2. ApplyCall(cache[p], call[p]) \in Index
      BY <2>1, EditCall
    <3>3. Numbered(ApplyCall(cache[p], call[p]), counter') \in Index
      BY <3>1, <3>2, NumberedTyped
    <3>4. cache' = [cache EXCEPT ![p] = Numbered(ApplyCall(cache[p], call[p]), counter')]
          /\ (work' = work \/ work' = [work EXCEPT ![p] = Numbered(ApplyCall(cache[p], call[p]), counter')])
      BY <1>0, <1>4 DEF Commit, IndexTyped
    <3> QED
      BY <3>3, <3>4
  <2>3. pc' = [pc EXCEPT ![p] = "save"] \/ pc' = [pc EXCEPT ![p] = "manifest"]
    BY <1>4 DEF Commit, Goto
  <2>4. IndexTyped' /\ Outside'
    BY <1>0, <2>1, <2>2, <2>3 DEF FormInv, IndexTyped, Outside, Typed
  <2>5. Equipped'
    BY <1>0, <2>1, <2>2, <2>3 DEF FormInv, Equipped, IndexTyped, Typed, After
  <2>6. \A q \in Process : pc'[q] \notin Before
    BY <1>0, <2>1, <2>3 DEF Locked, Typed, Before, Resting
  <2>7. LastSeq' = LastSeq
    BY <2>1 DEF LastSeq
  <2> QED
    BY <2>1, <2>4, <2>5, <2>6, <2>7 DEF FormInv, Bounded
<1>5. ASSUME NEW p \in Process, Rebuild(p) PROVE FormInv'
  <2>1. pc[p] = "open" /\ call[p].kind = "snapshot" /\ UNCHANGED <<log, counter, snapshot, cache, call, env>>
    BY <1>5 DEF Rebuild
  <2>2. pc' = [pc EXCEPT ![p] = "save"] \/ pc' = [pc EXCEPT ![p] = "ok"] \/ pc' = [pc EXCEPT ![p] = "truncate"]
    BY <1>5 DEF Rebuild, Finish, Goto
  <2>3. work' = work \/ work' = [work EXCEPT ![p] = Hydrated]
    BY <1>5 DEF Rebuild
  <2>4. IndexTyped' /\ Outside' /\ Equipped'
    BY <1>0, <2>1, <2>2, <2>3 DEF FormInv, IndexTyped, Outside, Equipped, Typed
  <2>5. LastSeq' = LastSeq /\ ReadSequence' = ReadSequence
    BY <2>1 DEF LastSeq, ReadSequence
  <2>6. Bounded'
    BY <1>0, <2>1, <2>2, <2>5 DEF FormInv, Bounded, Typed, Before
  <2> QED
    BY <2>4, <2>6 DEF FormInv
<1>6. ASSUME NEW p \in Process, SaveSnapshot(p) PROVE FormInv'
  <2>1. /\ pc[p] = "save" /\ UNCHANGED <<log, counter, cache, call, env>> /\ snapshot' = work[p]
        /\ work' = [work EXCEPT ![p] = NewIndex] /\ pc' = [pc EXCEPT ![p] = "truncate"]
    BY <1>6 DEF SaveSnapshot, Goto
  <2>2. NewIndex \in Index
    BY DEF NewIndex, Index
  <2>3. IndexTyped' /\ Outside' /\ Equipped'
    BY <1>0, <2>1, <2>2 DEF FormInv, IndexTyped, Outside, Equipped, Typed, After
  <2>4. snapshot'.lastSeq = LastSeq
    BY <2>1 DEF IInv, Ready
  <2>5. LastSeq' = LastSeq
    <3>1. LastSeq \in Nat /\ (log # <<>> => LastSeq = log[Len(log)].seq)
      BY LastNumber DEF IInv
    <3> QED
      BY <2>1, <2>4, <3>1 DEF LastSeq
  <2>6. \A q \in Process : pc'[q] \notin Before
    BY <1>0, <2>1 DEF Locked, Typed, Before, Resting
  <2> QED
    BY <2>1, <2>3, <2>5, <2>6 DEF FormInv, Bounded
<1>7. ASSUME NEW p \in Process, TruncateLog(p) PROVE FormInv'
  <2>1. /\ pc[p] = "truncate" /\ UNCHANGED <<counter, snapshot, cache, work, call, env>> /\ log' = <<>>
        /\ pc' = [pc EXCEPT ![p] = "recount"] /\ LastSeq = snapshot.lastSeq
    BY <1>7 DEF TruncateLog, Goto, IInv, Ready
  <2>2. IndexTyped' /\ Outside' /\ Equipped'
    BY <1>0, <2>1 DEF FormInv, IndexTyped, Outside, Equipped, Typed, After
  <2>3. LastSeq' = LastSeq
    BY <2>1 DEF LastSeq
  <2>4. \A q \in Process : pc'[q] \notin Before
    BY <1>0, <2>1 DEF Locked, Typed, Before, Resting
  <2> QED
    BY <2>1, <2>2, <2>3, <2>4 DEF FormInv, Bounded
<1>8. ASSUME NEW p \in Process, ResetCounter(p) PROVE FormInv'
  <2>1. pc[p] = "recount" /\ UNCHANGED <<log, snapshot, cache, work, call, env>>
    BY <1>8 DEF ResetCounter
  <2>2. \/ call[p].kind = "snapshot" /\ pc' = [pc EXCEPT ![p] = "ok"]
        \/ call[p].kind # "snapshot" /\ pc' = [pc EXCEPT ![p] = "manifest"]
    BY <1>8 DEF ResetCounter, Finish, Goto
  <2>3. IndexTyped' /\ Outside' /\ Equipped'
    BY <1>0, <2>1, <2>2 DEF FormInv, IndexTyped, Outside, Equipped, Typed, After
  <2>4. LastSeq' = LastSeq
    BY <2>1 DEF LastSeq
  <2>5. \A q \in Process : pc'[q] \notin Before
    BY <1>0, <2>1, <2>2 DEF Locked, Typed, Before, Resting
  <2> QED
    BY <2>1, <2>3, <2>4, <2>5 DEF FormInv, Bounded
<1>9. ASSUME NEW p \in Process, UpdateManifest(p) PROVE FormInv'
  <2>1. /\ pc[p] = "manifest" /\ UNCHANGED <<log, counter, snapshot, cache, work, call, env>>
        /\ pc' = [pc EXCEPT ![p] = "ok"]
    BY <1>9 DEF UpdateManifest, Finish, Goto
  <2>2. IndexTyped' /\ Outside' /\ Equipped'
    BY <1>0, <2>1 DEF FormInv, IndexTyped, Outside, Equipped, Typed, After
  <2>3. LastSeq' = LastSeq /\ ReadSequence' = ReadSequence
    BY <2>1 DEF LastSeq, ReadSequence
  <2>4. Bounded'
    BY <1>0, <2>1, <2>3 DEF FormInv, Bounded, Typed, Before
  <2> QED
    BY <2>2, <2>4 DEF FormInv
<1>10. ASSUME NEW p \in Process, LoadCache(p) \/ VerifySnapshot(p) \/ VerifyLog(p) PROVE FormInv'
  <2>1. UNCHANGED <<log, counter, snapshot, pc, call, work, env>>
    BY <1>10 DEF LoadCache, VerifySnapshot, VerifyLog
  <2>2. cache' = cache \/ (p \in env.procs /\ cache' = [cache EXCEPT ![p] = Hydrated])
    BY <1>10 DEF LoadCache, VerifySnapshot, VerifyLog
  <2>3. IndexTyped' /\ Outside' /\ Equipped'
    BY <1>0, <2>1, <2>2 DEF FormInv, IndexTyped, Outside, Equipped
  <2>4. Bounded'
    BY <2>1 DEF FormInv, Bounded, LastSeq, ReadSequence
  <2> QED
    BY <2>3, <2>4 DEF FormInv
<1>11. ASSUME NEW p \in Process, Crash(p) PROVE FormInv'
  <2>1. /\ UNCHANGED <<log, counter, snapshot, call, env>> /\ pc' = [pc EXCEPT ![p] = "rest"]
        /\ cache' = [cache EXCEPT ![p] = NoCache] /\ work' = [work EXCEPT ![p] = NewIndex]
    BY <1>11 DEF Crash, Goto
  <2>2. NewIndex \in Index
    BY DEF NewIndex, Index
  <2>3. IndexTyped' /\ Outside' /\ Equipped'
    <3>1. \A q \in Process : \/ pc'[q] = pc[q] /\ cache'[q] = cache[q]
                             \/ pc'[q] = "rest" /\ cache'[q] = NoCache
      BY <1>0, <2>1 DEF IndexTyped, Typed
    <3>2. Outside' /\ Equipped'
      BY <2>1, <3>1 DEF FormInv, Outside, Equipped, After
    <3> QED
      BY <1>0, <2>1, <2>2, <3>2 DEF IndexTyped
  <2>4. LastSeq' = LastSeq /\ ReadSequence' = ReadSequence
    BY <2>1 DEF LastSeq, ReadSequence
  <2>5. Bounded'
    BY <1>0, <2>1, <2>4 DEF FormInv, Bounded, Typed, Before
  <2> QED
    BY <2>3, <2>5 DEF FormInv
<1>12. CASE UNCHANGED vars
  BY <1>12 DEF vars, FormInv, IndexTyped, Outside, Bounded, Equipped, LastSeq, ReadSequence
<1> QED
  BY <1>1, <1>2, <1>3, <1>4, <1>5, <1>6, <1>7, <1>8, <1>9, <1>10, <1>11, <1>12 DEF Next
-----------------------------------------------------------------------------
(***************************************************************************)
(* What a step does to the queue that a restart would find.                *)
(***************************************************************************)
LEMMA LogBelow == ASSUME IInv PROVE \A i \in 1..Len(log) : log[i].seq <= LastSeq
<1>1. /\ Len(log) \in Nat /\ \A i \in 1..Len(log) : log[i].seq \in Nat /\ log[i].seq = log[1].seq + i - 1
  BY LogNumbers DEF IInv, Consecutive
<1>2. log # <<>> => LastSeq = log[Len(log)].seq
  BY LastNumber DEF IInv
<1>3. log # <<>> => Len(log) \in 1..Len(log)
  BY DEF IInv, Typed
<1> TAKE i \in 1..Len(log)
<1>4. log # <<>>
  BY DEF IInv, Typed
<1> QED
  BY <1>1, <1>2, <1>3, <1>4

\* A snapshot of all that was logged takes the place of snapshot and log.
LEMMA SaveEffect ==
    ASSUME IInv, IInv', FormInv, FormInv', NEW p \in Process, SaveSnapshot(p)
    PROVE  Hydrated' = work[p]
<1>1. /\ snapshot' = work[p] /\ log' = log /\ work[p].lastSeq = LastSeq /\ log \in Seq(Line)
  BY DEF SaveSnapshot, IInv, Ready, Typed
<1>2. Hydrated' = Replay!Fold(work[p], log)
  BY <1>1, HydratedReplayNext DEF FormInv, IndexTyped
<1> QED
  BY <1>1, <1>2, LogBelow, Covered

\* The log that is cut held nothing the snapshot had not.
LEMMA TruncateEffect ==
    ASSUME IInv, IInv', FormInv, FormInv', NEW p \in Process, TruncateLog(p)
    PROVE  Hydrated' = Hydrated
<1>1. /\ snapshot' = snapshot /\ log' = <<>> /\ LastSeq = snapshot.lastSeq /\ log \in Seq(Line)
  BY DEF TruncateLog, IInv, Ready, Typed
<1>2. Hydrated' = Replay!Fold(snapshot, <<>>)
  BY <1>1, HydratedReplayNext DEF FormInv, IndexTyped
<1>3. Hydrated = Replay!Fold(snapshot, log)
  BY HydratedReplay DEF FormInv, IndexTyped
<1> QED
  BY <1>1, <1>2, <1>3, LogBelow, Covered, Replay!FoldEmpty

\* What is known about the lines of a call that is about to append them.
LEMMA AppendFollows ==
    ASSUME IInv, IInv', FormInv, FormInv', NEW p \in Process, AppendLines(p)
    PROVE  \E lines \in Seq(Line) :
                /\ Len(lines) = Len(call[p].tasks)
                /\ \A i \in 1..Len(call[p].tasks) :
                        /\ lines[i].kind = call[p].kind /\ lines[i].task = call[p].tasks[i]
                        /\ lines[i].status = call[p].status /\ lines[i].seq = Hydrated.lastSeq + i
                /\ Hydrated' = Replay!Fold(Hydrated, lines)
<1>1. /\ pc[p] = "append" /\ call[p] \in Operation /\ call[p].kind # "snapshot"
      /\ snapshot' = snapshot /\ log' = log \o Lines(call[p]) /\ log \in Seq(Line)
  BY DEF AppendLines, IInv, Ready, Typed
<1>2. ReadSequence = LastSeq /\ LastSeq \in Nat
  BY <1>1, LastNumber DEF IInv, Locked, Counted, Committing, Resting
<1>3. PICK lines \in Seq(Line) :
          /\ lines = Lines(call[p]) /\ Len(lines) = Len(call[p].tasks)
          /\ \A i \in 1..Len(call[p].tasks) :
                /\ lines[i].kind = call[p].kind /\ lines[i].task = call[p].tasks[i]
                /\ lines[i].status = call[p].status /\ lines[i].seq = LastSeq + i
  BY <1>1, <1>2, LinesOfCall
<1>4. Hydrated = Replay!Fold(snapshot, log) /\ Hydrated.lastSeq = LastSeq
  BY HydratedReplay DEF FormInv, IndexTyped
<1>5. Hydrated' = Replay!Fold(snapshot, log \o lines)
  BY <1>1, <1>3, HydratedReplayNext DEF FormInv, IndexTyped
<1>6. Replay!Fold(snapshot, log \o lines) = Replay!Fold(Replay!Fold(snapshot, log), lines)
  BY <1>1, Replay!FoldConcat
<1> QED
  BY <1>3, <1>4, <1>5, <1>6

\* The append of the lines is the moment at which a call takes effect.
LEMMA AppendEffect ==
    ASSUME IInv, IInv', FormInv, FormInv', NEW p \in Process, AppendLines(p),
           call[p].kind = "update" => Hydrated.tasks[call[p].tasks[1]] # Absent
    PROVE  Hydrated.tasks' = Said(call[p], Len(call[p].tasks), Hydrated)
<1>1. PICK lines \in Seq(Line) :
          /\ Len(lines) = Len(call[p].tasks)
          /\ \A i \in 1..Len(call[p].tasks) :
                /\ lines[i].kind = call[p].kind /\ lines[i].task = call[p].tasks[i]
                /\ lines[i].status = call[p].status /\ lines[i].seq = Hydrated.lastSeq + i
          /\ Hydrated' = Replay!Fold(Hydrated, lines)
  BY AppendFollows
<1>2. call[p] \in Operation /\ call[p].kind # "snapshot" /\ Hydrated \in Index
  BY HydratedReplay DEF AppendLines, IInv, Ready, Typed, FormInv, IndexTyped
<1>3. PICK op \in Operation, index \in Index : op = call[p] /\ index = Hydrated
  BY <1>2
<1>4. Replay!Fold(index, lines).tasks = Said(op, Len(op.tasks), index)
  BY <1>1, <1>2, <1>3, ReplayCall
<1> QED
  BY <1>1, <1>3, <1>4

\* A batch names a task once.
Distinct == \A b \in Batch : \A i, j \in 1..Len(b) : b[i] = b[j] => i = j

\* So a log with the lines of a call reads as the index with the call applied.
LEMMA AppendSame ==
    ASSUME Distinct, IInv, IInv', FormInv, FormInv', NEW p \in Process, AppendLines(p),
           call[p].kind = "create" => \A i \in 1..Len(call[p].tasks) : Hydrated.tasks[call[p].tasks[i]] = Absent,
           call[p].kind = "update" => Hydrated.tasks[call[p].tasks[1]] # Absent
    PROVE  Hydrated' = Numbered(ApplyCall(Hydrated, call[p]), Hydrated.lastSeq + Len(call[p].tasks))
<1>1. PICK lines \in Seq(Line) :
          /\ Len(lines) = Len(call[p].tasks)
          /\ \A i \in 1..Len(call[p].tasks) :
                /\ lines[i].kind = call[p].kind /\ lines[i].task = call[p].tasks[i]
                /\ lines[i].status = call[p].status /\ lines[i].seq = Hydrated.lastSeq + i
          /\ Hydrated' = Replay!Fold(Hydrated, lines)
  BY AppendFollows
<1>2. call[p] \in Operation /\ call[p].kind # "snapshot" /\ Hydrated \in Index
  BY HydratedReplay DEF AppendLines, IInv, Ready, Typed, FormInv, IndexTyped
<1>3. PICK op \in Operation, index \in Index : op = call[p] /\ index = Hydrated
  BY <1>2
<1>4. \A i, j \in 1..Len(op.tasks) : op.tasks[i] = op.tasks[j] => i = j
  BY <1>2, <1>3, MutationTyped DEF Distinct
<1>5. /\ op.kind # "snapshot" /\ Len(lines) = Len(op.tasks)
      /\ \A i \in 1..Len(op.tasks) :
                /\ lines[i].kind = op.kind /\ lines[i].task = op.tasks[i]
                /\ lines[i].status = op.status /\ lines[i].seq = index.lastSeq + i
      /\ op.kind = "create" => \A i \in 1..Len(op.tasks) : index.tasks[op.tasks[i]] = Absent
      /\ op.kind = "update" => index.tasks[op.tasks[1]] # Absent
  BY <1>1, <1>2, <1>3
<1>6. Replay!Fold(index, lines) = Numbered(ApplyCall(index, op), index.lastSeq + Len(op.tasks))
  BY <1>4, <1>5, SameCall
<1> QED
  BY <1>1, <1>3, <1>6
-----------------------------------------------------------------------------
(***************************************************************************)
(* A queue is read faithfully by a process that has it for itself and      *)
(* creates no task twice, or if no log ever gets so long that an update    *)
(* writes the snapshot from its own index: the run QueueWal_stale_-        *)
(* compaction shows what two processes do otherwise.                       *)
(***************************************************************************)
Faithful == (Alone /\ OnceOnly) \/ env.maxUpdates > env.maxSeq

\* An index in memory knows no task that the files do not know.
Growing ==
    Faithful => \A p \in Process : cache[p] # NoCache =>
        \A t \in Task : cache[p].tasks[t] # Absent => Hydrated.tasks[t] # Absent

\* An update is logged only for a task that exists, and a logged call has its tasks on disk.
Known ==
    Faithful => \A p \in Process :
        /\ pc[p] = "append" /\ call[p].kind = "update" => Hydrated.tasks[call[p].tasks[1]] # Absent
        /\ pc[p] = "commit" =>
                \A i \in 1..Len(call[p].tasks) : Hydrated.tasks[call[p].tasks[i]] # Absent

Saved == Faithful => \A p \in Process : pc[p] = "save" => work[p] = Hydrated

Unborn ==
    OnceOnly => \A p \in Process : pc[p] \in Before /\ call[p].kind = "create" =>
        \A i \in 1..Len(call[p].tasks) : Hydrated.tasks[call[p].tasks[i]] = Absent

\* Who is alone has the queue in memory, but for the call it has logged and not yet applied.
Current ==
    Alone /\ OnceOnly => \A p \in Process :
        IF pc[p] = "commit" THEN Numbered(ApplyCall(cache[p], call[p]), LastSeq) = Hydrated
                            ELSE cache[p] \in {NoCache, Hydrated}

DataInv == Growing /\ Known /\ Saved /\ Unborn /\ Current

LEMMA InitData == ASSUME Init PROVE DataInv
  BY DEF Init, DataInv, Growing, Known, Saved, Unborn, Current, Before

\* Steps that leave the queue and the indexes as they are.
LEMMA DataKept ==
    ASSUME DataInv, Hydrated' = Hydrated, env' = env, UNCHANGED <<cache, call>>,
           \A p \in Process : pc'[p] # "commit" /\ (pc'[p] \in Before \cup {"save"} => pc'[p] = pc[p]),
           \A p \in Process : pc[p] # "commit",
           \A p \in Process : pc'[p] = "save" => work'[p] = work[p]
    PROVE  DataInv'
<1>1. Faithful' = Faithful /\ Alone' = Alone /\ OnceOnly' = OnceOnly
  BY DEF Faithful, Alone, OnceOnly
<1>2. Growing' /\ Saved' /\ Current'
  BY <1>1 DEF DataInv, Growing, Saved, Current
<1>3. Known' /\ Unborn'
  BY <1>1 DEF DataInv, Known, Unborn, Before
<1> QED
  BY <1>2, <1>3 DEF DataInv

\* A log that is long enough to be compacted has reached the bound on the numbers.
LEMMA NeverFull ==
    ASSUME IInv, FormInv, log # <<>>, Len(log) >= env.maxUpdates
    PROVE  ~(env.maxUpdates > env.maxSeq)
<1>1. /\ Len(log) \in Nat \ {0}
      /\ \A i \in 1..Len(log) : log[i].seq = log[1].seq + i - 1
  BY LogNumbers DEF IInv, Consecutive, Typed
<1>2. LastSeq = log[Len(log)].seq /\ LastSeq <= env.maxSeq
  BY LastNumber DEF IInv, FormInv, Bounded
<1>3. log[1].seq \in Nat \ {0}
  <2>1. log[1] \in Line
    BY <1>1 DEF IInv, Typed
  <2> QED
    BY <2>1 DEF Line
<1>4. log[Len(log)].seq = log[1].seq + Len(log) - 1
  BY <1>1
<1>5. env.maxUpdates \in Nat /\ env.maxSeq \in Nat
  BY QueueAssumption DEF IInv, Typed
<1> QED
  BY <1>1, <1>2, <1>3, <1>4, <1>5

\* Every step keeps the invariant of the data.
LEMMA DataStep ==
    ASSUME NoWindow, Distinct, IInv, IInv', FormInv, FormInv', DataInv, [Next]_vars PROVE DataInv'
<1> USE QueueAssumption
<1>0. /\ Hydrated \in Index /\ Hydrated' \in Index /\ Typed /\ Typed' /\ Locked /\ Locked'
      /\ IndexTyped /\ IndexTyped' /\ Outside /\ Outside'
      /\ Hydrated.lastSeq = LastSeq /\ Hydrated.lastSeq' = LastSeq'
  BY HydratedReplay, HydratedReplayNext DEF IInv, FormInv, IndexTyped
<1>00. (UNCHANGED <<log, snapshot>> => Hydrated' = Hydrated /\ LastSeq' = LastSeq)
  BY DEF Hydrated, LastSeq
<1>1. ASSUME NEW p \in Process, NEW op \in Operation, Begin(p, op) PROVE DataInv'
  <2>1. /\ UNCHANGED <<log, snapshot, cache, work, env>> /\ pc' = [pc EXCEPT ![p] = "open"]
        /\ call' = [call EXCEPT ![p] = op] /\ lock = Nobody
    BY <1>1 DEF Begin, Goto
  <2>2. Hydrated' = Hydrated /\ LastSeq' = LastSeq
    BY <1>00, <2>1
  <2>3. \A q \in Process : pc[q] \in Resting
    BY <1>0, <2>1 DEF Locked
  <2>4. /\ pc'[p] = "open" /\ call'[p] = op
        /\ \A q \in Process : q # p => pc'[q] \in Resting /\ call'[q] = call[q]
    BY <1>0, <2>1, <2>3 DEF Typed
  <2>5. Faithful' = Faithful /\ Alone' = Alone /\ OnceOnly' = OnceOnly
    BY <2>1 DEF Faithful, Alone, OnceOnly
  <2>6. Growing' /\ Saved' /\ Known'
    BY <2>1, <2>2, <2>4, <2>5 DEF DataInv, Growing, Saved, Known, Resting
  <2>7. Current'
    <3>1. \A q \in Process : pc[q] # "commit" /\ pc'[q] # "commit"
      BY <2>3, <2>4 DEF Resting
    <3> QED
      BY <2>1, <2>2, <2>5, <3>1 DEF DataInv, Current
  <2>8. Unborn'
    <3>1. ASSUME op.kind = "create", OnceOnly
          PROVE  \A i \in 1..Len(op.tasks) : Hydrated.tasks[op.tasks[i]] = Absent
      <4>1. op.kind # "snapshot" /\ op.tasks \in Seq(Task)
        BY <3>1, MutationTyped
      <4>2. \A t \in Range(op.tasks) : Hydrated.tasks[t] = Absent
        BY <1>1, <3>1 DEF Begin, OnceOnly
      <4> QED
        BY <4>1, <4>2 DEF Range
    <3> QED
      BY <2>2, <2>4, <2>5, <3>1 DEF Unborn, Before, Resting
  <2> QED
    BY <2>6, <2>7, <2>8 DEF DataInv
<1>2. ASSUME NEW p \in Process, OpenCache(p) PROVE DataInv'
  <2>1. /\ UNCHANGED <<log, snapshot, work, env, call>> /\ pc[p] = "open" /\ call[p].kind # "snapshot"
        /\ cache' = [cache EXCEPT ![p] = IF cache[p] = NoCache THEN Hydrated ELSE cache[p]]
    BY <1>2 DEF OpenCache
  <2>2. \/ pc' = [pc EXCEPT ![p] = "failed"]
        \/ /\ pc' = [pc EXCEPT ![p] = "append"]
           /\ call[p].kind = "update" => cache'[p].tasks[call[p].tasks[1]] # Absent
    BY <1>0, <1>2 DEF OpenCache, Finish, Goto, IndexTyped
  <2>3. Hydrated' = Hydrated /\ LastSeq' = LastSeq
    BY <1>00, <2>1
  <2>4. /\ pc'[p] \in {"failed", "append"} /\ cache'[p] \in {cache[p], Hydrated} /\ cache'[p] # NoCache
        /\ \A q \in Process : q # p => pc'[q] = pc[q] /\ pc'[q] \in Resting /\ cache'[q] = cache[q]
    BY <1>0, <2>1, <2>2 DEF Typed, IndexTyped, Locked, Resting
  <2>5. Faithful' = Faithful /\ Alone' = Alone /\ OnceOnly' = OnceOnly
    BY <2>1 DEF Faithful, Alone, OnceOnly
  <2>6. Growing'
    <3>1. Faithful => \A t \in Task : cache'[p].tasks[t] # Absent => Hydrated.tasks[t] # Absent
      BY <2>4 DEF DataInv, Growing
    <3> QED
      BY <2>3, <2>4, <2>5, <3>1 DEF DataInv, Growing
  <2>7. Known'
    <3>1. ASSUME Faithful, pc'[p] = "append", call[p].kind = "update"
          PROVE  Hydrated.tasks[call[p].tasks[1]] # Absent
      <4>1. call[p] \in Operation
        BY <1>0 DEF Typed
      <4>2. call[p].tasks[1] \in Task
        BY <2>1, <4>1, MutationTyped
      <4>3. cache'[p].tasks[call[p].tasks[1]] # Absent
        BY <1>0, <2>2, <3>1 DEF Typed
      <4>4. \A t \in Task : cache'[p].tasks[t] # Absent => Hydrated.tasks[t] # Absent
        BY <2>3, <2>4, <2>5, <2>6, <3>1 DEF Growing
      <4> QED
        BY <4>2, <4>3, <4>4
    <3> QED
      BY <2>1, <2>3, <2>4, <2>5, <3>1 DEF Known, Resting
  <2>8. Saved' /\ Unborn'
    BY <2>1, <2>3, <2>4, <2>5 DEF DataInv, Saved, Unborn, Before, Resting
  <2>9. Current'
    <3>1. pc'[p] # "commit" /\ pc[p] # "commit"
      BY <2>1, <2>4
    <3> QED
      BY <2>1, <2>3, <2>4, <2>5, <3>1 DEF DataInv, Current, Resting
  <2> QED
    BY <2>6, <2>7, <2>8, <2>9 DEF DataInv
<1>3. ASSUME NEW p \in Process, AppendLines(p) PROVE DataInv'
  <2>1. /\ UNCHANGED <<snapshot, cache, work, env, call>> /\ pc[p] = "append"
        /\ pc' = [pc EXCEPT ![p] = "commit"] /\ call[p].kind # "snapshot" /\ call[p] \in Operation
    BY <1>3 DEF AppendLines, Goto, IInv, Ready, Typed
  <2>2. /\ pc'[p] = "commit" /\ lock = p
        /\ \A q \in Process : q # p => pc'[q] = pc[q] /\ pc'[q] \in Resting
    BY <1>0, <2>1 DEF Typed, Locked, Resting
  <2>3. Faithful' = Faithful /\ Alone' = Alone /\ OnceOnly' = OnceOnly
    BY <2>1 DEF Faithful, Alone, OnceOnly
  <2>4. Unborn'
    BY <2>2 DEF Unborn, Before, Resting
  <2>5. CASE ~Faithful
    BY <2>3, <2>4, <2>5 DEF DataInv, Growing, Known, Saved, Current, Faithful
  <2>6. CASE Faithful
    <3>1. call[p].kind = "update" => Hydrated.tasks[call[p].tasks[1]] # Absent
      BY <2>1, <2>6 DEF DataInv, Known
    <3>2. Hydrated.tasks' = Said(call[p], Len(call[p].tasks), Hydrated)
      BY <1>3, <3>1, AppendEffect
    <3>3. /\ call[p].status \in Status /\ Len(call[p].tasks) \in Nat
          /\ \A i \in 1..Len(call[p].tasks) : call[p].tasks[i] \in Task
      BY <2>1, MutationTyped
    <3>4. /\ \A t \in Task : Hydrated.tasks[t] # Absent => Hydrated.tasks'[t] # Absent
          /\ \A i \in 1..Len(call[p].tasks) : Hydrated.tasks'[call[p].tasks[i]] # Absent
      BY <3>2, <3>3 DEF Said
    <3>5. Growing'
      BY <2>1, <2>3, <2>6, <3>4 DEF DataInv, Growing
    <3>6. Known' /\ Saved'
      BY <2>1, <2>2, <3>4 DEF Known, Saved, Resting
    <3>7. Current'
      <4> SUFFICES ASSUME Alone, OnceOnly PROVE Current'
        BY <2>3 DEF Current
      <4>1. cache[p] = Hydrated
        BY <2>1 DEF DataInv, Current, FormInv, Equipped
      <4>2. call[p].kind = "create" =>
                \A i \in 1..Len(call[p].tasks) : Hydrated.tasks[call[p].tasks[i]] = Absent
        BY <2>1 DEF DataInv, Unborn, Before
      <4>3. Hydrated' = Numbered(ApplyCall(Hydrated, call[p]), Hydrated.lastSeq + Len(call[p].tasks))
        BY <1>3, <3>1, <4>2, AppendSame
      <4>4. LastSeq' = Hydrated.lastSeq + Len(call[p].tasks)
        <5>1. Numbered(ApplyCall(Hydrated, call[p]), Hydrated.lastSeq + Len(call[p].tasks)).lastSeq
                = Hydrated.lastSeq + Len(call[p].tasks)
          BY DEF Numbered
        <5> QED
          BY <1>0, <4>3, <5>1
      <4>5. ApplyCall(cache[p], call[p])' = ApplyCall(Hydrated, call[p])
        BY <2>1, <4>1 DEF ApplyCall
      <4>6. Numbered(ApplyCall(cache[p], call[p]), LastSeq)' = Hydrated'
        BY <4>3, <4>4, <4>5 DEF Numbered
      <4>7. \A q \in Process : q # p => cache'[q] = NoCache
        BY <1>0, <2>1 DEF Outside, Alone
      <4> QED
        BY <2>2, <4>6, <4>7 DEF Current, Resting
    <3> QED
      BY <2>4, <3>5, <3>6, <3>7 DEF DataInv
  <2> QED
    BY <2>5, <2>6
<1>4. ASSUME NEW p \in Process, Commit(p) PROVE DataInv'
  <2> DEFINE index == Numbered(ApplyCall(cache[p], call[p]), LastSeq)
  <2>1. /\ UNCHANGED <<log, snapshot, env, call>> /\ pc[p] = "commit" /\ log # <<>> /\ counter' = LastSeq
        /\ call[p].kind # "snapshot" /\ call[p] \in Operation /\ cache[p] \in Index
    <3>1. log # <<>> /\ LastSeq = log[Len(log)].seq
      BY <1>4, LastNumber DEF Commit, IInv, Counted, Committing
    <3> QED
      BY <1>0, <1>4, <3>1 DEF Commit, FormInv, Equipped, IndexTyped, Typed, After
  <2>2. /\ cache' = [cache EXCEPT ![p] = index]
        /\ \/ pc' = [pc EXCEPT ![p] = "manifest"]
           \/ /\ pc' = [pc EXCEPT ![p] = "save"] /\ work' = [work EXCEPT ![p] = index]
              /\ Len(log) >= env.maxUpdates
    BY <1>0, <1>4, <2>1 DEF Commit, Goto
  <2>3. Hydrated' = Hydrated /\ LastSeq' = LastSeq
    BY <1>00, <2>1
  <2> HIDE DEF index
  <2>4. /\ pc'[p] \in {"manifest", "save"} /\ cache'[p] = index
        /\ \A q \in Process : q # p => pc'[q] = pc[q] /\ pc'[q] \in Resting /\ cache'[q] = cache[q]
    BY <1>0, <2>1, <2>2 DEF Typed, IndexTyped, Locked, Resting
  <2>5. Faithful' = Faithful /\ Alone' = Alone /\ OnceOnly' = OnceOnly
    BY <2>1 DEF Faithful, Alone, OnceOnly
  <2>6. Growing'
    <3>1. ASSUME Faithful, NEW t \in Task, index.tasks[t] # Absent PROVE Hydrated.tasks[t] # Absent
      <4>1. index.tasks = ApplyCall(cache[p], call[p]).tasks
        BY DEF index, Numbered
      <4>2. \/ cache[p].tasks[t] # Absent
            \/ \E i \in 1..Len(call[p].tasks) : call[p].tasks[i] = t
        BY <2>1, <3>1, <4>1, EditCall
      <4>3. cache[p] # NoCache
        BY <2>1
      <4> QED
        BY <2>1, <3>1, <4>2, <4>3 DEF DataInv, Growing, Known
    <3> QED
      BY <2>3, <2>4, <2>5, <3>1 DEF DataInv, Growing
  <2>7. Known' /\ Unborn'
    BY <2>4 DEF Known, Unborn, Before, Resting
  <2>8. Alone /\ OnceOnly => index = Hydrated
    BY <2>1 DEF DataInv, Current, index
  <2>9. Saved'
    <3>1. ASSUME Faithful, pc'[p] = "save" PROVE work'[p] = Hydrated
      <4>1. pc' = [pc EXCEPT ![p] = "save"] /\ work' = [work EXCEPT ![p] = index] /\ Len(log) >= env.maxUpdates
        BY <1>0, <2>2, <3>1 DEF Typed
      <4>2. ~(env.maxUpdates > env.maxSeq)
        BY <1>0, <2>1, <4>1, NeverFull
      <4>3. index = Hydrated
        BY <2>8, <3>1, <4>2 DEF Faithful
      <4> QED
        BY <1>0, <4>1, <4>3 DEF IndexTyped
    <3> QED
      BY <2>3, <2>4, <2>5, <3>1 DEF Saved, Resting
  <2>10. Current'
    <3>1. \A q \in Process : q # p => pc[q] # "commit"
      BY <2>4 DEF Resting
    <3> QED
      BY <2>3, <2>4, <2>5, <2>8, <3>1 DEF DataInv, Current, Resting
  <2> QED
    BY <2>6, <2>7, <2>9, <2>10 DEF DataInv
<1>5. ASSUME NEW p \in Process, Rebuild(p) PROVE DataInv'
  <2>1. pc[p] = "open" /\ call[p].kind = "snapshot" /\ UNCHANGED <<log, snapshot, cache, call, env>>
    BY <1>5 DEF Rebuild
  <2>2. \/ pc' = [pc EXCEPT ![p] = "save"] /\ work' = [work EXCEPT ![p] = Hydrated]
        \/ pc' = [pc EXCEPT ![p] = "ok"] \/ pc' = [pc EXCEPT ![p] = "truncate"]
    BY <1>5 DEF Rebuild, Finish, Goto
  <2>3. Hydrated' = Hydrated /\ LastSeq' = LastSeq
    BY <1>00, <2>1
  <2>4. /\ pc'[p] \in {"save", "ok", "truncate"} /\ (pc'[p] = "save" => work'[p] = Hydrated)
        /\ \A q \in Process : q # p => pc'[q] = pc[q] /\ pc'[q] \in Resting
    BY <1>0, <2>1, <2>2 DEF Typed, IndexTyped, Locked, Resting
  <2>5. Faithful' = Faithful /\ Alone' = Alone /\ OnceOnly' = OnceOnly
    BY <2>1 DEF Faithful, Alone, OnceOnly
  <2>6. Growing' /\ Known' /\ Unborn'
    BY <2>1, <2>3, <2>4, <2>5 DEF DataInv, Growing, Known, Unborn, Before, Resting
  <2>7. Saved'
    BY <2>3, <2>4, <2>5 DEF Saved, Resting
  <2>8. Current'
    <3>1. \A q \in Process : pc[q] # "commit" /\ pc'[q] # "commit"
      BY <2>1, <2>4 DEF Resting
    <3> QED
      BY <2>1, <2>3, <2>5, <3>1 DEF DataInv, Current
  <2> QED
    BY <2>6, <2>7, <2>8 DEF DataInv
<1>6. ASSUME NEW p \in Process, SaveSnapshot(p) PROVE DataInv'
  <2>1. pc[p] = "save" /\ UNCHANGED <<cache, call, env>> /\ pc' = [pc EXCEPT ![p] = "truncate"]
    BY <1>6 DEF SaveSnapshot, Goto
  <2>2. Faithful => Hydrated' = Hydrated
    BY <1>6, <2>1, SaveEffect DEF DataInv, Saved
  <2>3. /\ pc'[p] = "truncate"
        /\ \A q \in Process : q # p => pc'[q] = pc[q] /\ pc'[q] \in Resting
    BY <1>0, <2>1 DEF Typed, Locked, Resting
  <2>4. Faithful' = Faithful /\ Alone' = Alone /\ OnceOnly' = OnceOnly
    BY <2>1 DEF Faithful, Alone, OnceOnly
  <2>5. Growing' /\ Known' /\ Saved' /\ Unborn'
    BY <2>1, <2>2, <2>3, <2>4 DEF DataInv, Growing, Known, Saved, Unborn, Before, Resting
  <2>6. Current'
    <3>1. \A q \in Process : pc[q] # "commit" /\ pc'[q] # "commit"
      BY <2>1, <2>3 DEF Resting
    <3>2. Alone /\ OnceOnly => Faithful
      BY DEF Faithful
    <3> QED
      BY <2>1, <2>2, <2>4, <3>1, <3>2 DEF DataInv, Current
  <2> QED
    BY <2>5, <2>6 DEF DataInv
<1>7. ASSUME NEW p \in Process, TruncateLog(p) \/ ResetCounter(p) \/ UpdateManifest(p) PROVE DataInv'
  <2>1. /\ pc[p] \in {"truncate", "recount", "manifest"} /\ UNCHANGED <<cache, work, call, env>>
        /\ \/ pc' = [pc EXCEPT ![p] = "recount"] \/ pc' = [pc EXCEPT ![p] = "manifest"]
           \/ pc' = [pc EXCEPT ![p] = "ok"]
    BY <1>7 DEF TruncateLog, ResetCounter, UpdateManifest, Finish, Goto
  <2>2. Hydrated' = Hydrated
    <3>1. CASE TruncateLog(p)
      BY <3>1, TruncateEffect
    <3>2. CASE ResetCounter(p) \/ UpdateManifest(p)
      BY <1>00, <3>2 DEF ResetCounter, UpdateManifest
    <3> QED
      BY <1>7, <3>1, <3>2
  <2>3. /\ pc'[p] \in {"recount", "manifest", "ok"}
        /\ \A q \in Process : q # p => pc'[q] = pc[q] /\ pc'[q] \in Resting
    BY <1>0, <2>1 DEF Typed, Locked, Resting
  <2>4. \A q \in Process : pc[q] # "commit" /\ pc'[q] # "commit"
                           /\ (pc'[q] \in Before \cup {"save"} => pc'[q] = pc[q])
    BY <2>1, <2>3 DEF Resting, Before
  <2> QED
    BY <2>1, <2>2, <2>4, DataKept
<1>8. ASSUME NEW p \in Process, LoadCache(p) PROVE DataInv'
  <2>1. /\ UNCHANGED <<log, snapshot, pc, call, work, env>> /\ cache' = [cache EXCEPT ![p] = Hydrated]
        /\ cache[p] = NoCache
    BY <1>8 DEF LoadCache
  <2>2. Hydrated' = Hydrated /\ LastSeq' = LastSeq
    BY <1>00, <2>1
  <2>3. cache'[p] = Hydrated /\ \A q \in Process : q # p => cache'[q] = cache[q]
    BY <1>0, <2>1 DEF IndexTyped
  <2>4. Faithful' = Faithful /\ Alone' = Alone /\ OnceOnly' = OnceOnly
    BY <2>1 DEF Faithful, Alone, OnceOnly
  <2>5. Growing' /\ Known' /\ Saved' /\ Unborn'
    BY <2>1, <2>2, <2>3, <2>4 DEF DataInv, Growing, Known, Saved, Unborn
  <2>6. pc[p] # "commit"
    BY <2>1 DEF FormInv, Equipped, After
  <2>7. Current'
    BY <2>1, <2>2, <2>3, <2>4, <2>6 DEF DataInv, Current
  <2> QED
    BY <2>5, <2>7 DEF DataInv
<1>9. ASSUME NEW p \in Process, VerifySnapshot(p) \/ VerifyLog(p) PROVE DataInv'
  <2>1. UNCHANGED <<log, snapshot, pc, call, work, cache, env>>
    BY <1>9 DEF VerifySnapshot, VerifyLog
  <2>2. Hydrated' = Hydrated /\ LastSeq' = LastSeq
    BY <1>00, <2>1
  <2> QED
    BY <2>1, <2>2 DEF DataInv, Growing, Known, Saved, Unborn, Current, Faithful, Alone, OnceOnly
<1>10. ASSUME NEW p \in Process, Crash(p) PROVE DataInv'
  <2>1. /\ UNCHANGED <<log, snapshot, call, env>> /\ pc' = [pc EXCEPT ![p] = "rest"]
        /\ cache' = [cache EXCEPT ![p] = NoCache] /\ work' = [work EXCEPT ![p] = NewIndex]
    BY <1>10 DEF Crash, Goto
  <2>2. Hydrated' = Hydrated /\ LastSeq' = LastSeq
    BY <1>00, <2>1
  <2>3. /\ pc'[p] = "rest" /\ cache'[p] = NoCache
        /\ \A q \in Process : q # p => pc'[q] = pc[q] /\ cache'[q] = cache[q] /\ work'[q] = work[q]
    BY <1>0, <2>1 DEF Typed, IndexTyped
  <2>4. Faithful' = Faithful /\ Alone' = Alone /\ OnceOnly' = OnceOnly
    BY <2>1 DEF Faithful, Alone, OnceOnly
  <2>5. Growing' /\ Known' /\ Saved' /\ Unborn'
    BY <2>1, <2>2, <2>3, <2>4 DEF DataInv, Growing, Known, Saved, Unborn, Before
  <2>6. Current'
    BY <2>1, <2>2, <2>3, <2>4 DEF DataInv, Current
  <2> QED
    BY <2>5, <2>6 DEF DataInv
<1>11. CASE UNCHANGED vars
  <2>1. UNCHANGED <<log, snapshot, pc, call, work, cache, env>>
    BY <1>11 DEF vars
  <2>2. Hydrated' = Hydrated /\ LastSeq' = LastSeq
    BY <1>00, <2>1
  <2> QED
    BY <2>1, <2>2 DEF DataInv, Growing, Known, Saved, Unborn, Current, Faithful, Alone, OnceOnly
<1> QED
  BY <1>1, <1>2, <1>3, <1>4, <1>5, <1>6, <1>7, <1>8, <1>9, <1>10, <1>11 DEF Next

QueueInv == IInv /\ FormInv /\ DataInv

(***************************************************************************)
(* The inductive invariant of the queue.                                   *)
(***************************************************************************)
THEOREM QueueInvariant == ASSUME NoWindow, Distinct PROVE Spec => []QueueInv
<1>1. Init => QueueInv
  BY InitInv, InitForm, InitData DEF QueueInv
<1>2. QueueInv /\ [Next]_vars => QueueInv'
  <2> SUFFICES ASSUME QueueInv, [Next]_vars PROVE QueueInv'
    OBVIOUS
  <2>1. IInv'
    BY StepInv DEF QueueInv
  <2>2. FormInv'
    BY <2>1, FormStep DEF QueueInv
  <2> QED
    BY <2>1, <2>2, DataStep DEF QueueInv
<1> QED
  BY <1>1, <1>2, PTL DEF Spec

(***************************************************************************)
(* Saving a snapshot and cutting the log leave the tasks as they were.     *)
(***************************************************************************)
THEOREM CompactionSafe ==
    ASSUME NoWindow, Distinct PROVE Spec /\ []Faithful => CompactionLosesNothing
<1>1. ASSUME QueueInv, QueueInv', Faithful, NEW p \in Process, SaveSnapshot(p) \/ TruncateLog(p)
      PROVE  Hydrated'.tasks = Hydrated.tasks
  <2>1. CASE SaveSnapshot(p)
    <3>1. work[p] = Hydrated
      BY <1>1, <2>1 DEF QueueInv, DataInv, Saved, SaveSnapshot
    <3>2. Hydrated' = work[p]
      BY <1>1, <2>1, SaveEffect DEF QueueInv
    <3> QED
      BY <3>1, <3>2
  <2>2. CASE TruncateLog(p)
    <3>1. Hydrated' = Hydrated
      BY <1>1, <2>2, TruncateEffect DEF QueueInv
    <3> QED
      BY <3>1
  <2> QED
    BY <1>1, <2>1, <2>2
<1>2. QueueInv /\ QueueInv' /\ Faithful /\ [Next]_vars =>
        [\A p \in Process : SaveSnapshot(p) \/ TruncateLog(p) => Hydrated'.tasks = Hydrated.tasks]_vars
  BY <1>1
<1> QED
  BY <1>2, QueueInvariant, PTL DEF Spec, CompactionLosesNothing

(***************************************************************************)
(* Who has the queue for itself has in memory what a restart would find.   *)
(***************************************************************************)
THEOREM CacheTrue == ASSUME NoWindow, Distinct PROVE Spec => []CacheCurrent
<1>1. QueueInv => CacheCurrent
  <2> SUFFICES ASSUME QueueInv, Alone, OnceOnly, lock = Nobody, NEW p \in Process
               PROVE  cache[p] \in {NoCache, Hydrated}
    BY DEF CacheCurrent
  <2>1. pc[p] # "commit"
    BY QueueAssumption DEF QueueInv, IInv, Locked, Resting
  <2> QED
    BY <2>1 DEF QueueInv, DataInv, Current
<1> QED
  BY <1>1, QueueInvariant, PTL
-----------------------------------------------------------------------------
(***************************************************************************)
(* The queue implements the store of tasks.                                *)
(***************************************************************************)
LEMMA OneMoved ==
    ASSUME NEW p \in Process, NEW v, Phase(p)' = v, \A q \in Process : q # p => Phase(q)' = Phase(q)
    PROVE  [q \in Process |-> Phase(q)]' = [[q \in Process |-> Phase(q)] EXCEPT ![p] = v]
  OBVIOUS

LEMMA NoneMoved ==
    ASSUME \A q \in Process : Phase(q)' = Phase(q)
    PROVE  [q \in Process |-> Phase(q)]' = [q \in Process |-> Phase(q)]
  OBVIOUS

\* Every step of the queue is a step of the store or leaves it as it is.
LEMMA StepImplements ==
    ASSUME QueueInv, QueueInv', Faithful, [Next]_vars
    PROVE  [Promise!Next]_<<Hydrated.tasks, [p \in Process |-> Phase(p)], call>>
<1> DEFINE phase == [p \in Process |-> Phase(p)]
<1>0. Typed /\ Typed' /\ Locked /\ IInv /\ IInv' /\ FormInv /\ FormInv' /\ DataInv
  BY DEF QueueInv, IInv
<1>00. UNCHANGED <<log, snapshot>> => Hydrated.tasks' = Hydrated.tasks
  BY DEF Hydrated, LastSeq
<1>1. ASSUME NEW p \in Process, NEW op \in Operation, Begin(p, op) PROVE Promise!Next
  <2>1. /\ pc[p] \in Resting /\ pc' = [pc EXCEPT ![p] = "open"] /\ call' = [call EXCEPT ![p] = op]
        /\ Hydrated.tasks' = Hydrated.tasks
    BY <1>00, <1>1 DEF Begin, Goto
  <2>2. \A q \in Process : q # p => Phase(q)' = Phase(q)
    BY <1>0, <2>1 DEF Phase, Typed
  <2>3. pc'[p] = "open" /\ call'[p] = op
    BY <1>0, <2>1 DEF Typed
  <2>4. CASE op.kind = "snapshot"
    <3>1. Phase(p)' = "rest"
      BY <2>3, <2>4 DEF Phase
    <3>2. phase' = [phase EXCEPT ![p] = "rest"]
      BY <2>2, <3>1, OneMoved
    <3>3. Promise!Forget(p)
      BY <2>1, <3>2 DEF Promise!Forget, Promise!Goto
    <3> QED
      BY <3>3 DEF Promise!Next
  <2>5. CASE op.kind # "snapshot"
    <3>1. Phase(p)' = "asked"
      BY <2>3, <2>5 DEF Phase, Before
    <3>2. phase' = [phase EXCEPT ![p] = "asked"]
      BY <2>2, <3>1, OneMoved
    <3>3. phase[p] \in {"rest", "ok", "failed"}
      BY <2>1 DEF Phase, Resting, Before, After
    <3> HIDE DEF phase
    <3>4. Promise!Ask(p)
      BY <2>1, <3>2, <3>3 DEF Promise!Ask, Promise!Goto, phase
    <3> QED
      BY <3>4 DEF Promise!Next
  <2> QED
    BY <2>4, <2>5
<1>2. ASSUME NEW p \in Process, OpenCache(p)
      PROVE  Promise!Next \/ UNCHANGED <<Hydrated.tasks, phase, call>>
  <2>1. /\ pc[p] = "open" /\ call[p].kind # "snapshot" /\ call' = call
        /\ Hydrated.tasks' = Hydrated.tasks
        /\ pc' = [pc EXCEPT ![p] = "failed"] \/ pc' = [pc EXCEPT ![p] = "append"]
    BY <1>00, <1>2 DEF OpenCache, Finish, Goto
  <2>2. \A q \in Process : q # p => Phase(q)' = Phase(q)
    BY <1>0, <2>1 DEF Phase, Typed
  <2>3. Phase(p) = "asked"
    BY <2>1 DEF Phase, Before
  <2>4. CASE pc'[p] = "append"
    <3>1. Phase(p)' = "asked"
      BY <2>1, <2>4 DEF Phase, Before
    <3> QED
      BY <2>1, <2>2, <2>3, <3>1, NoneMoved
  <2>5. CASE pc'[p] = "failed"
    <3>1. Phase(p)' = "failed"
      BY <2>1, <2>5 DEF Phase, Before, After
    <3>2. phase' = [phase EXCEPT ![p] = "failed"]
      BY <2>2, <3>1, OneMoved
    <3>3. phase[p] = "asked"
      BY <2>3
    <3> HIDE DEF phase
    <3>4. Promise!Answer(p)
      BY <2>1, <3>2, <3>3 DEF Promise!Answer, Promise!Goto, phase
    <3> QED
      BY <3>4 DEF Promise!Next
  <2> QED
    BY <1>0, <2>1, <2>4, <2>5 DEF Typed
<1>3. ASSUME NEW p \in Process, AppendLines(p) PROVE Promise!Next
  <2>1. /\ pc[p] = "append" /\ pc' = [pc EXCEPT ![p] = "commit"] /\ call' = call
        /\ call[p].kind # "snapshot" /\ call[p] \in Operation
    BY <1>0, <1>3 DEF AppendLines, Goto, IInv, Ready, Typed
  <2>2. \A q \in Process : q # p => Phase(q)' = Phase(q)
    BY <1>0, <2>1 DEF Phase, Typed
  <2>3. Phase(p) = "asked" /\ Phase(p)' = "done"
    BY <1>0, <2>1 DEF Phase, Before, After, Typed
  <2>4. phase' = [phase EXCEPT ![p] = "done"] /\ phase[p] = "asked"
    BY <2>2, <2>3, OneMoved
  <2> HIDE DEF phase
  <2>5. /\ call[p].tasks \in Seq(Task) /\ Len(call[p].tasks) \in Nat
        /\ call[p].kind = "update" => Len(call[p].tasks) = 1
    BY <2>1, MutationTyped
  <2>6. call[p].kind = "update" => Hydrated.tasks[call[p].tasks[1]] # Absent
    BY <1>0, <2>1 DEF DataInv, Known
  <2>7. \A t : t \in Promise!Range(call[p].tasks) <=> \E i \in 1..Len(call[p].tasks) : call[p].tasks[i] = t
    BY <2>5 DEF Promise!Range
  <2>8. call[p].kind = "update" => \A t \in Promise!Range(call[p].tasks) : Hydrated.tasks[t] # Absent
    BY <2>5, <2>6, <2>7
  <2>9. Hydrated.tasks' = Said(call[p], Len(call[p].tasks), Hydrated)
    BY <1>0, <1>3, <2>6, AppendEffect
  <2>10. Hydrated.tasks' = [t \in Task |-> IF t \in Promise!Range(call[p].tasks) THEN call[p].status
                                           ELSE Hydrated.tasks[t]]
    BY <2>7, <2>9 DEF Said
  <2>11. Promise!Perform(p)
    BY <2>1, <2>4, <2>8, <2>10 DEF Promise!Perform, Promise!Goto, phase
  <2> QED
    BY <2>11 DEF Promise!Next
<1>4. ASSUME NEW p \in Process,
             Commit(p) \/ Rebuild(p) \/ SaveSnapshot(p) \/ TruncateLog(p) \/ ResetCounter(p)
      PROVE  UNCHANGED <<Hydrated.tasks, phase, call>>
  <2>1. Hydrated.tasks' = Hydrated.tasks
    <3>1. CASE SaveSnapshot(p)
      <4>1. work[p] = Hydrated
        BY <1>0, <3>1 DEF DataInv, Saved, SaveSnapshot
      <4>2. Hydrated' = work[p]
        BY <1>0, <3>1, SaveEffect
      <4> QED
        BY <4>1, <4>2
    <3>2. CASE TruncateLog(p)
      <4>1. Hydrated' = Hydrated
        BY <1>0, <3>2, TruncateEffect
      <4> QED
        BY <4>1
    <3>3. CASE Commit(p) \/ Rebuild(p) \/ ResetCounter(p)
      BY <1>00, <3>3 DEF Commit, Rebuild, ResetCounter
    <3> QED
      BY <1>4, <3>1, <3>2, <3>3
  <2>2. call' = call /\ \E l : pc' = [pc EXCEPT ![p] = l]
    BY <1>4 DEF Commit, Rebuild, SaveSnapshot, TruncateLog, ResetCounter, Finish, Goto
  <2>3. \/ call[p].kind = "snapshot"
        \/ pc[p] \in After /\ pc'[p] \in After
    BY <1>0, <1>4 DEF Commit, Rebuild, SaveSnapshot, TruncateLog, ResetCounter, Finish, Goto, After, Typed
  <2>4. Phase(p)' = Phase(p)
    BY <2>2, <2>3 DEF Phase, Before, After
  <2>5. \A q \in Process : q # p => Phase(q)' = Phase(q)
    BY <1>0, <2>2 DEF Phase, Typed
  <2> QED
    BY <2>1, <2>2, <2>4, <2>5, NoneMoved
<1>5. ASSUME NEW p \in Process, UpdateManifest(p) PROVE Promise!Next
  <2>1. /\ pc[p] = "manifest" /\ pc' = [pc EXCEPT ![p] = "ok"] /\ call' = call
        /\ call[p].kind # "snapshot" /\ Hydrated.tasks' = Hydrated.tasks
    BY <1>0, <1>00, <1>5 DEF UpdateManifest, Finish, Goto, FormInv, Equipped
  <2>2. \A q \in Process : q # p => Phase(q)' = Phase(q)
    BY <1>0, <2>1 DEF Phase, Typed
  <2>3. Phase(p) = "done" /\ Phase(p)' = "ok"
    BY <1>0, <2>1 DEF Phase, Before, After, Typed
  <2>4. phase' = [phase EXCEPT ![p] = "ok"] /\ phase[p] = "done"
    BY <2>2, <2>3, OneMoved
  <2> HIDE DEF phase
  <2>5. Promise!Answer(p)
    BY <2>1, <2>4 DEF Promise!Answer, Promise!Goto, phase
  <2> QED
    BY <2>5 DEF Promise!Next
<1>6. ASSUME NEW p \in Process, LoadCache(p) \/ VerifySnapshot(p) \/ VerifyLog(p)
      PROVE  UNCHANGED <<Hydrated.tasks, phase, call>>
  <2>1. UNCHANGED <<log, snapshot, pc, call>>
    BY <1>6 DEF LoadCache, VerifySnapshot, VerifyLog
  <2>2. \A q \in Process : Phase(q)' = Phase(q)
    BY <2>1 DEF Phase
  <2> QED
    BY <1>00, <2>1, <2>2, NoneMoved
<1>7. ASSUME NEW p \in Process, Crash(p) PROVE Promise!Next
  <2>1. pc' = [pc EXCEPT ![p] = "rest"] /\ call' = call /\ Hydrated.tasks' = Hydrated.tasks
    BY <1>00, <1>7 DEF Crash, Goto
  <2>2. \A q \in Process : q # p => Phase(q)' = Phase(q)
    BY <1>0, <2>1 DEF Phase, Typed
  <2>3. Phase(p)' = "rest"
    BY <1>0, <2>1 DEF Phase, Before, After, Typed
  <2>4. phase' = [phase EXCEPT ![p] = "rest"]
    BY <2>2, <2>3, OneMoved
  <2> HIDE DEF phase
  <2>5. call' = [call EXCEPT ![p] = call[p]] /\ call[p] \in Operation
    BY <1>0, <2>1 DEF Typed
  <2>6. Promise!Forget(p)
    BY <2>1, <2>4, <2>5 DEF Promise!Forget, Promise!Goto, phase
  <2> QED
    BY <2>6 DEF Promise!Next
<1>8. CASE UNCHANGED vars
  <2>1. UNCHANGED <<log, snapshot, pc, call>>
    BY <1>8 DEF vars
  <2>2. \A q \in Process : Phase(q)' = Phase(q)
    BY <2>1 DEF Phase
  <2> QED
    BY <1>00, <2>1, <2>2, NoneMoved
<1> QED
  <2> HIDE DEF phase
  <2>1. ASSUME Next PROVE Promise!Next \/ UNCHANGED <<Hydrated.tasks, phase, call>>
    <3>1. PICK p \in Process :
            \/ \E op \in Operation : Begin(p, op)
            \/ OpenCache(p) \/ AppendLines(p)
            \/ Commit(p) \/ Rebuild(p) \/ SaveSnapshot(p) \/ TruncateLog(p) \/ ResetCounter(p)
            \/ UpdateManifest(p)
            \/ LoadCache(p) \/ VerifySnapshot(p) \/ VerifyLog(p)
            \/ Crash(p)
      BY <2>1 DEF Next
    <3>2. CASE \E op \in Operation : Begin(p, op)
      BY <1>1, <3>2
    <3>3. CASE OpenCache(p)
      BY <1>2, <3>3
    <3>4. CASE AppendLines(p)
      BY <1>3, <3>4
    <3>5. CASE Commit(p) \/ Rebuild(p) \/ SaveSnapshot(p) \/ TruncateLog(p) \/ ResetCounter(p)
      BY <1>4, <3>5
    <3>6. CASE UpdateManifest(p)
      BY <1>5, <3>6
    <3>7. CASE LoadCache(p) \/ VerifySnapshot(p) \/ VerifyLog(p)
      BY <1>6, <3>7
    <3>8. CASE Crash(p)
      BY <1>7, <3>8
    <3> QED
      BY <3>1, <3>2, <3>3, <3>4, <3>5, <3>6, <3>7, <3>8
  <2> QED
    BY <1>8, <2>1 DEF phase

(***************************************************************************)
(* Seen from its callers the queue is an atomic, durable store of tasks.   *)
(***************************************************************************)
THEOREM Implements ==
    ASSUME NoWindow, Distinct PROVE Spec /\ []Faithful => ImplementsTaskStore
<1>1. Init => Promise!Init
  <2> SUFFICES ASSUME Init PROVE Promise!Init
    OBVIOUS
  <2>1. Hydrated = Replay!Fold(NewIndex, <<>>)
    <3>1. NewIndex \in Index /\ snapshot = NewIndex /\ log = <<>>
      BY DEF Init, NewIndex, Index
    <3> QED
      BY <3>1, InitInv, HydratedReplay
  <2>2. Hydrated.tasks = [t \in Task |-> Absent]
    BY <2>1, Replay!FoldEmpty DEF NewIndex
  <2>3. \A q \in Process : Phase(q) = "rest"
    BY DEF Init, Phase, Snapshot
  <2>4. call \in [Process -> Operation]
    BY DEF Init, Operation
  <2> QED
    BY <2>2, <2>3, <2>4 DEF Promise!Init
<1>2. QueueInv /\ QueueInv' /\ Faithful /\ [Next]_vars =>
        [Promise!Next]_<<Hydrated.tasks, [p \in Process |-> Phase(p)], call>>
  BY StepImplements
<1> QED
  BY <1>1, <1>2, QueueInvariant, PTL DEF Spec, ImplementsTaskStore, Promise!Spec
-----------------------------------------------------------------------------
(***************************************************************************)
(* The counts.  They are kept by increments, in the files and in every     *)
(* index in memory; the manifest has those of the queue but for the call   *)
(* that is logged and has not come to the manifest yet.                    *)
(***************************************************************************)
CountedTrue ==
    OnceOnly =>
        /\ Tallied(Hydrated)
        /\ \A p \in Process : (cache[p] # NoCache => Tallied(cache[p])) /\ Tallied(work[p])

Steady == Alone /\ OnceOnly /\ "crash" \notin env.events

\* The call of p is on disk and will refresh the count of s in the manifest.
Refreshes(p, s) ==
    pc[p] \in After /\ call[p].kind # "snapshot" /\ (call[p].kind = "create" => s = Pending)

ManifestTrue ==
    Steady => \A s \in Reported :
        manifest[s] = Hydrated.counts[s] \/ \E p \in Process : Refreshes(p, s)

CountInv == CountedTrue /\ ManifestTrue

\* An empty queue has no task of any status.
LEMMA NewTallied == Tallied(NewIndex)
<1>1. \A s \in Status : {t \in Task : NewIndex.tasks[t] = s} = {}
  BY QueueAssumption DEF NewIndex
<1>2. \A s \in Status : NewIndex.counts[s] = 0
  BY DEF NewIndex
<1> QED
  BY <1>1, <1>2, FS_EmptySet DEF Tallied

\* Numbering an index leaves its counts and tasks.
LEMMA NumberedTallied ==
    ASSUME NEW index, NEW n, Tallied(index) PROVE Tallied(Numbered(index, n))
  BY DEF Tallied, Numbered

\* The lines of a call keep the counts true, whether or not an update finds its task.
LEMMA AppendTallied ==
    ASSUME Distinct, IsFiniteSet(Task), IInv, IInv', FormInv, FormInv',
           NEW p \in Process, AppendLines(p), Tallied(Hydrated),
           call[p].kind = "create" =>
                \A i \in 1..Len(call[p].tasks) : Hydrated.tasks[call[p].tasks[i]] = Absent
    PROVE  /\ Tallied(Hydrated')
           /\ call[p].kind = "create" =>
                \A s \in Status \ {Pending} : Hydrated'.counts[s] = Hydrated.counts[s]
<1>1. call[p] \in Operation /\ call[p].kind # "snapshot" /\ Hydrated \in Index
  BY HydratedReplay DEF AppendLines, IInv, Ready, Typed, FormInv, IndexTyped
<1>2. PICK op \in Operation, index \in Index : op = call[p] /\ index = Hydrated
  BY <1>1
<1>3. CASE op.kind = "update" => index.tasks[op.tasks[1]] # Absent
  <2>1. Hydrated' = Numbered(ApplyCall(index, op), index.lastSeq + Len(op.tasks))
    BY <1>2, <1>3, AppendSame
  <2>2. /\ Tallied(ApplyCall(index, op))
        /\ op.kind = "create" => \A s \in Status \ {Pending} : ApplyCall(index, op).counts[s] = index.counts[s]
    BY <1>1, <1>2, EditCall
  <2>3. Hydrated'.counts = ApplyCall(index, op).counts
    BY <2>1 DEF Numbered
  <2>4. Tallied(Hydrated')
    BY <2>1, <2>2, NumberedTallied
  <2> QED
    BY <1>2, <2>2, <2>3, <2>4
<1>4. CASE op.kind = "update" /\ index.tasks[op.tasks[1]] = Absent
  <2>1. PICK lines \in Seq(Line) :
            /\ Len(lines) = Len(op.tasks)
            /\ \A i \in 1..Len(op.tasks) :
                  /\ lines[i].kind = op.kind /\ lines[i].task = op.tasks[i]
                  /\ lines[i].status = op.status /\ lines[i].seq = index.lastSeq + i
            /\ Hydrated' = Replay!Fold(index, lines)
    BY <1>2, AppendFollows
  <2>2. Len(lines) = 1 /\ \E x \in Line : lines[1] = x /\ lines = Append(<<>>, x)
    BY <1>1, <1>2, <1>4, <2>1, MutationTyped
  <2> PICK x \in Line : lines[1] = x /\ lines = Append(<<>>, x)
    BY <2>2
  <2>3. Replay!Fold(index, <<>>) = index
    BY Replay!FoldEmpty
  <2>4. Replay!Fold(index, Append(<<>>, x)) = ApplyOperation(Replay!Fold(index, <<>>), x)
    <3>1. <<>> \in Seq(Line)
      OBVIOUS
    <3>2. \A seq \in Seq(Line) : Replay!Fold(index, Append(seq, x)) = ApplyOperation(Replay!Fold(index, seq), x)
      BY Replay!FoldAppend
    <3> QED
      BY <3>1, <3>2
  <2>5. Hydrated' = ApplyOperation(index, x)
    <3>1. Replay!Fold(index, lines) = Replay!Fold(index, Append(<<>>, x))
      OBVIOUS
    <3> QED
      BY <2>1, <2>3, <2>4, <3>1
  <2>6. x.kind = "update" /\ index.tasks[x.task] = Absent
    BY <1>4, <2>1, <2>2
  <2>7. ApplyOperation(index, x).tasks = index.tasks /\ ApplyOperation(index, x).counts = index.counts
    BY <2>6 DEF ApplyOperation, Index
  <2> QED
    BY <1>2, <1>4, <2>5, <2>7 DEF Tallied
<1> QED
  BY <1>3, <1>4

LEMMA InitCounts == ASSUME Init PROVE CountInv
<1>1. NewIndex \in Index /\ snapshot = NewIndex /\ log = <<>>
  BY DEF Init, NewIndex, Index
<1>2. Hydrated = Replay!Fold(NewIndex, <<>>)
  BY <1>1, InitInv, HydratedReplay
<1>3. Hydrated = NewIndex
  BY <1>2, Replay!FoldEmpty
<1>4. \A p \in Process : cache[p] = NoCache /\ work[p] = NewIndex
  BY DEF Init
<1>5. CountedTrue
  BY <1>3, <1>4, NewTallied DEF CountedTrue
<1>6. \A s \in Reported : manifest[s] = 0 /\ NewIndex.counts[s] = 0
  BY QueueAssumption DEF Init, NewIndex
<1> QED
  BY <1>3, <1>5, <1>6 DEF CountInv, ManifestTrue

\* Steps that leave the queue, the manifest and the indexes as they are.
LEMMA CountsKept ==
    ASSUME CountInv, UNCHANGED <<manifest, env, call>>, OnceOnly => Tallied(Hydrated'),
           Steady => Hydrated' = Hydrated,
           \A p \in Process : cache'[p] \in {cache[p], NoCache, Hydrated'} /\ work'[p] \in {work[p], NewIndex, Hydrated'},
           \A p \in Process : call[p].kind # "snapshot" /\ pc[p] \in After => pc'[p] \in After
    PROVE  CountInv'
<1>1. (OnceOnly' <=> OnceOnly) /\ (Steady' <=> Steady)
  BY DEF OnceOnly, Steady, Alone
<1>2. CountedTrue'
  BY <1>1, NewTallied DEF CountInv, CountedTrue
<1>3. ManifestTrue'
  BY <1>1 DEF CountInv, ManifestTrue, Refreshes
<1> QED
  BY <1>2, <1>3 DEF CountInv

\* Every step keeps the counts true.
LEMMA CountStep ==
    ASSUME NoWindow, Distinct, IsFiniteSet(Task), QueueInv, QueueInv', CountInv, [Next]_vars
    PROVE  CountInv'
<1> USE QueueAssumption
<1>0. /\ Typed /\ Typed' /\ Locked /\ Locked' /\ IInv /\ IInv' /\ FormInv /\ FormInv' /\ DataInv
      /\ IndexTyped /\ IndexTyped' /\ Outside /\ Outside'
  BY DEF QueueInv, IInv, FormInv
<1>00. UNCHANGED <<log, snapshot>> => Hydrated' = Hydrated
  BY DEF Hydrated, LastSeq
<1>1. ASSUME NEW p \in Process, NEW op \in Operation, Begin(p, op) PROVE CountInv'
  <2>1. /\ UNCHANGED <<log, snapshot, manifest, cache, work, env>> /\ lock = Nobody
        /\ pc' = [pc EXCEPT ![p] = "open"]
    BY <1>1 DEF Begin, Goto
  <2>2. Hydrated' = Hydrated
    BY <1>00, <2>1
  <2>3. \A q \in Process : pc[q] \notin After
    BY <1>0, <2>1 DEF Locked, Resting, After
  <2>4. (OnceOnly' <=> OnceOnly) /\ (Steady' <=> Steady)
    BY <2>1 DEF OnceOnly, Steady, Alone
  <2>5. CountedTrue'
    BY <2>1, <2>2, <2>4 DEF CountInv, CountedTrue
  <2>6. Steady => \A s \in Reported : manifest[s] = Hydrated.counts[s]
    BY <2>3 DEF CountInv, ManifestTrue, Refreshes
  <2> QED
    BY <2>1, <2>2, <2>4, <2>5, <2>6 DEF CountInv, ManifestTrue
<1>2. ASSUME NEW p \in Process, OpenCache(p) PROVE CountInv'
  <2>1. /\ UNCHANGED <<log, snapshot, manifest, work, env, call>> /\ pc[p] = "open"
        /\ cache' = [cache EXCEPT ![p] = IF cache[p] = NoCache THEN Hydrated ELSE cache[p]]
        /\ \E l : pc' = [pc EXCEPT ![p] = l]
    BY <1>2 DEF OpenCache, Finish, Goto
  <2>2. Hydrated' = Hydrated
    BY <1>00, <2>1
  <2>3. \A q \in Process : cache'[q] \in {cache[q], NoCache, Hydrated'}
    BY <1>0, <2>1, <2>2 DEF IndexTyped
  <2>4. \A q \in Process : pc[q] \in After => pc'[q] \in After
    BY <1>0, <2>1 DEF Typed, After
  <2> QED
    BY <2>1, <2>2, <2>3, <2>4, CountsKept DEF CountInv, CountedTrue
<1>3. ASSUME NEW p \in Process, AppendLines(p) PROVE CountInv'
  <2>1. /\ UNCHANGED <<snapshot, manifest, cache, work, env, call>> /\ pc[p] = "append"
        /\ pc' = [pc EXCEPT ![p] = "commit"] /\ call[p].kind # "snapshot"
    BY <1>0, <1>3 DEF AppendLines, Goto, IInv, Ready
  <2>2. (OnceOnly' <=> OnceOnly) /\ (Steady' <=> Steady)
    BY <2>1 DEF OnceOnly, Steady, Alone
  <2> SUFFICES ASSUME OnceOnly PROVE CountInv'
    BY <2>2 DEF CountInv, CountedTrue, ManifestTrue, Steady
  <2>3. call[p].kind = "create" =>
            \A i \in 1..Len(call[p].tasks) : Hydrated.tasks[call[p].tasks[i]] = Absent
    BY <1>0, <2>1 DEF DataInv, Unborn, Before
  <2>4. /\ Tallied(Hydrated')
        /\ call[p].kind = "create" =>
              \A s \in Status \ {Pending} : Hydrated'.counts[s] = Hydrated.counts[s]
    BY <1>0, <1>3, <2>3, AppendTallied DEF CountInv, CountedTrue
  <2>5. CountedTrue'
    <3>1. Tallied(Hydrated)'
      BY <2>4 DEF Tallied
    <3> QED
      BY <2>1, <2>2, <3>1 DEF CountInv, CountedTrue, Tallied
  <2>6. ManifestTrue'
    <3> SUFFICES ASSUME Steady, NEW s \in Reported, ~Refreshes(p, s)'
                 PROVE  manifest'[s] = Hydrated'.counts[s]
      BY <2>2 DEF ManifestTrue
    <3>1. pc'[p] = "commit" /\ \A q \in Process : pc[q] \notin After
      BY <1>0, <2>1 DEF Typed, Locked, Resting, After
    <3>2. call[p].kind \in {"create", "update"}
      BY <1>0, <2>1, MutationTyped DEF Typed
    <3>3. call[p].kind = "create" /\ s # Pending
      BY <2>1, <3>1 DEF Refreshes, After
    <3>4. Hydrated'.counts[s] = Hydrated.counts[s]
      BY <2>4, <3>3
    <3>5. manifest[s] = Hydrated.counts[s]
      BY <3>1 DEF CountInv, ManifestTrue, Refreshes
    <3> QED
      BY <2>1, <3>4, <3>5
  <2> QED
    BY <2>5, <2>6 DEF CountInv
<1>4. ASSUME NEW p \in Process, Commit(p) PROVE CountInv'
  <2> DEFINE index == Numbered(ApplyCall(cache[p], call[p]), counter')
  <2>1. /\ UNCHANGED <<log, snapshot, manifest, env, call>> /\ pc[p] = "commit"
        /\ cache' = [cache EXCEPT ![p] = index]
        /\ pc' = [pc EXCEPT ![p] = "save"] \/ pc' = [pc EXCEPT ![p] = "manifest"]
    BY <1>4 DEF Commit, Goto
  <2>2. work' = [work EXCEPT ![p] = index] \/ work' = work
    BY <1>0, <1>4 DEF Commit, IndexTyped
  <2>3. Hydrated' = Hydrated /\ cache[p] # NoCache /\ cache[p] \in Index
        /\ call[p] \in Operation /\ call[p].kind # "snapshot"
    BY <1>0, <1>00, <2>1 DEF FormInv, Equipped, After, IndexTyped, Typed
  <2>4. OnceOnly => Tallied(index)
    BY <2>3, EditCall, NumberedTallied DEF CountInv, CountedTrue
  <2> HIDE DEF index
  <2>5. (OnceOnly' <=> OnceOnly) /\ (Steady' <=> Steady)
    BY <2>1 DEF OnceOnly, Steady, Alone
  <2>6. CountedTrue'
    <3>1. \A q \in Process : cache'[q] \in {cache[q], index} /\ work'[q] \in {work[q], index}
      BY <1>0, <2>1, <2>2 DEF IndexTyped
    <3>2. OnceOnly => Tallied(Hydrated)
                      /\ \A q \in Process : (cache'[q] # NoCache => Tallied(cache'[q])) /\ Tallied(work'[q])
      BY <2>4, <3>1 DEF CountInv, CountedTrue
    <3> QED
      BY <2>3, <2>5, <3>2 DEF CountedTrue, Tallied
  <2>7. ManifestTrue'
    <3>1. \A q \in Process : pc[q] \in After => pc'[q] \in After
      BY <1>0, <2>1 DEF Typed, After
    <3> QED
      BY <2>1, <2>3, <2>5, <3>1 DEF CountInv, ManifestTrue, Refreshes
  <2> QED
    BY <2>6, <2>7 DEF CountInv
<1>5. ASSUME NEW p \in Process, Rebuild(p) PROVE CountInv'
  <2>1. /\ UNCHANGED <<log, snapshot, manifest, cache, env, call>> /\ pc[p] = "open"
        /\ work' = [work EXCEPT ![p] = Hydrated] \/ work' = work
        /\ \E l : pc' = [pc EXCEPT ![p] = l]
    BY <1>5 DEF Rebuild, Finish, Goto
  <2>2. Hydrated' = Hydrated
    BY <1>00, <2>1
  <2>3. \A q \in Process : work'[q] \in {work[q], NewIndex, Hydrated'}
    BY <1>0, <2>1, <2>2 DEF IndexTyped
  <2>4. \A q \in Process : pc[q] \in After => pc'[q] \in After
    BY <1>0, <2>1 DEF Typed, After
  <2> QED
    BY <2>1, <2>2, <2>3, <2>4, CountsKept DEF CountInv, CountedTrue
<1>6. ASSUME NEW p \in Process, SaveSnapshot(p) PROVE CountInv'
  <2>1. /\ UNCHANGED <<manifest, cache, env, call>> /\ pc[p] = "save"
        /\ pc' = [pc EXCEPT ![p] = "truncate"] /\ work' = [work EXCEPT ![p] = NewIndex]
    BY <1>6 DEF SaveSnapshot, Goto
  <2>2. Hydrated' = work[p]
    BY <1>0, <1>6, SaveEffect
  <2>3. Steady => Hydrated' = Hydrated
    BY <1>0, <2>1, <2>2 DEF Steady, DataInv, Saved, Faithful
  <2>4. OnceOnly => Tallied(Hydrated')
    BY <2>2 DEF CountInv, CountedTrue
  <2>5. \A q \in Process : work'[q] \in {work[q], NewIndex, Hydrated'}
    BY <1>0, <2>1 DEF IndexTyped
  <2>6. \A q \in Process : pc[q] \in After => pc'[q] \in After
    BY <1>0, <2>1 DEF Typed, After
  <2> QED
    BY <2>1, <2>3, <2>4, <2>5, <2>6, CountsKept
<1>7. ASSUME NEW p \in Process, TruncateLog(p) \/ ResetCounter(p) PROVE CountInv'
  <2>1. /\ UNCHANGED <<manifest, cache, work, env, call>> /\ pc[p] \in {"truncate", "recount"}
        /\ \/ pc' = [pc EXCEPT ![p] = "recount"] \/ pc' = [pc EXCEPT ![p] = "manifest"]
           \/ pc' = [pc EXCEPT ![p] = "ok"] /\ call[p].kind = "snapshot"
    BY <1>7 DEF TruncateLog, ResetCounter, Finish, Goto
  <2>2. Hydrated' = Hydrated
    <3>1. CASE TruncateLog(p)
      BY <1>0, <3>1, TruncateEffect
    <3>2. CASE ResetCounter(p)
      BY <1>00, <3>2 DEF ResetCounter
    <3> QED
      BY <1>7, <3>1, <3>2
  <2>3. \A q \in Process : call[q].kind # "snapshot" /\ pc[q] \in After => pc'[q] \in After
    BY <1>0, <2>1 DEF Typed, After
  <2> QED
    BY <2>1, <2>2, <2>3, CountsKept DEF CountInv, CountedTrue
<1>8. ASSUME NEW p \in Process, UpdateManifest(p) PROVE CountInv'
  <2>1. /\ UNCHANGED <<log, snapshot, cache, work, env, call>> /\ pc[p] = "manifest"
        /\ pc' = [pc EXCEPT ![p] = "ok"]
        /\ \A s \in Reported : manifest'[s] = IF call[p].kind = "create" /\ s # Pending
                                              THEN manifest[s] ELSE cache[p].counts[s]
    BY <1>8 DEF UpdateManifest, Finish, Goto
  <2>2. Hydrated' = Hydrated
    BY <1>00, <2>1
  <2>3. (OnceOnly' <=> OnceOnly) /\ (Steady' <=> Steady)
    BY <2>1 DEF OnceOnly, Steady, Alone
  <2>4. CountedTrue'
    BY <2>1, <2>2, <2>3 DEF CountInv, CountedTrue
  <2>5. ASSUME Steady PROVE \A s \in Reported : manifest'[s] = Hydrated.counts[s]
    <3>1. cache[p] = Hydrated
      BY <1>0, <2>1, <2>5 DEF DataInv, Current, Steady, FormInv, Equipped, After
    <3>2. \A q \in Process : q # p => pc[q] \notin After
      BY <1>0, <2>1 DEF Locked, Resting, After
    <3>3. \A s \in Reported : call[p].kind = "create" /\ s # Pending => manifest[s] = Hydrated.counts[s]
      BY <2>5, <3>2 DEF CountInv, ManifestTrue, Refreshes
    <3> QED
      BY <2>1, <3>1, <3>3
  <2> QED
    BY <2>2, <2>3, <2>4, <2>5 DEF CountInv, ManifestTrue
<1>9. ASSUME NEW p \in Process, LoadCache(p) PROVE CountInv'
  <2>1. UNCHANGED <<log, snapshot, manifest, pc, work, env, call>> /\ cache' = [cache EXCEPT ![p] = Hydrated]
    BY <1>9 DEF LoadCache
  <2>2. Hydrated' = Hydrated
    BY <1>00, <2>1
  <2>3. \A q \in Process : cache'[q] \in {cache[q], NoCache, Hydrated'}
    BY <1>0, <2>1, <2>2 DEF IndexTyped
  <2> QED
    BY <2>1, <2>2, <2>3, CountsKept DEF CountInv, CountedTrue
<1>10. ASSUME NEW p \in Process, Crash(p) PROVE CountInv'
  <2>1. /\ UNCHANGED <<log, snapshot, manifest, env, call>> /\ "crash" \in env.events
        /\ cache' = [cache EXCEPT ![p] = NoCache] /\ work' = [work EXCEPT ![p] = NewIndex]
    BY <1>10 DEF Crash
  <2>2. Hydrated' = Hydrated
    BY <1>00, <2>1
  <2>3. OnceOnly' <=> OnceOnly
    BY <2>1 DEF OnceOnly
  <2>4. \A q \in Process : cache'[q] \in {cache[q], NoCache} /\ work'[q] \in {work[q], NewIndex}
    BY <1>0, <2>1 DEF IndexTyped
  <2>5. CountedTrue'
    BY <2>2, <2>3, <2>4, NewTallied DEF CountInv, CountedTrue
  <2>6. ManifestTrue'
    BY <2>1 DEF ManifestTrue, Steady
  <2> QED
    BY <2>5, <2>6 DEF CountInv
<1>11. CASE UNCHANGED vars \/ \E p \in Process : VerifySnapshot(p) \/ VerifyLog(p)
  <2>1. UNCHANGED <<log, snapshot, manifest, pc, call, work, cache, env>>
    BY <1>11 DEF vars, VerifySnapshot, VerifyLog
  <2>2. Hydrated' = Hydrated
    BY <1>00, <2>1
  <2> QED
    BY <2>1, <2>2, CountsKept DEF CountInv, CountedTrue
<1> QED
  BY <1>1, <1>2, <1>3, <1>4, <1>5, <1>6, <1>7, <1>8, <1>9, <1>10, <1>11 DEF Next

(***************************************************************************)
(* The counts of the queue are those of its tasks, and while one process   *)
(* has the queue for itself and lives the manifest has them between calls. *)
(***************************************************************************)
THEOREM CountsTrue ==
    ASSUME NoWindow, Distinct, IsFiniteSet(Task) PROVE Spec => []CountsAgree
<1>1. Init => CountInv
  BY InitCounts
<1>2. QueueInv /\ QueueInv' /\ CountInv /\ [Next]_vars => CountInv'
  BY CountStep
<1>3. QueueInv /\ CountInv => CountsAgree
  <2> SUFFICES ASSUME QueueInv, CountInv, OnceOnly PROVE TasksCounted /\ (Alone /\ "crash" \notin env.events /\ lock = Nobody => ManifestCounted)
    BY DEF CountsAgree
  <2>1. TasksCounted
    BY DEF CountInv, CountedTrue, Tallied, TasksCounted
  <2>2. ASSUME Alone, "crash" \notin env.events, lock = Nobody PROVE ManifestCounted
    <3>1. \A p \in Process : pc[p] \notin After
      BY <2>2, QueueAssumption DEF QueueInv, IInv, Locked, Resting, After
    <3> QED
      BY <2>2, <3>1 DEF CountInv, ManifestTrue, Steady, Refreshes, ManifestCounted
  <2> QED
    BY <2>1, <2>2
<1> QED
  BY <1>1, <1>2, <1>3, QueueInvariant, PTL DEF Spec
-----------------------------------------------------------------------------
(***************************************************************************)
(* Loads beside writers.  While nobody compacts, no snapshot is there to   *)
(* become older than the log that is read after it.                        *)
(***************************************************************************)
QuietReaders ==
    \A e \in Environment : "reader" \in e.events => "snapshot" \notin e.events /\ e.maxUpdates > e.maxSeq

ReaderInv ==
    /\ seen \in [Process -> Int]
    /\ ~alarm
    /\ \A p \in Process : seen[p] # -1 => seen[p] = 0 /\ "reader" \in env.events
    /\ "reader" \in env.events =>
        /\ snapshot.lastSeq = 0
        /\ \A p \in Process : pc[p] \notin {"save", "truncate", "recount"}
                              /\ (pc[p] = "open" => call[p].kind # "snapshot")

\* A log is sound beside the snapshot that is in place, and beside none.
LEMMA AlarmOnlyWhenMoved ==
    ASSUME NoWindow, IInv, NEW p \in Process, VerifyLog(p), seen[p] \in {0, snapshot.lastSeq}
    PROVE  alarm' => alarm
<1>1. /\ Len(log) \in Nat /\ DOMAIN log = 1..Len(log) /\ snapshot.lastSeq \in Nat
      /\ \A i \in 1..Len(log) : log[i].seq \in Nat /\ log[i].seq = log[1].seq + i - 1
  BY LogNumbers DEF IInv, Typed, Consecutive
<1>2. CASE seen[p] = snapshot.lastSeq
  <2>1. Verifies(snapshot.lastSeq)
    BY LoadableWhen DEF AlwaysLoadable
  <2> QED
    BY <1>2, <2>1 DEF VerifyLog
<1>3. CASE seen[p] = 0
  <2>1. ASSUME NEW i \in 1..Len(log), i - 1 \in 1..Len(log) PROVE log[i].seq = log[i - 1].seq + 1
    <3>1. log[i].seq = log[1].seq + i - 1 /\ log[i - 1].seq = log[1].seq + (i - 1) - 1 /\ log[1].seq \in Nat
      BY <1>1, <2>1
    <3> QED
      BY <3>1
  <2>2. Verifies(0)
    BY <1>1, <2>1 DEF Verifies
  <2> QED
    BY <1>3, <2>2 DEF VerifyLog
<1> QED
  BY <1>2, <1>3

\* Every step keeps readers and compactions apart.
LEMMA ReaderStep ==
    ASSUME NoWindow, QuietReaders, QueueInv, QueueInv', ReaderInv, [Next]_vars PROVE ReaderInv'
<1> USE QueueAssumption
<1>0. Typed /\ Typed' /\ IInv /\ FormInv /\ IndexTyped
  BY DEF QueueInv, IInv, FormInv
<1>1. ASSUME "reader" \in env.events PROVE "snapshot" \notin env.events /\ env.maxUpdates > env.maxSeq
  BY <1>0, <1>1 DEF QuietReaders, Typed
<1>2. ASSUME NEW p \in Process, NEW op \in Operation, Begin(p, op) PROVE ReaderInv'
  <2>1. /\ UNCHANGED <<snapshot, seen, alarm, env>> /\ pc' = [pc EXCEPT ![p] = "open"]
        /\ call' = [call EXCEPT ![p] = op] /\ (op = Snapshot => "snapshot" \in env.events)
    BY <1>2 DEF Begin, Goto
  <2>2. "reader" \in env.events => op.kind # "snapshot"
    BY <1>1, <2>1 DEF Operation, Mutation, Create, Update
  <2> QED
    BY <1>0, <2>1, <2>2 DEF ReaderInv, Typed
<1>3. ASSUME NEW p \in Process, OpenCache(p) \/ AppendLines(p) \/ UpdateManifest(p) PROVE ReaderInv'
  <2>1. /\ UNCHANGED <<snapshot, seen, alarm, env, call>>
        /\ \E l \in {"append", "failed", "commit", "ok"} : pc' = [pc EXCEPT ![p] = l]
    BY <1>3 DEF OpenCache, AppendLines, UpdateManifest, Finish, Goto
  <2> QED
    BY <1>0, <2>1 DEF ReaderInv, Typed
<1>4. ASSUME NEW p \in Process, Commit(p) PROVE ReaderInv'
  <2>1. /\ UNCHANGED <<snapshot, seen, alarm, env, call>> /\ pc[p] = "commit"
        /\ \/ pc' = [pc EXCEPT ![p] = "manifest"]
           \/ pc' = [pc EXCEPT ![p] = "save"] /\ Len(log) >= env.maxUpdates
    BY <1>4 DEF Commit, Goto
  <2>2. log # <<>>
    BY <1>0, <2>1 DEF IInv, Counted, Committing
  <2>3. "reader" \in env.events => pc' = [pc EXCEPT ![p] = "manifest"]
    BY <1>0, <1>1, <2>1, <2>2, NeverFull
  <2>4. \E l : pc' = [pc EXCEPT ![p] = l]
    BY <2>1
  <2> QED
    BY <1>0, <2>1, <2>3, <2>4 DEF ReaderInv, Typed
<1>5. ASSUME NEW p \in Process, Rebuild(p) \/ SaveSnapshot(p) \/ TruncateLog(p) \/ ResetCounter(p)
      PROVE  ReaderInv'
  <2>1. /\ UNCHANGED <<seen, alarm, env>>
        /\ pc[p] \in {"save", "truncate", "recount"} \/ (pc[p] = "open" /\ call[p].kind = "snapshot")
    BY <1>5 DEF Rebuild, SaveSnapshot, TruncateLog, ResetCounter
  <2>2. "reader" \notin env.events
    BY <2>1 DEF ReaderInv
  <2> QED
    BY <2>1, <2>2 DEF ReaderInv
<1>6. ASSUME NEW p \in Process, LoadCache(p) PROVE ReaderInv'
  BY <1>6 DEF LoadCache, ReaderInv
<1>7. ASSUME NEW p \in Process, VerifySnapshot(p) PROVE ReaderInv'
  <2>1. /\ UNCHANGED <<snapshot, alarm, env, pc, call>> /\ "reader" \in env.events
        /\ seen' = [seen EXCEPT ![p] = snapshot.lastSeq]
    BY <1>7 DEF VerifySnapshot
  <2> QED
    BY <2>1 DEF ReaderInv
<1>8. ASSUME NEW p \in Process, VerifyLog(p) PROVE ReaderInv'
  <2>1. /\ UNCHANGED <<snapshot, env, pc, call>> /\ seen' = [seen EXCEPT ![p] = -1] /\ seen[p] # -1
    BY <1>8 DEF VerifyLog
  <2>2. ~alarm'
    <3>1. seen[p] = 0
      BY <2>1 DEF ReaderInv
    <3> QED
      BY <1>0, <1>8, <3>1, AlarmOnlyWhenMoved DEF ReaderInv
  <2> QED
    BY <2>1, <2>2 DEF ReaderInv
<1>9. ASSUME NEW p \in Process, Crash(p) PROVE ReaderInv'
  <2>1. /\ UNCHANGED <<snapshot, alarm, env, call>> /\ seen' = [seen EXCEPT ![p] = -1]
        /\ pc' = [pc EXCEPT ![p] = "rest"]
    BY <1>9 DEF Crash, Goto
  <2> QED
    BY <1>0, <2>1 DEF ReaderInv, Typed
<1>10. CASE UNCHANGED vars
  BY <1>10 DEF vars, ReaderInv
<1> QED
  BY <1>2, <1>3, <1>4, <1>5, <1>6, <1>7, <1>8, <1>9, <1>10 DEF Next

(***************************************************************************)
(* Loads beside writers that do not compact never report corruption.       *)
(***************************************************************************)
THEOREM LoadsQuiet ==
    ASSUME NoWindow, Distinct, QuietReaders PROVE Spec => []ColdLoadQuiet
<1>1. Init => ReaderInv
  BY DEF Init, ReaderInv, NewIndex
<1>2. QueueInv /\ QueueInv' /\ ReaderInv /\ [Next]_vars => ReaderInv'
  BY ReaderStep
<1>3. ReaderInv => ColdLoadQuiet
  BY DEF ReaderInv, ColdLoadQuiet
<1> QED
  BY <1>1, <1>2, <1>3, QueueInvariant, PTL DEF Spec

(***************************************************************************)
(* In every environment a load complains only of a log that a compaction   *)
(* cut after the load had read the snapshot.                               *)
(***************************************************************************)
THEOREM AlarmExplained ==
    ASSUME NoWindow
    PROVE  Spec => [][\A p \in Process : VerifyLog(p) /\ seen[p] \in {0, snapshot.lastSeq} => (alarm' => alarm)]_vars
<1>1. IInv /\ [Next]_vars =>
        [\A p \in Process : VerifyLog(p) /\ seen[p] \in {0, snapshot.lastSeq} => (alarm' => alarm)]_vars
  BY AlarmOnlyWhenMoved
<1> QED
  BY <1>1, NumberingInvariant, PTL DEF Spec
=============================================================================
