-------------------------- MODULE RunLockProofs --------------------------
(***************************************************************************)
(* What holds of RunLock for every set of processes and calls.             *)
(*                                                                         *)
(* TypeOK holds in every environment.  Mutual exclusion does not           *)
(* (RunLock_empty_window shows one way): it is proved for environments in  *)
(* which no process dies, no callback outlives the threshold and no file   *)
(* is met half-written -- calls may give up at any time.  The invariant    *)
(* says who owns the file: run.lock exists exactly while one call is       *)
(* between its open and its unlink, and then it is that call's file, of a  *)
(* live process, so nobody ever finds it stale.                            *)
(*                                                                         *)
(* The chain of promises is in-process and holds in every environment:     *)
(* pos numbers the calls in the order in which they joined, and ChainInv   *)
(* says that each waits for the one before it that may still settle.       *)
(***************************************************************************)
EXTENDS RunLock, TLAPS

Quiet == \A e \in Environment : e.faults \subseteq {"timeout"}

\* The calls between the creation of their file and its unlink.
Owning == {"write", "held", "releasing"}

Ownership ==
    \A c \in Caller : pc[c] \in Owning =>
        lockFile = [st |-> IF pc[c] = "write" THEN "empty" ELSE "valid",
                    by |-> c, aged |-> FALSE]

FileIsOwned ==
    lockFile.st # "missing" => lockFile.by \in Caller /\ pc[lockFile.by] \in Owning

NobodyStale ==
    /\ \A c \in Caller : pc[c] # "idle" => ProcOf[c] \in alive
    /\ \A c \in Caller : pc[c] \notin {"unlink", "dead"}

IInv == TypeOK /\ Ownership /\ FileIsOwned /\ NobodyStale

LEMMA LeaveType ==
    ASSUME TypeOK, NEW c \in Caller, Leave(c)
    PROVE  /\ prev' \in [Caller -> Caller \cup {NoCaller}]
           /\ tail' \in [Process -> Caller \cup {NoCaller}]
           /\ pc' \in [Caller -> Calling \cup {"idle", "dead"}]
  BY CallerAssumption DEF TypeOK, Leave, Goto

LEMMA TypeInit == ASSUME Init PROVE TypeOK
  BY CallerAssumption DEF Init, TypeOK, NoFile

(***************************************************************************)
(* Every variable keeps its type, in every environment.                    *)
(***************************************************************************)
THEOREM TypeCorrect == Spec => []TypeOK
<1>1. Init => TypeOK
  BY TypeInit
<1>2. TypeOK /\ [Next]_vars => TypeOK'
  <2> SUFFICES ASSUME TypeOK, [Next]_vars PROVE TypeOK'
    OBVIOUS
  <2> USE CallerAssumption
  <2>1. ASSUME NEW c \in Caller, Enter(c) PROVE TypeOK'
    BY <2>1 DEF TypeOK, Enter, Goto, Calling, Contending
  <2>2. ASSUME NEW c \in Caller, Step(c) PROVE TypeOK'
    <3>1. CASE TakeTurn(c)
      BY <3>1 DEF TypeOK, TakeTurn, Goto, Calling, Contending
    <3>2. CASE CreateLock(c)
      BY <3>2 DEF TypeOK, CreateLock, Goto, Calling, Contending, FreshFile
    <3>3. CASE CreateConflict(c)
      BY <3>3 DEF TypeOK, CreateConflict, Goto, Calling, Contending
    <3>4. CASE WriteMetadata(c)
      BY <3>4 DEF TypeOK, WriteMetadata, Goto, Calling, Contending
    <3>5. CASE InspectLock(c)
      BY <3>5 DEF TypeOK, InspectLock, Goto, Calling, Contending
    <3>6. CASE RemoveStaleLock(c)
      BY <3>6 DEF TypeOK, RemoveStaleLock, Goto, Calling, Contending, NoFile
    <3>7. CASE ExitNested(c)
      BY <3>7 DEF TypeOK, ExitNested
    <3>8. CASE CallbackDone(c)
      BY <3>8 DEF TypeOK, CallbackDone, Goto, Calling, Contending
    <3>9. CASE ReleaseLock(c)
      BY <3>9, LeaveType DEF TypeOK, ReleaseLock, NoFile
    <3> QED
      BY <2>2, <3>1, <3>2, <3>3, <3>4, <3>5, <3>6, <3>7, <3>8, <3>9 DEF Step
  <2>3. ASSUME NEW c \in Caller, TurnTimeout(c) PROVE TypeOK'
    BY <2>3, LeaveType DEF TypeOK, TurnTimeout
  <2>4. ASSUME NEW c \in Caller, LockTimeout(c) PROVE TypeOK'
    BY <2>4, LeaveType DEF TypeOK, LockTimeout
  <2>5. ASSUME NEW c \in Caller, WriteFails(c) PROVE TypeOK'
    BY <2>5, LeaveType DEF TypeOK, WriteFails
  <2>6. ASSUME NEW c \in Caller, Reenter(c) PROVE TypeOK'
    BY <2>6 DEF TypeOK, Reenter
  <2>7. ASSUME NEW p \in Process, Crash(p) PROVE TypeOK'
    BY <2>7 DEF TypeOK, Crash
  <2>8. CASE AgeLock
    BY <2>8 DEF TypeOK, AgeLock
  <2>9. CASE UNCHANGED vars
    BY <2>9 DEF TypeOK, vars
  <2> QED
    BY <2>1, <2>2, <2>3, <2>4, <2>5, <2>6, <2>7, <2>8, <2>9 DEF Next
<1> QED
  BY <1>1, <1>2, PTL DEF Spec
-----------------------------------------------------------------------------
(***************************************************************************)
(* The ownership invariant, when calls may give up but nothing else fails. *)
(***************************************************************************)
LEMMA QuietFaults ==
    ASSUME Quiet, TypeOK
    PROVE  \A f \in {"crash", "age", "peek", "disk"} : f \notin env.faults
  BY DEF Quiet, TypeOK

LEMMA OwnershipInit ==
    ASSUME Init PROVE IInv
<1>1. TypeOK
  BY TypeInit
<1>2. Ownership /\ FileIsOwned /\ NobodyStale
  BY CallerAssumption DEF Init, NoFile, Ownership, FileIsOwned, NobodyStale, Owning
<1> QED
  BY <1>1, <1>2 DEF IInv

\* A call that owns no file leaves: the file's owner is where it was.
LEMMA LeaveKeepsOwnership ==
    ASSUME IInv, TypeOK', NEW c \in Caller, Leave(c), pc[c] \notin Owning,
           UNCHANGED <<lockFile, alive, env>>
    PROVE  IInv'
  BY CallerAssumption
     DEF IInv, TypeOK, Leave, Goto, Ownership, FileIsOwned, NobodyStale, Owning

LEMMA OwnershipStep ==
    ASSUME Quiet, IInv, TypeOK', [Next]_vars PROVE IInv'
<1> USE CallerAssumption DEF Owning
<1>1. ASSUME NEW c \in Caller, Enter(c) PROVE IInv'
  BY <1>1 DEF IInv, TypeOK, Enter, Goto, Ownership, FileIsOwned, NobodyStale
<1>2. ASSUME NEW c \in Caller, Step(c) PROVE IInv'
  <2>1. CASE TakeTurn(c)
    BY <2>1 DEF IInv, TypeOK, TakeTurn, Goto, Ownership, FileIsOwned, NobodyStale
  <2>2. CASE CreateLock(c)
    \* No call owns a file, since there is none.
    <3>1. \A d \in Caller : pc[d] \notin Owning
      BY <2>2 DEF IInv, Ownership, CreateLock
    <3> QED
      BY <2>2, <3>1 DEF IInv, TypeOK, CreateLock, Goto, FreshFile, Ownership, FileIsOwned,
                        NobodyStale
  <2>3. CASE CreateConflict(c)
    BY <2>3 DEF IInv, TypeOK, CreateConflict, Goto, Ownership, FileIsOwned, NobodyStale
  <2>4. CASE WriteMetadata(c)
    <3>1. lockFile = [st |-> "empty", by |-> c, aged |-> FALSE]
      BY <2>4 DEF IInv, Ownership, WriteMetadata
    <3>2. lockFile' = [st |-> "valid", by |-> c, aged |-> FALSE]
      BY <2>4, <3>1 DEF WriteMetadata
    <3>3. \A d \in Caller : pc[d] \in Owning => d = c
      BY <3>1 DEF IInv, Ownership
    <3>4. pc' = [pc EXCEPT ![c] = "held"] /\ pc \in [Caller -> Calling \cup {"idle", "dead"}]
          /\ alive' = alive /\ ProcOf \in [Caller -> Process]
      BY <2>4 DEF WriteMetadata, Goto, IInv, TypeOK
    <3>5. \A d \in Caller : d # c => pc'[d] = pc[d] /\ pc'[c] = "held" /\ pc[c] = "write"
      BY <2>4, <3>4 DEF WriteMetadata
    <3>6. Ownership' /\ FileIsOwned'
      BY <3>2, <3>3, <3>4, <3>5 DEF Ownership, FileIsOwned
    <3>7. NobodyStale'
      BY <2>4, <3>4 DEF IInv, NobodyStale, WriteMetadata
    <3> QED
      BY <3>6, <3>7 DEF IInv
  <2>5. CASE InspectLock(c)
    \* The file found is its owner's: written, of this age, of a live process.
    <3>1. ~Stale
      <4>1. lockFile.st # "empty"
        BY <2>5, QuietFaults DEF IInv, Ownership, FileIsOwned, InspectLock, Readable
      <4>2. lockFile.st = "valid" => ~lockFile.aged /\ ProcOf[lockFile.by] \in alive
        BY <4>1 DEF IInv, Ownership, FileIsOwned, NobodyStale
      <4> QED
        BY <4>1, <4>2 DEF Stale
    <3> QED
      BY <2>5, <3>1 DEF IInv, TypeOK, InspectLock, Goto, Ownership, FileIsOwned, NobodyStale
  <2>6. CASE RemoveStaleLock(c)
    BY <2>6 DEF IInv, NobodyStale, RemoveStaleLock
  <2>7. CASE ExitNested(c)
    BY <2>7 DEF IInv, TypeOK, ExitNested, Ownership, FileIsOwned, NobodyStale
  <2>8. CASE CallbackDone(c)
    BY <2>8 DEF IInv, TypeOK, CallbackDone, Goto, Ownership, FileIsOwned, NobodyStale
  <2>9. CASE ReleaseLock(c)
    <3>1. \A d \in Caller : pc[d] \in Owning => d = c
      BY <2>9 DEF IInv, Ownership, ReleaseLock
    <3> QED
      BY <2>9, <3>1 DEF IInv, TypeOK, ReleaseLock, Leave, Goto, NoFile, Ownership,
                        FileIsOwned, NobodyStale
  <2> QED
    BY <1>2, <2>1, <2>2, <2>3, <2>4, <2>5, <2>6, <2>7, <2>8, <2>9 DEF Step
<1>3. ASSUME NEW c \in Caller, TurnTimeout(c) PROVE IInv'
  BY <1>3, LeaveKeepsOwnership DEF TurnTimeout
<1>4. ASSUME NEW c \in Caller, LockTimeout(c) PROVE IInv'
  BY <1>4, LeaveKeepsOwnership DEF LockTimeout
<1>5. ASSUME NEW c \in Caller, WriteFails(c) PROVE IInv'
  BY <1>5, QuietFaults DEF WriteFails, IInv
<1>6. ASSUME NEW c \in Caller, Reenter(c) PROVE IInv'
  BY <1>6 DEF IInv, TypeOK, Reenter, Ownership, FileIsOwned, NobodyStale
<1>7. ASSUME NEW p \in Process, Crash(p) PROVE IInv'
  BY <1>7, QuietFaults DEF Crash, IInv
<1>8. CASE AgeLock
  BY <1>8, QuietFaults DEF AgeLock, IInv
<1>9. CASE UNCHANGED vars
  BY <1>9 DEF IInv, TypeOK, vars, Ownership, FileIsOwned, NobodyStale
<1> QED
  BY <1>1, <1>2, <1>3, <1>4, <1>5, <1>6, <1>7, <1>8, <1>9 DEF Next

(***************************************************************************)
(* run.lock always belongs to the one call that created it.                *)
(***************************************************************************)
THEOREM OwnershipInvariant == ASSUME Quiet PROVE Spec => []IInv
<1>1. Init => IInv
  BY OwnershipInit
<1>2. IInv /\ TypeOK' /\ [Next]_vars => IInv'
  BY OwnershipStep
<1> QED
  BY <1>1, <1>2, TypeCorrect, PTL DEF Spec

(***************************************************************************)
(* Two callbacks never run at the same time.                               *)
(***************************************************************************)
THEOREM Exclusion == ASSUME Quiet PROVE Spec => []MutualExclusion
<1>1. IInv => MutualExclusion
  BY DEF IInv, Ownership, Owning, MutualExclusion, Inside
<1> QED
  BY <1>1, OwnershipInvariant, PTL

(***************************************************************************)
(* A running callback is always covered by its own file.                   *)
(***************************************************************************)
THEOREM HolderCovered == ASSUME Quiet PROVE Spec => []HolderOwnsFile
<1>1. IInv => HolderOwnsFile
  BY DEF IInv, Ownership, Owning, HolderOwnsFile, Inside
<1> QED
  BY <1>1, OwnershipInvariant, PTL

(***************************************************************************)
(* The unlink of releaseLock takes away no other call's file.              *)
(***************************************************************************)
THEOREM OwnRelease == ASSUME Quiet PROVE Spec => ReleasesOwnFile
<1>1. IInv /\ [Next]_vars =>
        [\A c \in Caller : ReleaseLock(c) => lockFile.by \in {c, NoCaller}]_vars
  BY DEF IInv, Ownership, Owning, ReleaseLock
<1> QED
  BY <1>1, OwnershipInvariant, PTL DEF Spec, ReleasesOwnFile

(***************************************************************************)
(* Every behaviour of the run lock is one of the mutex its callers see.    *)
(***************************************************************************)
THEOREM Implements == ASSUME Quiet PROVE Spec => ImplementsMutex
<1>1. Init => Abstract!Init
  BY DEF Init, Abstract!Init, Inside
<1>2. IInv /\ IInv' /\ [Next]_vars => [Abstract!Next]_Inside
  <2> SUFFICES ASSUME IInv, IInv', [Next]_vars PROVE [Abstract!Next]_Inside
    OBVIOUS
  <2> USE DEF Inside
  <2>1. ASSUME NEW c \in Caller, Enter(c) \/ TakeTurn(c) \/ CreateLock(c)
                 \/ CreateConflict(c) \/ InspectLock(c) \/ RemoveStaleLock(c)
        PROVE  Inside' = Inside
    BY <2>1 DEF Enter, TakeTurn, CreateLock, CreateConflict, InspectLock, RemoveStaleLock,
                Goto, IInv, TypeOK
  <2>2. ASSUME NEW c \in Caller, TurnTimeout(c) \/ LockTimeout(c) \/ WriteFails(c)
                 \/ ReleaseLock(c)
        PROVE  Inside' = Inside
    BY <2>2 DEF TurnTimeout, LockTimeout, WriteFails, ReleaseLock, Leave, Goto, IInv, TypeOK
  <2>3. ASSUME NEW c \in Caller, WriteMetadata(c) PROVE Abstract!Acquire(c)
    <3>1. \A d \in Caller : pc[d] \in Owning => d = c
      BY <2>3 DEF IInv, Ownership, Owning, WriteMetadata
    <3> QED
      BY <2>3, <3>1 DEF WriteMetadata, Goto, IInv, TypeOK, Owning, Abstract!Acquire
  <2>4. ASSUME NEW c \in Caller, CallbackDone(c) PROVE Abstract!Release(c)
    BY <2>4 DEF CallbackDone, Goto, IInv, TypeOK, Abstract!Release
  <2>5. ASSUME NEW c \in Caller, Reenter(c) \/ ExitNested(c) PROVE Inside' = Inside
    BY <2>5 DEF Reenter, ExitNested
  <2>6. ASSUME NEW p \in Process, Crash(p) PROVE FALSE
    BY <2>6, QuietFaults DEF Crash, IInv
  <2>7. ASSUME AgeLock \/ UNCHANGED vars PROVE Inside' = Inside
    BY <2>7 DEF AgeLock, vars
  <2> QED
    BY <2>1, <2>2, <2>3, <2>4, <2>5, <2>6, <2>7 DEF Next, Step, Abstract!Next
<1> QED
  BY <1>1, <1>2, OwnershipInvariant, PTL DEF Spec, ImplementsMutex, Abstract!Spec
-----------------------------------------------------------------------------
(***************************************************************************)
(* The chain of one process, in every environment.                         *)
(***************************************************************************)
\* inProcessQueue holds a call of its own process that is still under way.
TailIsLive ==
    \A p \in Process :
        tail[p] # NoCaller => pc[tail[p]] \in Calling /\ ProcOf[tail[p]] = p

WaitInv == TypeOK /\ WaitsForLiveCall /\ TailIsLive

\* The calls under way in the process of c.
Peers(c) == {d \in Caller : pc[d] \in Calling /\ ProcOf[d] = ProcOf[c]}

\* pos numbers the calls of a process in the order in which they joined the chain: the
\* last one is the tail, and each waits for the one right before it, if there is one.
ChainedBy(pos) ==
    \A c \in Caller : pc[c] \in Calling =>
        /\ tail[ProcOf[c]] # NoCaller
        /\ pos[c] <= pos[tail[ProcOf[c]]]
        /\ prev[c] # NoCaller => pos[prev[c]] < pos[c]
        /\ \A d \in Peers(c) :
              /\ pos[d] = pos[c] => d = c
              /\ pos[d] < pos[c] => prev[c] # NoCaller /\ pos[d] <= pos[prev[c]]

Chained == \E pos \in [Caller -> Nat] : ChainedBy(pos)

ChainInv == WaitInv /\ ("timeout" \in env.faults \/ Chained)

\* A step of a call that neither joins nor leaves the chain.
Moves(c) ==
    /\ pc[c] \in Calling
    /\ pc[c] = "turn" => prev[c] = NoCaller
    /\ \E label \in Calling \ {"turn"} : Goto(c, label)
    /\ UNCHANGED <<prev, tail, env>>

LEMMA StepMoves ==
    ASSUME TypeOK, NEW c \in Caller, Step(c), ~ReleaseLock(c), ~ExitNested(c)
    PROVE  Moves(c)
<1> USE DEF Moves, Calling, Contending
<1>1. CASE TakeTurn(c)
  BY <1>1 DEF TakeTurn
<1>2. CASE CreateLock(c)
  BY <1>2 DEF CreateLock
<1>3. CASE CreateConflict(c)
  BY <1>3 DEF CreateConflict
<1>4. CASE WriteMetadata(c)
  BY <1>4 DEF WriteMetadata
<1>5. CASE InspectLock(c)
  BY <1>5 DEF InspectLock
<1>6. CASE RemoveStaleLock(c)
  BY <1>6 DEF RemoveStaleLock
<1>7. CASE CallbackDone(c)
  BY <1>7 DEF CallbackDone
<1> QED
  BY <1>1, <1>2, <1>3, <1>4, <1>5, <1>6, <1>7 DEF Step

LEMMA MoveKeepsWaiting ==
    ASSUME WaitInv, TypeOK', NEW c \in Caller, Moves(c) PROVE WaitInv'
  BY CallerAssumption
     DEF WaitInv, TypeOK, WaitsForLiveCall, TailIsLive, Moves, Goto

LEMMA LeaveKeepsWaiting ==
    ASSUME WaitInv, TypeOK', NEW c \in Caller, pc[c] \in Calling, Leave(c)
    PROVE  WaitInv'
<1> USE CallerAssumption DEF WaitInv, TypeOK, Leave, Goto
<1>1. WaitsForLiveCall'
  BY DEF WaitsForLiveCall
<1>2. TailIsLive'
  BY DEF TailIsLive
<1> QED
  BY <1>1, <1>2

LEMMA EnterKeepsWaiting ==
    ASSUME WaitInv, TypeOK', NEW c \in Caller, Enter(c) PROVE WaitInv'
<1> USE CallerAssumption DEF WaitInv, TypeOK, Enter, Goto, Calling, Contending
<1>1. WaitsForLiveCall'
  BY DEF WaitsForLiveCall, TailIsLive
<1>2. TailIsLive'
  BY DEF TailIsLive
<1> QED
  BY <1>1, <1>2

LEMMA CrashKeepsWaiting ==
    ASSUME WaitInv, TypeOK', NEW p \in Process, Crash(p) PROVE WaitInv'
<1> USE CallerAssumption DEF WaitInv, TypeOK, Crash
<1>1. WaitsForLiveCall'
  BY DEF WaitsForLiveCall
<1>2. TailIsLive'
  BY DEF TailIsLive
<1> QED
  BY <1>1, <1>2

\* No step gives a waiting call a predecessor that will not settle.
LEMMA WaitingStep ==
    ASSUME WaitInv, TypeOK', [Next]_vars PROVE WaitInv'
<1>1. ASSUME NEW c \in Caller, Enter(c) PROVE WaitInv'
  BY <1>1, EnterKeepsWaiting
<1>2. ASSUME NEW c \in Caller, Step(c) PROVE WaitInv'
  <2>1. CASE ReleaseLock(c)
    BY <2>1, LeaveKeepsWaiting DEF ReleaseLock, Calling, Contending
  <2>2. CASE ExitNested(c)
    BY <2>2 DEF ExitNested, WaitInv, WaitsForLiveCall, TailIsLive
  <2> QED
    BY <1>2, <2>1, <2>2, StepMoves, MoveKeepsWaiting DEF WaitInv
<1>3. ASSUME NEW c \in Caller, TurnTimeout(c) \/ LockTimeout(c) \/ WriteFails(c)
      PROVE  WaitInv'
  BY <1>3, LeaveKeepsWaiting
     DEF TurnTimeout, LockTimeout, WriteFails, Calling, Contending
<1>4. ASSUME NEW c \in Caller, Reenter(c) PROVE WaitInv'
  BY <1>4 DEF Reenter, WaitInv, WaitsForLiveCall, TailIsLive
<1>5. ASSUME NEW p \in Process, Crash(p) PROVE WaitInv'
  BY <1>5, CrashKeepsWaiting
<1>6. CASE AgeLock \/ UNCHANGED vars
  BY <1>6 DEF AgeLock, vars, WaitInv, WaitsForLiveCall, TailIsLive
<1> QED
  BY <1>1, <1>2, <1>3, <1>4, <1>5, <1>6 DEF Next

\* A call joins at the end.
LEMMA EnterKeepsChain ==
    ASSUME WaitInv, Chained, TypeOK', NEW c \in Caller, Enter(c) PROVE Chained'
<1> USE CallerAssumption
<1> DEFINE last == tail[ProcOf[c]]
<1>1. PICK pos \in [Caller -> Nat] : ChainedBy(pos)
  BY DEF Chained
<1> DEFINE n == IF last = NoCaller THEN 0 ELSE pos[last] + 1
<1>2. /\ prev' = [prev EXCEPT ![c] = last]
      /\ tail' = [tail EXCEPT ![ProcOf[c]] = c]
      /\ pc' = [pc EXCEPT ![c] = "turn"]
      /\ pc[c] = "idle"
      /\ last \in Caller \cup {NoCaller}
      /\ last # c
  BY DEF Enter, Goto, WaitInv, TypeOK, TailIsLive, Calling, Contending
<1>3. PICK new \in [Caller -> Nat] :
        n \in Nat /\ new[c] = n /\ \A d \in Caller : d # c => new[d] = pos[d]
  <2>1. n \in Nat
    BY <1>2
  <2> HIDE DEF n
  <2> WITNESS [pos EXCEPT ![c] = n] \in [Caller -> Nat]
  <2> QED
    BY <2>1
<1>4. \A d \in Caller : d # c => pc'[d] = pc[d] /\ prev'[d] = prev[d]
  BY <1>2 DEF WaitInv, TypeOK
<1>5. pc'[c] \in Calling /\ prev'[c] = last /\ tail'[ProcOf[c]] = c
      /\ \A p \in Process : p # ProcOf[c] => tail'[p] = tail[p]
  BY <1>2 DEF WaitInv, TypeOK, Calling
<1>6. \A d \in Peers(c) : d # c /\ last # NoCaller /\ pos[d] <= pos[last] /\ pos[d] < n
  BY <1>1, <1>2 DEF Peers, ChainedBy, Calling, Contending
<1>7. \A d \in Caller : prev[d] # c
  BY <1>2 DEF WaitInv, WaitsForLiveCall, Calling, Contending
<1>8. \A d \in Caller : d # c => Peers(d)' = Peers(d) \cup (IF ProcOf[d] = ProcOf[c] THEN {c} ELSE {})
  BY <1>4, <1>5 DEF Peers
<1>9. Peers(c)' = Peers(c) \cup {c}
  BY <1>4, <1>5 DEF Peers
<1> HIDE DEF n, last
<1>10. ASSUME NEW d \in Caller, pc'[d] \in Calling
       PROVE  /\ tail'[ProcOf[d]] # NoCaller
              /\ new[d] <= new[tail'[ProcOf[d]]]
              /\ prev'[d] # NoCaller => new[prev'[d]] < new[d]
              /\ \A e \in Peers(d)' :
                    /\ new[e] = new[d] => e = d
                    /\ new[e] < new[d] => prev'[d] # NoCaller /\ new[e] <= new[prev'[d]]
  <2>1. CASE d = c
    <3>1. tail'[ProcOf[d]] # NoCaller /\ new[d] <= new[tail'[ProcOf[d]]]
      BY <2>1, <1>5, <1>3
    <3>2. last # NoCaller => new[last] < n
      BY <1>2, <1>3 DEF n
    <3>3. \A e \in Peers(c)' : new[e] = new[d] => e = d
      BY <2>1, <1>9, <1>6, <1>3 DEF Peers
    <3>4. \A e \in Peers(c)' : new[e] < new[d] => last # NoCaller /\ new[e] <= new[last]
      BY <2>1, <1>9, <1>6, <1>3, <1>2 DEF Peers
    <3> QED
      BY <2>1, <3>1, <3>2, <3>3, <3>4, <1>5, <1>3
  <2>2. CASE d # c
    <3>1. /\ pc[d] \in Calling /\ prev'[d] = prev[d] /\ new[d] = pos[d]
          /\ tail[ProcOf[d]] # NoCaller /\ pos[d] <= pos[tail[ProcOf[d]]]
          /\ prev[d] # NoCaller => pos[prev[d]] < pos[d]
          /\ \A e \in Peers(d) :
                    /\ pos[e] = pos[d] => e = d
                    /\ pos[e] < pos[d] => prev[d] # NoCaller /\ pos[e] <= pos[prev[d]]
      BY <2>2, <1>10, <1>4, <1>3, <1>1 DEF ChainedBy
    <3>2. prev[d] # NoCaller => prev[d] \in Caller /\ prev[d] # c /\ new[prev[d]] = pos[prev[d]]
      BY <1>7, <1>3 DEF WaitInv, TypeOK
    <3>3. tail'[ProcOf[d]] # NoCaller /\ new[d] <= new[tail'[ProcOf[d]]]
      <4>1. CASE ProcOf[d] = ProcOf[c]
        <5>1. d \in Peers(c)
          BY <4>1, <3>1 DEF Peers
        <5>2. pos[d] < n /\ pos[d] \in Nat
          BY <5>1, <1>6
        <5>3. tail'[ProcOf[d]] = c
          BY <4>1, <1>5
        <5> QED
          BY <5>2, <5>3, <3>1, <1>3
      <4>2. CASE ProcOf[d] # ProcOf[c]
        <5>1. tail'[ProcOf[d]] = tail[ProcOf[d]]
          BY <4>2, <1>5
        <5>2. tail[ProcOf[d]] \in Caller /\ tail[ProcOf[d]] # c
          BY <4>2, <3>1 DEF WaitInv, TypeOK, TailIsLive
        <5> QED
          BY <5>1, <5>2, <3>1, <1>3
      <4> QED
        BY <4>1, <4>2
    <3>4. ASSUME NEW e \in Peers(d)'
          PROVE  /\ new[e] = new[d] => e = d
                 /\ new[e] < new[d] => prev'[d] # NoCaller /\ new[e] <= new[prev'[d]]
      <4>1. CASE e = c
        <5>1. d \in Peers(c)
          BY <4>1, <3>1, <2>2, <3>4, <1>8 DEF Peers
        <5> QED
          BY <4>1, <5>1, <1>6, <1>3, <3>1
      <4>2. CASE e # c
        <5>1. e \in Peers(d) /\ e \in Caller /\ new[e] = pos[e]
          BY <4>2, <3>4, <2>2, <1>8, <1>3 DEF Peers
        <5> QED
          BY <5>1, <3>1, <3>2
      <4> QED
        BY <4>1, <4>2
    <3> QED
      BY <3>1, <3>2, <3>3, <3>4
  <2> QED
    BY <2>1, <2>2
<1>11. ChainedBy(new)'
  BY <1>10 DEF ChainedBy
<1> QED
  BY <1>3, <1>11 DEF Chained

\* Only the head leaves: past its turn, it waits for nobody.
LEMMA LeaveKeepsChain ==
    ASSUME WaitInv, Chained, TypeOK', NEW c \in Caller, pc[c] \in Contending, Leave(c)
    PROVE  Chained'
<1> USE CallerAssumption
<1>1. PICK pos \in [Caller -> Nat] : ChainedBy(pos)
  BY DEF Chained
<1>2. pc[c] \in Calling /\ prev[c] = NoCaller
  BY DEF WaitInv, WaitsForLiveCall, Calling, Contending
<1>3. \A d \in Caller : d # c => pc'[d] = pc[d]
  BY DEF WaitInv, TypeOK, Leave, Goto
<1>4. pc'[c] \notin Calling
  BY DEF WaitInv, TypeOK, Leave, Goto, Calling, Contending
<1>5. \A d \in Caller : prev'[d] = IF d = c \/ prev[d] = c THEN NoCaller ELSE prev[d]
  BY DEF Leave
<1>6. \A p \in Process : tail'[p] = IF p = ProcOf[c] /\ tail[p] = c THEN NoCaller ELSE tail[p]
  BY DEF WaitInv, TypeOK, Leave
<1>7. \A d \in Peers(c) : d # c => pos[c] < pos[d]
  BY <1>1, <1>2 DEF ChainedBy, Peers
<1>8. ASSUME NEW d \in Caller, pc'[d] \in Calling
      PROVE  /\ tail'[ProcOf[d]] # NoCaller
             /\ pos[d] <= pos[tail'[ProcOf[d]]]
             /\ prev'[d] # NoCaller => pos[prev'[d]] < pos[d]
             /\ \A e \in Peers(d)' :
                   /\ pos[e] = pos[d] => e = d
                   /\ pos[e] < pos[d] => prev'[d] # NoCaller /\ pos[e] <= pos[prev'[d]]
  <2>1. d # c /\ pc[d] \in Calling
    BY <1>8, <1>3, <1>4
  <2>2. /\ tail[ProcOf[d]] # NoCaller /\ pos[d] <= pos[tail[ProcOf[d]]]
        /\ prev[d] # NoCaller => pos[prev[d]] < pos[d]
        /\ \A e \in Peers(d) :
                  /\ pos[e] = pos[d] => e = d
                  /\ pos[e] < pos[d] => prev[d] # NoCaller /\ pos[e] <= pos[prev[d]]
    BY <2>1, <1>1 DEF ChainedBy
  <2>3. tail'[ProcOf[d]] = tail[ProcOf[d]]
    <3>1. CASE ProcOf[d] = ProcOf[c] /\ tail[ProcOf[d]] = c
      <4>1. pos[c] < pos[d]
        BY <3>1, <2>1, <1>7 DEF Peers
      <4> QED
        BY <3>1, <4>1, <2>2
    <3> QED
      BY <3>1, <1>6
  <2>4. prev'[d] # NoCaller => prev'[d] = prev[d]
    BY <1>5
  <2>5. ASSUME NEW e \in Peers(d)' PROVE e \in Peers(d) /\ e # c /\ e \in Caller
    BY <2>5, <1>3, <1>4 DEF Peers
  <2>6. ASSUME NEW e \in Peers(d)', pos[e] < pos[d]
        PROVE  prev'[d] # NoCaller /\ pos[e] <= pos[prev'[d]]
    <3>1. e \in Peers(d) /\ e # c /\ e \in Caller
      BY <2>6, <2>5
    <3>2. prev[d] # NoCaller /\ pos[e] <= pos[prev[d]]
      BY <3>1, <2>6, <2>2
    <3>3. prev[d] # c
      <4>1. SUFFICES ASSUME prev[d] = c PROVE FALSE
        OBVIOUS
      <4>2. ProcOf[d] = ProcOf[c]
        BY <4>1 DEF WaitInv, WaitsForLiveCall
      <4>3. e \in Peers(c)
        BY <3>1, <4>2 DEF Peers
      <4> QED
        BY <4>1, <4>3, <3>1, <3>2, <1>7
    <3> QED
      BY <2>1, <3>2, <3>3, <1>5
  <2> QED
    BY <2>2, <2>3, <2>4, <2>5, <2>6
<1>9. ChainedBy(pos)'
  BY <1>8 DEF ChainedBy
<1> QED
  BY <1>9 DEF Chained

\* What stays in the chain stays in its order.
LEMMA MoveKeepsChain ==
    ASSUME WaitInv, Chained, NEW c \in Caller, Moves(c) PROVE Chained'
<1>1. \A d \in Caller : pc'[d] \in Calling <=> pc[d] \in Calling
  BY DEF Moves, Goto, WaitInv, TypeOK
<1> QED
  BY <1>1 DEF Moves, Chained, ChainedBy, Peers

LEMMA CrashKeepsChain ==
    ASSUME WaitInv, Chained, NEW p \in Process, Crash(p) PROVE Chained'
<1>1. PICK pos \in [Caller -> Nat] : ChainedBy(pos)
  BY DEF Chained
<1>2. \A d \in Caller : pc'[d] \in Calling =>
        pc[d] \in Calling /\ ProcOf[d] # p /\ prev'[d] = prev[d]
        /\ tail'[ProcOf[d]] = tail[ProcOf[d]] /\ Peers(d)' \subseteq Peers(d)
  BY CallerAssumption DEF Crash, WaitInv, TypeOK, Calling, Contending, Peers
<1>3. ChainedBy(pos)'
  BY <1>1, <1>2 DEF ChainedBy
<1> QED
  BY <1>3 DEF Chained

LEMMA ChainStep ==
    ASSUME ChainInv, TypeOK', [Next]_vars PROVE ChainInv'
<1>1. WaitInv /\ WaitInv'
  BY WaitingStep DEF ChainInv
<1>2. env' = env
  BY DEF Next, Step, vars, Enter, TakeTurn, CreateLock, CreateConflict, WriteMetadata,
         InspectLock, RemoveStaleLock, ExitNested, CallbackDone, ReleaseLock, TurnTimeout,
         LockTimeout, WriteFails, Reenter, Crash, AgeLock
<1>3. SUFFICES ASSUME "timeout" \notin env.faults, Chained PROVE Chained'
  BY <1>1, <1>2 DEF ChainInv
<1>4. ASSUME NEW c \in Caller, Enter(c) PROVE Chained'
  BY <1>1, <1>3, <1>4, EnterKeepsChain
<1>5. ASSUME NEW c \in Caller, Step(c) PROVE Chained'
  <2>1. CASE ReleaseLock(c)
    BY <1>1, <1>3, <2>1, LeaveKeepsChain DEF ReleaseLock, Contending
  <2>2. CASE ExitNested(c)
    BY <1>3, <2>2 DEF ExitNested, Chained, ChainedBy, Peers
  <2> QED
    BY <1>1, <1>3, <1>5, <2>1, <2>2, StepMoves, MoveKeepsChain DEF WaitInv
<1>6. ASSUME NEW c \in Caller, WriteFails(c) PROVE Chained'
  BY <1>1, <1>3, <1>6, LeaveKeepsChain DEF WriteFails, Contending
<1>7. ASSUME NEW c \in Caller, TurnTimeout(c) \/ LockTimeout(c) PROVE FALSE
  BY <1>3, <1>7 DEF TurnTimeout, LockTimeout
<1>8. ASSUME NEW c \in Caller, Reenter(c) PROVE Chained'
  BY <1>3, <1>8 DEF Reenter, Chained, ChainedBy, Peers
<1>9. ASSUME NEW p \in Process, Crash(p) PROVE Chained'
  BY <1>1, <1>3, <1>9, CrashKeepsChain
<1>10. CASE AgeLock \/ UNCHANGED vars
  BY <1>3, <1>10 DEF AgeLock, vars, Chained, ChainedBy, Peers
<1> QED
  BY <1>4, <1>5, <1>6, <1>7, <1>8, <1>9, <1>10 DEF Next

(***************************************************************************)
(* The calls of a process stand in one chain, in every environment in      *)
(* which nobody gives up waiting.                                          *)
(***************************************************************************)
THEOREM ChainInvariant == Spec => []ChainInv
<1>1. Init => ChainInv
  <2> SUFFICES ASSUME Init PROVE ChainInv
    OBVIOUS
  <2>1. WaitInv
    BY TypeInit DEF WaitInv, Init, WaitsForLiveCall, TailIsLive
  <2>2. [c \in Caller |-> 0] \in [Caller -> Nat] /\ \A c \in Caller : pc[c] \notin Calling
    BY DEF Init, Calling, Contending
  <2>3. ChainedBy([c \in Caller |-> 0])
    BY <2>2 DEF ChainedBy
  <2> QED
    BY <2>1, <2>2, <2>3 DEF ChainInv, Chained
<1>2. ChainInv /\ TypeOK' /\ [Next]_vars => ChainInv'
  BY ChainStep
<1> QED
  BY <1>1, <1>2, TypeCorrect, PTL DEF Spec

(***************************************************************************)
(* No lost wakeup: whoever waits in the chain waits for a call that is     *)
(* still under way, in every environment.                                  *)
(***************************************************************************)
THEOREM NoLostWakeup == Spec => []WaitsForLiveCall
<1>1. ChainInv => WaitsForLiveCall
  BY DEF ChainInv, WaitInv
<1> QED
  BY <1>1, ChainInvariant, PTL

(***************************************************************************)
(* As long as nobody gives up waiting, at most one call of each process    *)
(* is past its turn, whatever else fails.                                  *)
(***************************************************************************)
THEOREM Sequential == Spec => []SequentialUnlessTimeout
<1>1. ChainInv => SequentialUnlessTimeout
  <2> SUFFICES ASSUME WaitInv, Chained, NEW c \in Caller, NEW d \in Caller,
                      ProcOf[c] = ProcOf[d], pc[c] \in Contending, pc[d] \in Contending
               PROVE  c = d
    BY DEF ChainInv, SequentialUnlessTimeout, SequentialInProcess
  <2>1. PICK pos \in [Caller -> Nat] : ChainedBy(pos)
    BY DEF Chained
  <2>2. prev[c] = NoCaller /\ prev[d] = NoCaller /\ c \in Peers(d) /\ d \in Peers(c)
    BY DEF WaitInv, WaitsForLiveCall, Contending, Calling, Peers
  <2>3. ~(pos[c] < pos[d]) /\ ~(pos[d] < pos[c])
    BY <2>1, <2>2 DEF ChainedBy, Peers
  <2> QED
    BY <2>1, <2>2, <2>3 DEF ChainedBy, Peers
<1> QED
  BY <1>1, ChainInvariant, PTL
=============================================================================
