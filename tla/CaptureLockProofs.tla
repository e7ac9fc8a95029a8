--------------------------- MODULE CaptureLockProofs ---------------------------
(***************************************************************************)
(* Theorems about CaptureLock, for every set of calls and processes and    *)
(* every TTL, hard timeout and latency that satisfy LockAssumption.        *)
(***************************************************************************)
EXTENDS CaptureLock, TLAPS

(***************************************************************************)
(* The inductive invariant.  HolderExclusive alone is not inductive: that  *)
(* no second call can acquire rests on the time left on the lock, so each  *)
(* stage of a claim carries the lower bound of lockedUntil that its age    *)
(* still guarantees.                                                       *)
(***************************************************************************)
Running(c) == pc[c] \in {"acquiring", "won", "working"}

GuardInv ==
    /\ \A c \in Calls : Running(c) => capturing[ProcOf[c]]
    /\ \A c, d \in Calls :
          Running(c) /\ Running(d) /\ ProcOf[c] = ProcOf[d] => c = d
    /\ \A p \in Procs :
          acquired[p] => \E c \in Calls : ProcOf[c] = p /\ pc[c] = "working"

AgeInv ==
    \A c \in Calls :
        /\ pc[c] \in Waiting => age[c] <= Latency
        /\ pc[c] = "working" => age[c] <= HardTimeout

ClaimInv ==
    \A c \in Calls :
        /\ pc[c] = "won" => lock.owner = c /\ lock.left >= TTL - age[c]
        /\ pc[c] = "working" /\ acquired[ProcOf[c]] =>
              lock.owner = c /\ lock.left >= TTL - Latency - age[c]
        /\ pc[c] = "releasing" =>
              lock.owner = c /\ lock.left >= TTL - Latency - HardTimeout - age[c]

StopInv ==
    \A p \in Procs : stopRelease[p] =>
        /\ lock.owner \in Calls /\ ProcOf[lock.owner] = p
        /\ lock.left >= TTL - Latency - HardTimeout - stopAge[p]
        /\ phase[p] = "stopping"
        /\ \A c \in Calls : ~Claims(c)

HaltInv == lock.owner \in {None, Operator} => lock.left = 0

LockInv ==
    /\ TypeOK /\ GuardInv /\ AgeInv /\ ClaimInv /\ StopInv /\ HaltInv

(***************************************************************************)
(* While a claim lives, the acquire filter matches nobody.                 *)
(***************************************************************************)
LEMMA ClaimBlocks ==
    ASSUME LockInv, NEW c \in Calls, pc[c] = "acquiring", Available(age[c])
    PROVE  /\ \A d \in Calls : ~Claims(d)
           /\ \A p \in Procs : ~stopRelease[p]
<1>1. age[c] \in Nat /\ age[c] <= Latency /\ lock.left \in Int
  BY LockAssumption DEF LockInv, TypeOK, AgeInv, Waiting, Expired
<1>2. ASSUME NEW d \in Calls, Claims(d) PROVE FALSE
  <2>1. lock.owner = d /\ age[d] \in Nat
    BY <1>2, LockAssumption DEF LockInv, ClaimInv, Claims, TypeOK
  <2>2. lock.left >= 0
    BY <1>2, <2>1, LockAssumption DEF LockInv, ClaimInv, AgeInv, Claims, Waiting, TypeOK, Expired
  <2> QED BY <1>1, <2>1, <2>2, LockAssumption DEF Available
<1>3. ASSUME NEW p \in Procs, stopRelease[p] PROVE FALSE
  <2>1. lock.owner \in Calls /\ stopAge[p] \in Nat /\ stopAge[p] <= Latency
    BY <1>3, LockAssumption DEF LockInv, StopInv, TypeOK
  <2>2. lock.left >= 0
    BY <1>3, <1>1, <2>1, LockAssumption DEF LockInv, StopInv
  <2> QED BY <1>1, <2>1, <2>2, LockAssumption DEF Available
<1> QED BY <1>2, <1>3

(***************************************************************************)
(* Every state satisfies LockInv, the type invariant among its conjuncts.  *)
(***************************************************************************)
LEMMA InitInv == Init => LockInv
BY LockAssumption
DEF Init, LockInv, TypeOK, GuardInv, AgeInv, ClaimInv, StopInv, HaltInv, Running,
    Waiting, Free, Expired

(***************************************************************************)
(* Every step keeps the type invariant.                                    *)
(***************************************************************************)
LEMMA StepTypeOK == LockInv /\ [Next]_vars => TypeOK'
<1> SUFFICES ASSUME LockInv, [Next]_vars PROVE TypeOK'
  OBVIOUS
<1> USE LockAssumption DEF LockInv, TypeOK, Expired
<1>1. ASSUME NEW c \in Calls, CallStep(c) PROVE TypeOK'
  <2>1. CASE Trigger(c) BY <2>1 DEF Trigger, Goto
  <2>2. CASE AcquireOk(c)
    <3>1. age[c] \in Nat /\ age[c] <= Latency BY <2>2 DEF AcquireOk, AgeInv, Waiting
    <3>2. lock' \in [owner : Calls \cup {None, Operator}, left : Expired .. TTL]
      BY <2>2, <3>1 DEF AcquireOk
    <3> QED BY <2>2, <3>2 DEF AcquireOk
  <2>3. CASE AcquireDenied(c) BY <2>3 DEF AcquireDenied, GiveUp, Goto
  <2>4. CASE AcquireError(c) BY <2>4 DEF AcquireError, GiveUp, Goto
  <2>5. CASE AcquireAck(c) BY <2>5 DEF AcquireAck, Goto
  <2>6. CASE WorkDone(c) BY <2>6 DEF WorkDone, Finally, Goto
  <2>7. CASE HardTimeoutFires(c) BY <2>7 DEF HardTimeoutFires, Finally, Goto
  <2>8. CASE OrphanSettles(c) BY <2>8 DEF OrphanSettles
  <2>9. CASE ReleaseLand(c) BY <2>9 DEF ReleaseLand, Goto, Free
  <2>10. CASE ReleaseError(c) BY <2>10 DEF ReleaseError, Goto
  <2> QED
    BY <1>1, <2>1, <2>2, <2>3, <2>4, <2>5, <2>6, <2>7, <2>8, <2>9, <2>10 DEF CallStep
<1>2. ASSUME NEW p \in Procs, ProcStep(p) PROVE TypeOK'
  <2>1. CASE BeginShutdown(p) BY <2>1 DEF BeginShutdown
  <2>2. CASE StopReleaseLand(p) BY <2>2 DEF StopReleaseLand, Free
  <2>3. CASE StopReleaseError(p) BY <2>3 DEF StopReleaseError
  <2>4. CASE Exit(p) BY <2>4 DEF Exit
  <2>5. CASE Boot(p) BY <2>5 DEF Boot
  <2> QED BY <1>2, <2>1, <2>2, <2>3, <2>4, <2>5 DEF ProcStep
<1>3. CASE Tick
  <2>1. lock' \in [owner : Calls \cup {None, Operator}, left : Expired .. TTL]
    BY <1>3 DEF Tick
  <2>2. age' \in [Calls -> 0 .. (HardTimeout + Latency)]
    BY <1>3 DEF Tick, Waiting
  <2>3. stopAge' \in [Procs -> 0 .. Latency]
    BY <1>3 DEF Tick
  <2> QED BY <1>3, <2>1, <2>2, <2>3 DEF Tick
<1>4. CASE QuietHalt \/ OperatorLift
  BY <1>4 DEF QuietHalt, OperatorHalt, OperatorLift, HaltLock, Free
<1>5. CASE UNCHANGED vars
  BY <1>5 DEF vars
<1> QED BY <1>1, <1>2, <1>3, <1>4, <1>5 DEF Next

(***************************************************************************)
(* The steps of a call.  An acquire that matches finds no claim            *)
(* (ClaimBlocks); a release frees a lock that only its own call claims.    *)
(***************************************************************************)
LEMMA CallStepInv ==
    ASSUME LockInv, NEW c \in Calls, CallStep(c)
    PROVE  GuardInv' /\ AgeInv' /\ ClaimInv' /\ StopInv' /\ HaltInv'
<1> USE LockAssumption DEF LockInv, TypeOK, Expired, Running, Waiting, Claims
<1>1. CASE Trigger(c)
  <2>1. GuardInv' BY <1>1 DEF Trigger, Goto, GuardInv
  <2>2. AgeInv' BY <1>1 DEF Trigger, Goto, AgeInv
  <2>3. ClaimInv' BY <1>1 DEF Trigger, Goto, ClaimInv, GuardInv, AgeInv
  <2>4. StopInv' BY <1>1 DEF Trigger, Goto, StopInv, GuardInv, AgeInv, ClaimInv
  <2>5. HaltInv' BY <1>1 DEF Trigger, Goto, HaltInv
  <2> QED BY <2>1, <2>2, <2>3, <2>4, <2>5
<1>2. CASE AcquireDenied(c)
  <2>1. GuardInv' BY <1>2 DEF AcquireDenied, GiveUp, Goto, GuardInv
  <2>2. AgeInv' BY <1>2 DEF AcquireDenied, GiveUp, Goto, AgeInv
  <2>3. ClaimInv' BY <1>2 DEF AcquireDenied, GiveUp, Goto, ClaimInv, GuardInv, AgeInv
  <2>4. StopInv' BY <1>2 DEF AcquireDenied, GiveUp, Goto, StopInv, GuardInv, AgeInv, ClaimInv
  <2>5. HaltInv' BY <1>2 DEF AcquireDenied, GiveUp, Goto, HaltInv
  <2> QED BY <2>1, <2>2, <2>3, <2>4, <2>5
<1>3. CASE AcquireError(c)
  <2>1. GuardInv' BY <1>3 DEF AcquireError, GiveUp, Goto, GuardInv
  <2>2. AgeInv' BY <1>3 DEF AcquireError, GiveUp, Goto, AgeInv
  <2>3. ClaimInv' BY <1>3 DEF AcquireError, GiveUp, Goto, ClaimInv, GuardInv, AgeInv
  <2>4. StopInv' BY <1>3 DEF AcquireError, GiveUp, Goto, StopInv, GuardInv, AgeInv, ClaimInv
  <2>5. HaltInv' BY <1>3 DEF AcquireError, GiveUp, Goto, HaltInv
  <2> QED BY <2>1, <2>2, <2>3, <2>4, <2>5
<1>4. CASE AcquireAck(c)
  <2>1. GuardInv' BY <1>4 DEF AcquireAck, Goto, GuardInv
  <2>2. AgeInv' BY <1>4 DEF AcquireAck, Goto, AgeInv
  <2>3. ClaimInv' BY <1>4 DEF AcquireAck, Goto, ClaimInv, GuardInv, AgeInv
  <2>4. StopInv' BY <1>4 DEF AcquireAck, Goto, StopInv, GuardInv, AgeInv, ClaimInv
  <2>5. HaltInv' BY <1>4 DEF AcquireAck, Goto, HaltInv
  <2> QED BY <2>1, <2>2, <2>3, <2>4, <2>5
<1>5. CASE WorkDone(c)
  <2>1. GuardInv' BY <1>5 DEF WorkDone, Finally, Goto, GuardInv
  <2>2. AgeInv' BY <1>5 DEF WorkDone, Finally, Goto, AgeInv
  <2>3. ClaimInv' BY <1>5 DEF WorkDone, Finally, Goto, ClaimInv, GuardInv, AgeInv
  <2>4. StopInv' BY <1>5 DEF WorkDone, Finally, Goto, StopInv, GuardInv, AgeInv, ClaimInv
  <2>5. HaltInv' BY <1>5 DEF WorkDone, Finally, Goto, HaltInv
  <2> QED BY <2>1, <2>2, <2>3, <2>4, <2>5
<1>6. CASE HardTimeoutFires(c)
  <2>1. GuardInv' BY <1>6 DEF HardTimeoutFires, Finally, Goto, GuardInv
  <2>2. AgeInv' BY <1>6 DEF HardTimeoutFires, Finally, Goto, AgeInv
  <2>3. ClaimInv' BY <1>6 DEF HardTimeoutFires, Finally, Goto, ClaimInv, GuardInv, AgeInv
  <2>4. StopInv' BY <1>6 DEF HardTimeoutFires, Finally, Goto, StopInv, GuardInv, AgeInv, ClaimInv
  <2>5. HaltInv' BY <1>6 DEF HardTimeoutFires, Finally, Goto, HaltInv
  <2> QED BY <2>1, <2>2, <2>3, <2>4, <2>5
<1>7. CASE OrphanSettles(c)
  <2>1. GuardInv' BY <1>7 DEF OrphanSettles, GuardInv
  <2>2. AgeInv' BY <1>7 DEF OrphanSettles, AgeInv
  <2>3. ClaimInv' BY <1>7 DEF OrphanSettles, ClaimInv, GuardInv, AgeInv
  <2>4. StopInv' BY <1>7 DEF OrphanSettles, StopInv, GuardInv, AgeInv, ClaimInv
  <2>5. HaltInv' BY <1>7 DEF OrphanSettles, HaltInv
  <2> QED BY <2>1, <2>2, <2>3, <2>4, <2>5
<1>8. CASE ReleaseLand(c)
  <2>1. GuardInv' BY <1>8 DEF ReleaseLand, Goto, Free, GuardInv
  <2>2. AgeInv' BY <1>8 DEF ReleaseLand, Goto, Free, AgeInv
  <2>3. ClaimInv' BY <1>8 DEF ReleaseLand, Goto, Free, ClaimInv, GuardInv, AgeInv
  <2>4. StopInv' BY <1>8 DEF ReleaseLand, Goto, Free, StopInv, GuardInv, AgeInv, ClaimInv
  <2>5. HaltInv' BY <1>8 DEF ReleaseLand, Goto, Free, HaltInv
  <2> QED BY <2>1, <2>2, <2>3, <2>4, <2>5
<1>9. CASE ReleaseError(c)
  <2>1. GuardInv' BY <1>9 DEF ReleaseError, Goto, GuardInv
  <2>2. AgeInv' BY <1>9 DEF ReleaseError, Goto, AgeInv
  <2>3. ClaimInv' BY <1>9 DEF ReleaseError, Goto, ClaimInv, GuardInv, AgeInv
  <2>4. StopInv' BY <1>9 DEF ReleaseError, Goto, StopInv, GuardInv, AgeInv, ClaimInv
  <2>5. HaltInv' BY <1>9 DEF ReleaseError, Goto, HaltInv
  <2> QED BY <2>1, <2>2, <2>3, <2>4, <2>5
<1>10. CASE AcquireOk(c)
  <2>1. (\A d \in Calls : ~Claims(d)) /\ (\A p \in Procs : ~stopRelease[p])
    BY <1>10, ClaimBlocks DEF AcquireOk
  <2>2. GuardInv' BY <1>10 DEF AcquireOk, GuardInv
  <2>3. AgeInv' BY <1>10 DEF AcquireOk, AgeInv
  <2>4. ClaimInv' BY <1>10, <2>1 DEF AcquireOk, ClaimInv
  <2>5. StopInv' BY <1>10, <2>1 DEF AcquireOk, StopInv
  <2>6. HaltInv' BY <1>10 DEF AcquireOk, HaltInv
  <2> QED BY <2>2, <2>3, <2>4, <2>5, <2>6
<1> QED
  BY <1>1, <1>2, <1>3, <1>4, <1>5, <1>6, <1>7, <1>8, <1>9, <1>10 DEF CallStep

(***************************************************************************)
(* The steps of a process, of time and of the operator.                    *)
(***************************************************************************)
LEMMA ProcStepInv ==
    ASSUME LockInv, NEW p \in Procs, ProcStep(p)
    PROVE  GuardInv' /\ AgeInv' /\ ClaimInv' /\ StopInv' /\ HaltInv'
<1> USE LockAssumption DEF LockInv, TypeOK, Expired, Running, Waiting, Claims
<1>1. CASE BeginShutdown(p)
  <2>1. GuardInv' BY <1>1 DEF BeginShutdown, GuardInv
  <2>2. AgeInv' BY <1>1 DEF BeginShutdown, AgeInv
  <2>3. ClaimInv' BY <1>1 DEF BeginShutdown, ClaimInv, GuardInv, AgeInv, StopInv
  <2>4. StopInv' BY <1>1 DEF BeginShutdown, StopInv, GuardInv, AgeInv, ClaimInv
  <2>5. HaltInv' BY <1>1 DEF BeginShutdown, HaltInv
  <2> QED BY <2>1, <2>2, <2>3, <2>4, <2>5
<1>2. CASE StopReleaseLand(p)
  <2>1. GuardInv' BY <1>2 DEF StopReleaseLand, Free, GuardInv
  <2>2. AgeInv' BY <1>2 DEF StopReleaseLand, Free, AgeInv
  <2>3. ClaimInv' BY <1>2 DEF StopReleaseLand, Free, ClaimInv, GuardInv, AgeInv, StopInv
  <2>4. StopInv' BY <1>2 DEF StopReleaseLand, Free, StopInv, GuardInv, AgeInv, ClaimInv
  <2>5. HaltInv' BY <1>2 DEF StopReleaseLand, Free, HaltInv
  <2> QED BY <2>1, <2>2, <2>3, <2>4, <2>5
<1>3. CASE StopReleaseError(p)
  <2>1. GuardInv' BY <1>3 DEF StopReleaseError, GuardInv
  <2>2. AgeInv' BY <1>3 DEF StopReleaseError, AgeInv
  <2>3. ClaimInv' BY <1>3 DEF StopReleaseError, ClaimInv, GuardInv, AgeInv, StopInv
  <2>4. StopInv' BY <1>3 DEF StopReleaseError, StopInv, GuardInv, AgeInv, ClaimInv
  <2>5. HaltInv' BY <1>3 DEF StopReleaseError, HaltInv
  <2> QED BY <2>1, <2>2, <2>3, <2>4, <2>5
<1>4. CASE Exit(p)
  <2>1. GuardInv' BY <1>4 DEF Exit, CallsOf, GuardInv
  <2>2. AgeInv' BY <1>4 DEF Exit, CallsOf, AgeInv
  <2>3. ClaimInv' BY <1>4 DEF Exit, CallsOf, ClaimInv, GuardInv, AgeInv, StopInv
  <2>4. StopInv' BY <1>4 DEF Exit, CallsOf, StopInv, GuardInv, AgeInv, ClaimInv
  <2>5. HaltInv' BY <1>4 DEF Exit, CallsOf, HaltInv
  <2> QED BY <2>1, <2>2, <2>3, <2>4, <2>5
<1>5. CASE Boot(p)
  <2>1. GuardInv' BY <1>5 DEF Boot, GuardInv
  <2>2. AgeInv' BY <1>5 DEF Boot, AgeInv
  <2>3. ClaimInv' BY <1>5 DEF Boot, ClaimInv, GuardInv, AgeInv, StopInv
  <2>4. StopInv' BY <1>5 DEF Boot, StopInv, GuardInv, AgeInv, ClaimInv
  <2>5. HaltInv' BY <1>5 DEF Boot, HaltInv
  <2> QED BY <2>1, <2>2, <2>3, <2>4, <2>5
<1> QED
  BY <1>1, <1>2, <1>3, <1>4, <1>5 DEF ProcStep

(***************************************************************************)
(* The steps of a whole process (death, start), of time and of the         *)
(* operator keep the invariant.                                            *)
(***************************************************************************)
LEMMA OtherStepInv ==
    ASSUME LockInv, Tick \/ QuietHalt \/ OperatorLift \/ UNCHANGED vars
    PROVE  GuardInv' /\ AgeInv' /\ ClaimInv' /\ StopInv' /\ HaltInv'
<1> USE LockAssumption DEF LockInv, TypeOK, Expired, Running, Waiting, Claims
<1>1. CASE Tick
  <2>1. /\ lock'.owner = lock.owner
        /\ lock.owner \in Calls => lock'.left >= lock.left - 1
        /\ lock.owner \notin Calls => lock' = lock
    BY <1>1 DEF Tick
  <2>2. GuardInv' BY <1>1 DEF Tick, GuardInv
  <2>3. AgeInv' BY <1>1 DEF Tick, AgeInv
  <2>4. ClaimInv' BY <1>1, <2>1 DEF Tick, ClaimInv
  <2>5. StopInv' BY <1>1, <2>1 DEF Tick, StopInv
  <2>6. HaltInv' BY <1>1, <2>1 DEF Tick, HaltInv
  <2> QED BY <2>2, <2>3, <2>4, <2>5, <2>6
<1>2. CASE QuietHalt
  <2>1. GuardInv' /\ AgeInv' BY <1>2 DEF QuietHalt, OperatorHalt, GuardInv, AgeInv
  <2>2. ClaimInv' BY <1>2 DEF QuietHalt, OperatorHalt, NoClaim, ClaimInv
  <2>3. StopInv' BY <1>2 DEF QuietHalt, OperatorHalt, NoClaim, StopInv
  <2>4. HaltInv' BY <1>2 DEF QuietHalt, OperatorHalt, HaltLock, HaltInv
  <2> QED BY <2>1, <2>2, <2>3, <2>4
<1>3. CASE OperatorLift
  <2>1. GuardInv' /\ AgeInv' BY <1>3 DEF OperatorLift, GuardInv, AgeInv
  <2>2. ClaimInv' BY <1>3 DEF OperatorLift, ClaimInv
  <2>3. StopInv' BY <1>3 DEF OperatorLift, StopInv
  <2>4. HaltInv' BY <1>3 DEF OperatorLift, Free, HaltInv
  <2> QED BY <2>1, <2>2, <2>3, <2>4
<1>4. CASE UNCHANGED vars
  BY <1>4 DEF vars, GuardInv, AgeInv, ClaimInv, StopInv, HaltInv
<1> QED BY <1>1, <1>2, <1>3, <1>4

(***************************************************************************)
(* LockInv is an invariant of the lock, for every number of processes and  *)
(* calls and every timing that satisfies LockAssumption.                   *)
(***************************************************************************)
THEOREM LockInvariant == Spec => []LockInv
<1>1. Init => LockInv
  BY InitInv
<1>2. LockInv /\ [Next]_vars => LockInv'
  <2> SUFFICES ASSUME LockInv, [Next]_vars PROVE LockInv'
    OBVIOUS
  <2>1. TypeOK'
    BY StepTypeOK
  <2>2. GuardInv' /\ AgeInv' /\ ClaimInv' /\ StopInv' /\ HaltInv'
    BY CallStepInv, ProcStepInv, OtherStepInv DEF Next
  <2> QED BY <2>1, <2>2 DEF LockInv
<1> QED BY <1>1, <1>2, PTL DEF Spec

(***************************************************************************)
(* The type invariant, for any number of processes and calls.              *)
(***************************************************************************)
THEOREM TypeCorrect == Spec => []TypeOK
<1>1. LockInv => TypeOK
  BY DEF LockInv
<1> QED BY <1>1, LockInvariant, PTL

(***************************************************************************)
(* Mutual exclusion of captures and of the releases in flight: a capture   *)
(* that passed acquireCaptureLock is alone until its release is answered.  *)
(***************************************************************************)
LEMMA InvExcludes == LockInv => HolderExclusive
<1> SUFFICES ASSUME LockInv PROVE HolderExclusive
  OBVIOUS
<1>1. \A c \in Calls : Claims(c) => lock.owner = c
  BY DEF LockInv, ClaimInv, Claims
<1>2. \A p \in Procs : stopRelease[p] =>
         ProcOf[lock.owner] = p /\ \A c \in Calls : ~Claims(c)
  BY DEF LockInv, StopInv
<1> QED BY <1>1, <1>2 DEF HolderExclusive

(***************************************************************************)
(* Mutual exclusion, for any number of processes and calls.                *)
(***************************************************************************)
THEOREM Exclusion == Spec => []HolderExclusive
BY LockInvariant, InvExcludes, PTL

(***************************************************************************)
(* Nobody but its owner takes a claimed lock away: neither expiry, nor the *)
(* unconditional filter of another capture's release, nor a halt written   *)
(* between captures.                                                       *)
(***************************************************************************)
THEOREM OwnerKeepsLock == Spec => LostOnlyByOwner
<1> DEFINE Kept == \A c \in Calls : lock.owner = c /\ lock'.owner # c =>
                     /\ Claims(c) => ReleaseLand(c)
                     /\ stopRelease[ProcOf[c]] => StopReleaseLand(ProcOf[c])
<1>1. LockInv /\ [Next]_vars => [Kept]_vars
  <2> SUFFICES ASSUME LockInv, Next, NEW c \in Calls, lock.owner = c, lock'.owner # c
               PROVE  /\ Claims(c) => ReleaseLand(c)
                      /\ stopRelease[ProcOf[c]] => StopReleaseLand(ProcOf[c])
    BY DEF vars
  <2>1. ProcOf[c] \in Procs
    BY LockAssumption
  <2>2. (\A d \in Calls : Claims(d) => d = c)
        /\ (\A p \in Procs : stopRelease[p] => ProcOf[c] = p /\ ~Claims(c))
    BY DEF LockInv, ClaimInv, StopInv, Claims
  <2>3. ASSUME NEW d \in Calls, CallStep(d)
        PROVE  \/ (Claims(c) => ReleaseLand(c)) /\ ~stopRelease[ProcOf[c]]
               \/ (~Claims(c) /\ (stopRelease[ProcOf[c]] => StopReleaseLand(ProcOf[c])))
    <3>1. AcquireOk(d) \/ ReleaseLand(d)
      BY <2>3 DEF CallStep, Trigger, AcquireDenied, AcquireError, GiveUp, AcquireAck,
                  WorkDone, HardTimeoutFires, Finally, OrphanSettles, ReleaseError
    <3>2. CASE AcquireOk(d)
      BY <3>2, <2>1, ClaimBlocks DEF AcquireOk
    <3>3. CASE ReleaseLand(d)
      BY <3>3, <2>1, <2>2 DEF ReleaseLand, Claims
    <3> QED BY <3>1, <3>2, <3>3
  <2>4. ASSUME NEW p \in Procs, ProcStep(p)
        PROVE  StopReleaseLand(ProcOf[c]) /\ ~Claims(c)
    <3>1. StopReleaseLand(p)
      BY <2>4 DEF ProcStep, BeginShutdown, StopReleaseError, Exit, Boot
    <3> QED BY <3>1, <2>2 DEF StopReleaseLand
  <2>5. ASSUME Tick PROVE FALSE
    BY <2>5, LockAssumption DEF Tick, LockInv, TypeOK
  <2>6. ASSUME QuietHalt PROVE ~Claims(c) /\ ~stopRelease[ProcOf[c]]
    BY <2>6, <2>1 DEF QuietHalt, NoClaim
  <2>7. ASSUME OperatorLift PROVE FALSE
    BY <2>7, LockAssumption DEF OperatorLift
  <2> QED BY <2>3, <2>4, <2>5, <2>6, <2>7 DEF Next
<1> QED BY <1>1, LockInvariant, PTL DEF Spec, LostOnlyByOwner

(***************************************************************************)
(* A halt that an operator writes between two captures survives every      *)
(* acquire, release and shutdown hook.                                     *)
(***************************************************************************)
THEOREM HaltSurvives == Spec => HaltKept
<1>1. LockInv /\ [Next]_vars =>
        [lock.owner = Operator /\ lock'.owner # Operator => OperatorLift]_vars
  <2> SUFFICES ASSUME LockInv, Next, lock.owner = Operator, lock'.owner # Operator
               PROVE  OperatorLift
    BY DEF vars
  <2>1. /\ \A c \in Calls : ~Claims(c)
        /\ \A p \in Procs : ~stopRelease[p]
        /\ lock.left = 0
    BY LockAssumption DEF LockInv, ClaimInv, StopInv, HaltInv, Claims
  <2>2. ASSUME NEW c \in Calls, CallStep(c) PROVE FALSE
    <3>1. AcquireOk(c) \/ ReleaseLand(c)
      BY <2>2 DEF CallStep, Trigger, AcquireDenied, AcquireError, GiveUp, AcquireAck,
                  WorkDone, HardTimeoutFires, Finally, OrphanSettles, ReleaseError
    <3>2. age[c] \in Nat
      BY LockAssumption DEF LockInv, TypeOK
    <3>3. ~AcquireOk(c)
      BY <2>1, <3>2, LockAssumption DEF AcquireOk, Available
    <3> QED BY <3>1, <3>3, <2>1 DEF ReleaseLand, Claims
  <2>3. ASSUME NEW p \in Procs, ProcStep(p) PROVE FALSE
    BY <2>3, <2>1 DEF ProcStep, BeginShutdown, StopReleaseLand, StopReleaseError, Exit, Boot
  <2>4. ~Tick /\ ~QuietHalt
    BY LockAssumption DEF Tick, QuietHalt, OperatorHalt
  <2> QED BY <2>2, <2>3, <2>4 DEF Next
<1> QED BY <1>1, LockInvariant, PTL DEF Spec, HaltKept

(***************************************************************************)
(* A call that has not started its body has none at work: capture() is not *)
(* called again under an identity whose orphan still runs.                 *)
(***************************************************************************)
NotStarted == \A c \in Calls : pc[c] \in {"acquiring", "won"} => ~work[c]

LEMMA NotStartedInv == Spec => []NotStarted
<1>1. Init => NotStarted
  BY DEF Init, NotStarted
<1>2. LockInv /\ NotStarted /\ [Next]_vars => NotStarted'
  <2> SUFFICES ASSUME LockInv, NotStarted, [Next]_vars PROVE NotStarted'
    OBVIOUS
  <2> USE DEF LockInv, TypeOK, NotStarted
  <2>1. ASSUME NEW c \in Calls, CallStep(c) PROVE NotStarted'
    BY <2>1 DEF CallStep, Trigger, AcquireOk, AcquireDenied, AcquireError, GiveUp, AcquireAck,
                WorkDone, HardTimeoutFires, Finally, OrphanSettles, ReleaseLand, ReleaseError, Goto
  <2>2. ASSUME NEW p \in Procs, ProcStep(p) PROVE NotStarted'
    BY <2>2 DEF ProcStep, BeginShutdown, StopReleaseLand, StopReleaseError, Exit, Boot, CallsOf
  <2>3. CASE Tick \/ QuietHalt \/ OperatorLift \/ UNCHANGED vars
    BY <2>3 DEF Tick, QuietHalt, OperatorHalt, OperatorLift, vars
  <2> QED BY <2>1, <2>2, <2>3 DEF Next
<1> QED BY <1>1, <1>2, LockInvariant, PTL DEF Spec

(***************************************************************************)
(* What a step of a call does to the claims and to the bodies at work.     *)
(***************************************************************************)
Claimers == {c \in Calls : Claims(c)}
Working == {c \in Calls : work[c]}

LEMMA CallTurns ==
    ASSUME LockInv, NotStarted, NEW c \in Calls, CallStep(c)
    PROVE  Turns!TurnsNext
<1> USE DEF LockInv, TypeOK
<1>1. CASE AcquireOk(c)
  <2>1. Claimers = {}
    BY <1>1, ClaimBlocks DEF AcquireOk, Claimers
  <2>2. Claimers' = {c} /\ Working' = Working
    BY <1>1, <2>1 DEF AcquireOk, Claimers, Working, Claims
  <2>3. Turns!Claim(c)
    BY <2>1, <2>2 DEF Turns!Claim, Claimers, Working
  <2> QED BY <2>3 DEF Turns!TurnsNext
<1>2. CASE AcquireAck(c)
  <2>1. Claims(c) /\ c \notin Working
    BY <1>2 DEF AcquireAck, Claims, NotStarted, Working
  <2>2. Claimers \subseteq {c}
    BY <2>1, InvExcludes DEF HolderExclusive, Claimers
  <2>3. Claimers' = {c}
    <3>1. ASSUME NEW d \in Calls, d # c, Claims(d)' PROVE FALSE
      <4>1. pc'[d] = pc[d] /\ pc[d] # "idle" /\ ~Claims(d)
        BY <1>2, <2>2, <3>1 DEF AcquireAck, Goto, Claims, Claimers
      <4>2. pc[d] = "working" /\ ProcOf[d] = ProcOf[c]
        BY <1>2, <3>1, <4>1, LockAssumption DEF AcquireAck, Claims
      <4> QED BY <1>2, <3>1, <4>2 DEF GuardInv, Running, AcquireAck
    <3>2. Claims(c)'
      BY <1>2, LockAssumption DEF AcquireAck, Goto, Claims
    <3> QED BY <3>1, <3>2 DEF Claimers
  <2>4. Working' = Working \cup {c}
    BY <1>2 DEF AcquireAck, Working
  <2>5. Turns!Start(c)
    BY <2>1, <2>2, <2>3, <2>4 DEF Turns!Start, Claimers, Working
  <2> QED BY <2>5 DEF Turns!TurnsNext
<1>3. CASE Trigger(c) \/ AcquireDenied(c) \/ AcquireError(c) \/ WorkDone(c)
           \/ HardTimeoutFires(c) \/ OrphanSettles(c) \/ ReleaseLand(c) \/ ReleaseError(c)
  <2>1. Working' \subseteq Working
    BY <1>3 DEF Trigger, AcquireDenied, AcquireError, GiveUp, WorkDone, HardTimeoutFires,
                OrphanSettles, ReleaseLand, ReleaseError, Working
  <2>2. \A p \in Procs : acquired'[p] => acquired[p]
    BY <1>3 DEF Trigger, AcquireDenied, AcquireError, GiveUp, WorkDone, HardTimeoutFires,
                Finally, OrphanSettles, ReleaseLand, ReleaseError
  <2>3. \A d \in Calls \ {c} : pc'[d] = pc[d]
    BY <1>3 DEF Trigger, AcquireDenied, AcquireError, GiveUp, WorkDone, HardTimeoutFires,
                Finally, OrphanSettles, ReleaseLand, ReleaseError, Goto
  <2>4. Claims(c)' => Claims(c)
    BY <1>3, LockAssumption
    DEF Trigger, AcquireDenied, AcquireError, GiveUp, WorkDone, HardTimeoutFires,
        Finally, OrphanSettles, ReleaseLand, ReleaseError, Goto, Claims
  <2>5. Claimers' \subseteq Claimers
    <3>1. ASSUME NEW d \in Calls, Claims(d)' PROVE Claims(d)
      BY <2>2, <2>3, <2>4, <3>1, LockAssumption DEF Claims
    <3> QED BY <3>1 DEF Claimers
  <2> QED BY <2>1, <2>5 DEF Turns!TurnsNext, Turns!LetGo, Claimers, Working
<1> QED BY <1>1, <1>2, <1>3 DEF CallStep

(***************************************************************************)
(* Every other step lets go of claims and bodies at most.                  *)
(***************************************************************************)
LEMMA OtherTurns ==
    ASSUME LockInv,
           \/ \E p \in Procs : ProcStep(p)
           \/ Tick \/ QuietHalt \/ OperatorLift \/ UNCHANGED vars
    PROVE  Turns!TurnsNext
<1> USE DEF LockInv, TypeOK
<1>1. \A c \in Calls : Claims(c)' => Claims(c)
  <2>1. ASSUME NEW p \in Procs, ProcStep(p), NEW c \in Calls, Claims(c)' PROVE Claims(c)
    BY <2>1, LockAssumption
    DEF ProcStep, BeginShutdown, StopReleaseLand, StopReleaseError, Exit, Boot, CallsOf, Claims
  <2>2. CASE Tick \/ QuietHalt \/ OperatorLift \/ UNCHANGED vars
    BY <2>2 DEF Tick, QuietHalt, OperatorHalt, OperatorLift, vars, Claims
  <2> QED BY <2>1, <2>2
<1>2. \A c \in Calls : work'[c] => work[c]
  BY DEF ProcStep, BeginShutdown, StopReleaseLand, StopReleaseError, Exit, Boot,
         Tick, QuietHalt, OperatorHalt, OperatorLift, vars
<1> QED BY <1>1, <1>2 DEF Turns!TurnsNext, Turns!LetGo

(***************************************************************************)
(* The lock makes the captures of any number of processes take turns: no   *)
(* body starts but under the one claim there is, and two bodies overlap    *)
(* only when all but one of them are orphans.                              *)
(***************************************************************************)
THEOREM LockMakesTurns == Spec => TakesTurns
<1>1. Init => Turns!TurnsInit
  BY DEF Init, Turns!TurnsInit, Claims
<1>2. LockInv /\ NotStarted /\ [Next]_vars
        => [Turns!TurnsNext]_<<{c \in Calls : Claims(c)}, {c \in Calls : work[c]}>>
  BY CallTurns, OtherTurns DEF Next
<1> QED
  BY <1>1, <1>2, LockInvariant, NotStartedInv, PTL DEF Spec, TakesTurns, Turns!TurnsSpec

================================================================================
