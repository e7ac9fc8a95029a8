------------------------------ MODULE CaptureLock ------------------------------
(***************************************************************************)
(* The cross-process mainnet capture lock of EcosystemService: capture(),  *)
(* acquireCaptureLock, releaseCaptureLock and onApplicationShutdown in     *)
(* src/api/src/ecosystem/ecosystem.service.ts, over the one capturelocks   *)
(* document of the network.                                                *)
(*                                                                         *)
(* A call is one invocation of capture(); a process is one Node process    *)
(* with its own `capturing` flag and its own `acquiredLocks` set.  The     *)
(* body of the capture (captureRaw, finalize, classify) is opaque here:    *)
(* only whether its promise is still running matters.  MainnetCapture      *)
(* models the body.                                                        *)
(*                                                                         *)
(* Abstractions: time is counted in ticks, and lockedUntil is kept as the  *)
(* time left until it; a database call answers, with success or an error,  *)
(* within Latency ticks; a process that dies loses the requests it has in  *)
(* flight (a request that reached the database first is a crash one step   *)
(* later).  The upsert that creates the lock document is a no-op once the  *)
(* document exists, as it does here from the start.                        *)
(***************************************************************************)
EXTENDS Integers

CONSTANTS
    Calls,        \* invocations of capture(), an identity may be used again
    Procs,        \* Node processes: the scanner, a forked manual trigger...
    ProcOf,       \* the process each call runs in
    None,         \* lockedUntil = null
    Operator,     \* the holder of a halt lock that a person wrote by hand
    TTL,          \* MAINNET_LOCK_TTL_MS, 180 minutes
    HardTimeout,  \* CAPTURE_HARD_TIMEOUT_MS, 125 minutes
    Latency       \* a bound on one database call

(***************************************************************************)
(* The time to live leaves room for the hard timeout and for the database  *)
(* calls on either side of it ("125m hard timeout + 55m buffer").          *)
(***************************************************************************)
ASSUME LockAssumption ==
    /\ ProcOf \in [Calls -> Procs]
    /\ None # Operator /\ None \notin Calls /\ Operator \notin Calls
    /\ TTL \in Nat /\ HardTimeout \in Nat /\ Latency \in Nat
    /\ HardTimeout + 2 * Latency < TTL

VARIABLES
    lock,         \* the lock document: [owner, left], left = lockedUntil - now
    pc,           \* where each call is in capture()
    age,          \* ticks since the call began the stage it is in
    work,         \* the captureWork promise of the call has not settled
    capturing,    \* this.capturing, per process
    acquired,     \* acquiredLocks.has('mainnet'), per process
    phase,        \* a process is up, in its shutdown hook, or down
    stopRelease,  \* the release sent by the shutdown hook is in flight
    stopAge       \* ticks since that release was sent

vars == <<lock, pc, age, work, capturing, acquired, phase, stopRelease, stopAge>>

Free == [owner |-> None, left |-> 0]
HaltLock == [owner |-> Operator, left |-> 0]   \* far future: it never expires
Expired == -(Latency + 1)                      \* where the countdown stops

CallsOf(p) == {c \in Calls : ProcOf[c] = p}

TypeOK ==
    /\ lock \in [owner : Calls \cup {None, Operator}, left : Expired .. TTL]
    /\ pc \in [Calls -> {"idle", "acquiring", "won", "working", "releasing"}]
    /\ age \in [Calls -> 0 .. (HardTimeout + Latency)]
    /\ work \in [Calls -> BOOLEAN]
    /\ capturing \in [Procs -> BOOLEAN]
    /\ acquired \in [Procs -> BOOLEAN]
    /\ phase \in [Procs -> {"up", "stopping", "down"}]
    /\ stopRelease \in [Procs -> BOOLEAN]
    /\ stopAge \in [Procs -> 0 .. Latency]

Init ==
    /\ lock = Free
    /\ pc = [c \in Calls |-> "idle"]
    /\ age = [c \in Calls |-> 0]
    /\ work = [c \in Calls |-> FALSE]
    /\ capturing = [p \in Procs |-> FALSE]
    /\ acquired = [p \in Procs |-> FALSE]
    /\ phase = [p \in Procs |-> "up"]
    /\ stopRelease = [p \in Procs |-> FALSE]
    /\ stopAge = [p \in Procs |-> 0]

Goto(c, stage) ==
    /\ pc' = [pc EXCEPT ![c] = stage]
    /\ age' = [age EXCEPT ![c] = 0]

(***************************************************************************)
(* The cron or a manual trigger calls capture().  The in-process flag is   *)
(* set before the first await.                                             *)
(***************************************************************************)
Trigger(c) ==
    LET p == ProcOf[c] IN
    /\ phase[p] = "up"
    /\ pc[c] = "idle" /\ ~work[c]
    /\ ~capturing[p]
    /\ capturing' = [capturing EXCEPT ![p] = TRUE]
    /\ Goto(c, "acquiring")
    /\ UNCHANGED <<lock, work, acquired, phase, stopRelease, stopAge>>

\* Defect: the acquire does not look at lockedUntil (HolderExclusive).
AvailableUnfiltered(waited) == lock.owner # Operator

\* Defect: the acquire matches a null lockedUntil only (LockReturns).
AvailableIfFree(waited) == lock.owner = None

(***************************************************************************)
(* The filter of the atomic acquire: lockedUntil is null, or before the    *)
(* `now` the caller read `waited` ticks ago.                               *)
(***************************************************************************)
Available(waited) ==
    \/ lock.owner = None
    \/ lock.left < -waited

\* Defect: the lock is written with an expiry beyond the time to live (TypeOK).
AcquireOkLong(c) ==
    /\ pc[c] = "acquiring"
    /\ Available(age[c])
    /\ lock' = [owner |-> c, left |-> TTL + age[c]]
    /\ pc' = [pc EXCEPT ![c] = "won"]
    /\ UNCHANGED <<age, work, capturing, acquired, phase, stopRelease, stopAge>>

(***************************************************************************)
(* The acquiring update reaches the database and matches.  lockedUntil was *)
(* computed from the same `now`.                                           *)
(***************************************************************************)
AcquireOk(c) ==
    /\ pc[c] = "acquiring"
    /\ Available(age[c])
    /\ lock' = [owner |-> c, left |-> TTL - age[c]]
    /\ pc' = [pc EXCEPT ![c] = "won"]
    /\ UNCHANGED <<age, work, capturing, acquired, phase, stopRelease, stopAge>>

\* Defect: the flag is cleared only by a call that got the lock (GuardReleased).
GiveUpKeepsFlag(c) ==
    /\ Goto(c, "idle")
    /\ UNCHANGED <<lock, work, capturing, acquired, phase, stopRelease, stopAge>>

(***************************************************************************)
(* The call returns without the lock: the filter did not match, or one of  *)
(* the calls of acquireCaptureLock threw.  The finally clears the flag;    *)
(* when the update had landed, the lock stays taken until it expires.      *)
(***************************************************************************)
GiveUp(c) ==
    /\ capturing' = [capturing EXCEPT ![ProcOf[c]] = FALSE]
    /\ Goto(c, "idle")
    /\ UNCHANGED <<lock, work, acquired, phase, stopRelease, stopAge>>

AcquireDenied(c) == pc[c] = "acquiring" /\ ~Available(age[c]) /\ GiveUp(c)

AcquireError(c) == pc[c] \in {"acquiring", "won"} /\ GiveUp(c)

(***************************************************************************)
(* modifiedCount = 1 came back: the process remembers the lock, starts     *)
(* captureWork and, in the same turn, the hard-timeout timer.              *)
(***************************************************************************)
AcquireAck(c) ==
    /\ pc[c] = "won"
    /\ acquired' = [acquired EXCEPT ![ProcOf[c]] = TRUE]
    /\ work' = [work EXCEPT ![c] = TRUE]
    /\ Goto(c, "working")
    /\ UNCHANGED <<lock, capturing, phase, stopRelease, stopAge>>

\* Defect: the finally releases a lock that is not its own any more
\* (LostOnlyByOwner).
FinallyUnguarded(c) ==
    LET p == ProcOf[c] IN
    /\ capturing' = [capturing EXCEPT ![p] = FALSE]
    /\ acquired' = [acquired EXCEPT ![p] = FALSE]
    /\ Goto(c, "releasing")
    /\ UNCHANGED <<lock, phase, stopRelease, stopAge>>

(***************************************************************************)
(* The finally of capture(): the flag first, then releaseCaptureLock,      *)
(* which sends nothing unless acquiredLocks still holds the network.       *)
(***************************************************************************)
Finally(c) ==
    LET p == ProcOf[c] IN
    /\ capturing' = [capturing EXCEPT ![p] = FALSE]
    /\ acquired' = [acquired EXCEPT ![p] = FALSE]
    /\ Goto(c, IF acquired[p] THEN "releasing" ELSE "idle")
    /\ UNCHANGED <<lock, phase, stopRelease, stopAge>>

WorkDone(c) ==
    /\ pc[c] = "working"
    /\ work' = [work EXCEPT ![c] = FALSE]
    /\ Finally(c)

(***************************************************************************)
(* Promise.race rejects.  captureWork is not cancelled: it runs on with    *)
(* nobody awaiting it, until it settles (OrphanSettles) or its process     *)
(* dies.                                                                   *)
(***************************************************************************)
HardTimeoutFires(c) ==
    /\ pc[c] = "working"
    /\ age[c] = HardTimeout
    /\ UNCHANGED work
    /\ Finally(c)

OrphanSettles(c) ==
    /\ pc[c] \in {"idle", "releasing"} /\ work[c]
    /\ work' = [work EXCEPT ![c] = FALSE]
    /\ UNCHANGED <<lock, pc, age, capturing, acquired, phase, stopRelease, stopAge>>

(***************************************************************************)
(* The releasing update: its filter is the network alone.                  *)
(***************************************************************************)
ReleaseLand(c) ==
    /\ pc[c] = "releasing"
    /\ lock' = Free
    /\ Goto(c, "idle")
    /\ UNCHANGED <<work, capturing, acquired, phase, stopRelease, stopAge>>

ReleaseError(c) ==
    /\ pc[c] = "releasing"
    /\ Goto(c, "idle")
    /\ UNCHANGED <<lock, work, capturing, acquired, phase, stopRelease, stopAge>>

\* Defect: the shutdown hook releases unconditionally, the bug of 2026-04-25
\* that acquiredLocks was introduced for (HaltKept).
BeginShutdownReleasesAll(p) ==
    /\ phase[p] = "up"
    /\ phase' = [phase EXCEPT ![p] = "stopping"]
    /\ stopRelease' = [stopRelease EXCEPT ![p] = TRUE]
    /\ stopAge' = [stopAge EXCEPT ![p] = 0]
    /\ acquired' = [acquired EXCEPT ![p] = FALSE]
    /\ UNCHANGED <<lock, pc, age, work, capturing>>

(***************************************************************************)
(* onApplicationShutdown: releases what acquiredLocks holds, while a       *)
(* capture in flight runs on until the process exits.                      *)
(***************************************************************************)
BeginShutdown(p) ==
    /\ phase[p] = "up"
    /\ phase' = [phase EXCEPT ![p] = "stopping"]
    /\ stopRelease' = [stopRelease EXCEPT ![p] = acquired[p]]
    /\ stopAge' = [stopAge EXCEPT ![p] = 0]
    /\ acquired' = [acquired EXCEPT ![p] = FALSE]
    /\ UNCHANGED <<lock, pc, age, work, capturing>>

StopReleaseLand(p) ==
    /\ stopRelease[p]
    /\ lock' = Free
    /\ stopRelease' = [stopRelease EXCEPT ![p] = FALSE]
    /\ stopAge' = [stopAge EXCEPT ![p] = 0]
    /\ UNCHANGED <<pc, age, work, capturing, acquired, phase>>

StopReleaseError(p) ==
    /\ stopRelease[p]
    /\ stopRelease' = [stopRelease EXCEPT ![p] = FALSE]
    /\ stopAge' = [stopAge EXCEPT ![p] = 0]
    /\ UNCHANGED <<lock, pc, age, work, capturing, acquired, phase>>

(***************************************************************************)
(* The process exits, after its hook or killed at any point.               *)
(***************************************************************************)
Exit(p) ==
    /\ phase[p] # "down"
    /\ phase' = [phase EXCEPT ![p] = "down"]
    /\ pc' = [c \in Calls |-> IF c \in CallsOf(p) THEN "idle" ELSE pc[c]]
    /\ age' = [c \in Calls |-> IF c \in CallsOf(p) THEN 0 ELSE age[c]]
    /\ work' = [c \in Calls |-> work[c] /\ c \notin CallsOf(p)]
    /\ capturing' = [capturing EXCEPT ![p] = FALSE]
    /\ acquired' = [acquired EXCEPT ![p] = FALSE]
    /\ stopRelease' = [stopRelease EXCEPT ![p] = FALSE]
    /\ stopAge' = [stopAge EXCEPT ![p] = 0]
    /\ UNCHANGED lock

Boot(p) ==
    /\ phase[p] = "down"
    /\ phase' = [phase EXCEPT ![p] = "up"]
    /\ UNCHANGED <<lock, pc, age, work, capturing, acquired, stopRelease, stopAge>>

(***************************************************************************)
(* Time passes, up to the next deadline: a database call that is due       *)
(* answers first, a hard timeout that is due fires first.                  *)
(***************************************************************************)
Waiting == {"acquiring", "won", "releasing"}

Tick ==
    /\ \A c \in Calls : pc[c] \in Waiting => age[c] < Latency
    /\ \A c \in Calls : pc[c] = "working" => age[c] < HardTimeout
    /\ \A p \in Procs : stopRelease[p] => stopAge[p] < Latency
    /\ lock' = IF lock.owner \in Calls /\ lock.left > Expired
               THEN [lock EXCEPT !.left = lock.left - 1]
               ELSE lock
    /\ age' = [c \in Calls |-> IF pc[c] = "idle" THEN 0 ELSE age[c] + 1]
    /\ stopAge' = [p \in Procs |-> IF stopRelease[p] THEN stopAge[p] + 1 ELSE 0]
    /\ UNCHANGED <<pc, work, capturing, acquired, phase, stopRelease>>

(***************************************************************************)
(* An operator freezes the network by writing a far-future lockedUntil,    *)
(* and lifts the halt later.  This is a person at the database, not code   *)
(* of the service.  A quiet halt is written while no capture claims the    *)
(* lock (Claims, below, says when one does).                               *)
(***************************************************************************)
OperatorHalt ==
    /\ lock.owner # Operator
    /\ lock' = HaltLock
    /\ UNCHANGED <<pc, age, work, capturing, acquired, phase, stopRelease, stopAge>>

OperatorLift ==
    /\ lock.owner = Operator
    /\ lock' = Free
    /\ UNCHANGED <<pc, age, work, capturing, acquired, phase, stopRelease, stopAge>>

(***************************************************************************)
(* A call claims the lock from the moment its update lands until its own   *)
(* release has been answered; the shutdown hook claims it for its process  *)
(* while the hook's release is in flight.                                  *)
(***************************************************************************)
Claims(c) ==
    \/ pc[c] \in {"won", "releasing"}
    \/ pc[c] = "working" /\ acquired[ProcOf[c]]

NoClaim == (\A c \in Calls : ~Claims(c)) /\ (\A p \in Procs : ~stopRelease[p])

QuietHalt == NoClaim /\ OperatorHalt

CallStep(c) ==
    \/ Trigger(c) \/ AcquireOk(c) \/ AcquireDenied(c) \/ AcquireError(c)
    \/ AcquireAck(c) \/ WorkDone(c) \/ HardTimeoutFires(c) \/ OrphanSettles(c)
    \/ ReleaseLand(c) \/ ReleaseError(c)

ProcStep(p) ==
    \/ BeginShutdown(p) \/ StopReleaseLand(p) \/ StopReleaseError(p)
    \/ Exit(p) \/ Boot(p)

Next ==
    \/ \E c \in Calls : CallStep(c)
    \/ \E p \in Procs : ProcStep(p)
    \/ Tick
    \/ QuietHalt
    \/ OperatorLift

Spec == Init /\ [][Next]_vars

\* The same system when the operator may also halt it in the middle of a capture.
AnyHaltSpec == Init /\ [][Next \/ OperatorHalt]_vars

(***************************************************************************)
(* Fairness: time passes, database calls answer, and a due timer fires.    *)
(* Nothing says that the capture work settles, that anybody triggers a     *)
(* capture or that a dead process is booted again.                         *)
(***************************************************************************)
Answers(c) ==
    \/ AcquireOk(c) \/ AcquireDenied(c) \/ AcquireError(c) \/ AcquireAck(c)
    \/ ReleaseLand(c) \/ ReleaseError(c)

Fairness ==
    /\ WF_vars(Tick)
    /\ \A c \in Calls : WF_vars(Answers(c)) /\ WF_vars(HardTimeoutFires(c))
    /\ \A p \in Procs : WF_vars(StopReleaseLand(p) \/ StopReleaseError(p))

FairSpec == Spec /\ Fairness

(***************************************************************************)
(* At most one claim at any time, over all processes: a capture that       *)
(* believes it holds the lock is the only one, and no release is in flight *)
(* that could wipe the lock of another.  This is what the TTL, the hard    *)
(* timeout and the acquiredLocks set of capture() and                      *)
(* onApplicationShutdown are for.                                          *)
(***************************************************************************)
HolderExclusive ==
    /\ \A c, d \in Calls : Claims(c) /\ Claims(d) => c = d
    /\ \A p \in Procs : stopRelease[p] =>
          /\ \A c \in Calls : ~Claims(c)
          /\ \A q \in Procs : stopRelease[q] => q = p

(***************************************************************************)
(* A lock that is claimed leaves its owner only through that owner: the    *)
(* call's own release, or its process's shutdown hook.  Neither an expiry  *)
(* nor the release of another capture takes it away (releaseCaptureLock:   *)
(* "only release a lock that THIS process actually acquired").             *)
(***************************************************************************)
LostOnlyByOwner ==
    [][\A c \in Calls : lock.owner = c /\ lock'.owner # c =>
          /\ Claims(c) => ReleaseLand(c)
          /\ stopRelease[ProcOf[c]] => StopReleaseLand(ProcOf[c])]_vars

(***************************************************************************)
(* A halt lock written by an operator stays until the operator lifts it:   *)
(* no acquire reclaims it and no release or shutdown hook of any process   *)
(* wipes it.  It holds for a halt written while no capture claims the lock *)
(* and fails for one written in the middle of a capture.                   *)
(***************************************************************************)
HaltKept == [][lock.owner = Operator /\ lock'.owner # Operator => OperatorLift]_vars

(***************************************************************************)
(* The captures of all processes take turns: capture() starts a body only  *)
(* for the one call that claims the lock, and a body goes on without the   *)
(* claim only when the hard timeout or a shutdown hook has let go of it.   *)
(***************************************************************************)
Turns == INSTANCE CaptureTurns WITH
            Captures <- Calls,
            claims <- {c \in Calls : Claims(c)},
            atWork <- {c \in Calls : work[c]}

TakesTurns == Turns!TurnsSpec

(***************************************************************************)
(* The in-process guard never stays set for ever: a capture that hangs is  *)
(* cut by the hard timeout and the flag is cleared ("Promise.race forces   *)
(* the finally to run, releasing the guard").                              *)
(***************************************************************************)
GuardReleased == \A p \in Procs : capturing[p] ~> ~capturing[p]

(***************************************************************************)
(* A lock taken by a capture always becomes available to an acquirer       *)
(* again, by release or by expiry, even when its holder died or the        *)
(* release failed, unless an operator halts the network meanwhile ("a      *)
(* crashed lock-holder eventually releases").                              *)
(***************************************************************************)
LockReturns == lock.owner \in Calls ~> (Available(0) \/ lock.owner = Operator)

================================================================================
