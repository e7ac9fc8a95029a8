------------------------------ MODULE CaptureTurns -----------------------------
(***************************************************************************)
(* What the capture lock promises to the bodies of the captures: they take *)
(* turns.  A body starts only for the one capture that claims the lock,    *)
(* and only when nobody else claims it.  It may go on after the claim is   *)
(* gone, when the hard timeout abandoned it or its process is shutting     *)
(* down; such an orphan is the only way in which two bodies can be at work *)
(* at once.                                                                *)
(*                                                                         *)
(* CaptureLock implements it; MainnetCapture is a body that assumes it.    *)
(***************************************************************************)
CONSTANT Captures

VARIABLES
    claims,   \* the captures that count on holding the lock
    atWork    \* the captures whose body has not settled

TurnsInit == claims = {} /\ atWork = {}

Claim(c) ==
    /\ claims = {}
    /\ claims' = {c}
    /\ UNCHANGED atWork

Start(c) ==
    /\ claims \subseteq {c} /\ c \notin atWork
    /\ claims' = {c}
    /\ atWork' = atWork \cup {c}

\* A body settles, a claim ends, a process dies with all it runs.
LetGo ==
    /\ claims' \subseteq claims
    /\ atWork' \subseteq atWork

TurnsNext == (\E c \in Captures : Claim(c) \/ Start(c)) \/ LetGo

TurnsSpec == TurnsInit /\ [][TurnsNext]_<<claims, atWork>>

\* No orphan is at work: what a body may assume unless a timeout comes first.
NoOrphans == atWork \subseteq claims

================================================================================
