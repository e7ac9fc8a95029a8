--------------------------- MODULE MCEpochSnapshots ----------------------------
(***************************************************************************)
(* EpochSnapshots with two processes.  The tasks are dealt between them:   *)
(* one is asked for its aggregates while its captures replace them, the    *)
(* other boots and fills old epochs.  A scanner runs all of them.          *)
(***************************************************************************)
EXTENDS EpochSnapshots, TLC

CONSTANTS scan, cmd

MCMethods == scan :> {"cron", "request"} @@ cmd :> {"boot", "fees"}

\* Nothing is left to happen.
Exhausted ==
    /\ \A p \in Procs : boots[p] = MaxBoots /\ pc[<<p, "boot">>] = "down"
    /\ UNCHANGED vars

MCSpec == Init /\ [][Next \/ Exhausted]_vars

(***************************************************************************)
(* No epoch ends while the processes run, so that `current` is still the   *)
(* epoch in which a backfill began.                                        *)
(***************************************************************************)
WithinAnEpoch == Init /\ [][(Next /\ current' = current) \/ Exhausted]_vars

================================================================================
