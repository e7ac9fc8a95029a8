---------------------------- MODULE MCTestnetTick ------------------------------
(***************************************************************************)
(* TestnetTick with three runs, each a tick or a backfill, over three      *)
(* packages in pages of two; the oldest package is a tutorial.             *)
(***************************************************************************)
EXTENDS TestnetTick

MCTutorials == {1}

Exhausted ==
    /\ started = MaxRuns
    /\ \A r \in Runs : pc[r] \in {"done", "dead"}
    /\ UNCHANGED vars

MCSpec == Init /\ [][Next \/ Exhausted]_vars

(***************************************************************************)
(* The cron is halted for a backfill, as its comment expects: a run starts *)
(* only when no other is in progress.                                      *)
(***************************************************************************)
OneAtATime ==
    started' # started => \A r \in Runs : ~Ticking(r) /\ pc[r] # "bulk"

SerialSpec == Init /\ [][(Next /\ OneAtATime) \/ Exhausted]_vars

================================================================================
