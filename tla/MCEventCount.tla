----------------------------- MODULE MCEventCount ------------------------------
(***************************************************************************)
(* EventCount over three captures and six events, pages of two, at most    *)
(* two pages a walk: a walk can end at the last event, at the page limit,  *)
(* or exactly at both, and be refused on its first page or a later one.    *)
(* When every capture has been used and all is pruned, the model idles.    *)
(***************************************************************************)
EXTENDS EventCount

MCSnapshots == 1 .. MaxRuns

Exhausted ==
    /\ turn = MaxRuns /\ stage = "over"
    /\ floor = MaxEvents
    /\ UNCHANGED vars

MCSpec == Init /\ [][Next \/ Exhausted]_vars

================================================================================
