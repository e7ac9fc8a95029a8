---------------------------- MODULE MCMainnetCapture ---------------------------
(***************************************************************************)
(* MainnetCapture with a bounded history: three runs over three packages   *)
(* and a fourth that is published at any time, pages of two, a checkpoint  *)
(* after one or two packages.  Package 1 is a framework package, as the    *)
(* oldest are.                                                             *)
(* The history starts clean, or after two overlapping captures (runs 1 and *)
(* 2) that each left a partial: the state detectMainnetResume defends      *)
(* against.  When every run has been used, the model idles.                *)
(***************************************************************************)
EXTENDS MainnetCapture

LeftBehind(cursor) == [stage |-> "partial", cursor |-> cursor, total |-> 0]
PageOne(r) == [k \in Packages |-> IF k \in {2, 3} THEN r ELSE 0]

TwoLeftovers ==
    /\ head = InitialHead /\ aged = 0 /\ lock = None
    /\ pc = [r \in Runs |-> IF r \in {1, 2} THEN "failed" ELSE "idle"]
    /\ loc = [r \in Runs |-> Blank]
    /\ \E cursor \in {Null, 2} :
          header = [i \in Ids |-> CASE i = <<1, "partial">> -> LeftBehind(2)
                                    [] i = <<2, "partial">> -> LeftBehind(cursor)
                                    [] OTHER -> Absent]
    /\ facts = [i \in Ids |-> IF i[1] \in {1, 2} /\ i[2] = "partial"
                              THEN PageOne(i[1]) ELSE NoFacts]
    /\ LeftoverInit

Exhausted ==
    /\ \A r \in Runs : pc[r] \in {"done", "failed"}
    /\ UNCHANGED vars

MCSpec == (Init \/ TwoLeftovers) /\ [][Next \/ Exhausted]_vars

(***************************************************************************)
(* Histories in which nothing fails: every package of a page is probed, no *)
(* write, fetch or process fails, the budget suffices.                     *)
(***************************************************************************)
CalmPage(r) == ProbePage(r) /\ loc'[r].probed = loc[r].probed \cup Probeable(loc[r].cursor)

CalmStep(r) ==
    \/ Begin(r) \/ DetectFresh(r) \/ CalmPage(r) \/ CkptHeader(r) \/ CkptFacts(r)
    \/ CloseGaps(r) \/ NoGaps(r) \/ GapHeader(r) \/ GapFacts(r)
    \/ Promote(r) \/ PublishFresh(r) \/ FreshFacts(r) \/ FreshHeader(r)

CalmSpec ==
    Init /\ [][(\E r \in Runs : CalmStep(r)) \/ PublishPackage \/ DayPasses \/ Exhausted]_vars

\* The same, but a page fetch may fail.
FetchSpec ==
    Init /\ [][(\E r \in Runs : CalmStep(r) \/ FetchError(r)) \/ PublishPackage \/ Exhausted]_vars

================================================================================
