---------------------------- MODULE MCCaptureHistory ---------------------------
(***************************************************************************)
(* MainnetCapture with a history variable: what each partial has been      *)
(* handed by the checkpoints that advanced its cursor.                     *)
(***************************************************************************)
EXTENDS MCMainnetCapture

VARIABLE handed

HistoryInit == Init /\ handed = [i \in Ids |-> {}]

Remember(r) ==
    LET i == IF loc[r].part = None THEN <<r, "partial">> ELSE loc[r].part
    IN  handed' = [handed EXCEPT ![i] = @ \cup Batch(r)]

HistoryNext ==
    \/ \E r \in Runs : CkptHeader(r) /\ Remember(r)
    \/ (Next \/ Exhausted) /\ ~(\E r \in Runs : CkptHeader(r)) /\ UNCHANGED handed

HistorySpec == HistoryInit /\ [][HistoryNext]_<<vars, handed>>

(***************************************************************************)
(* The stored cursor lies after packages whose facts are stored ("the      *)
(* written cursor always matches the position AFTER every package in       *)
(* batch"): when a run resumes from a partial, everything that the         *)
(* checkpoints of that partial were handed is carried forward.             *)
(***************************************************************************)
CursorCovered ==
    [][\A r \in Runs : Resume(r) => handed[loc[r].part] \subseteq Stored(loc[r].part)]_vars

================================================================================
