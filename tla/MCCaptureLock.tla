----------------------------- MODULE MCCaptureLock -----------------------------
(***************************************************************************)
(* CaptureLock on two processes: the scanner p1, whose cron may start a    *)
(* second call while the first is still being released, and a second       *)
(* process p2 (a manual trigger or a replica).  TTL 5, hard timeout 2 and  *)
(* latency 1 keep the inequality of LockAssumption tight: 2 + 2 < 5.       *)
(***************************************************************************)
EXTENDS CaptureLock

CONSTANTS c1, c2, c3, p1, p2

MCCalls == {c1, c2, c3}
MCProcs == {p1, p2}
MCProcOf == [c \in MCCalls |-> IF c = c3 THEN p2 ELSE p1]

================================================================================
