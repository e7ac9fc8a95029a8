------------------------------ MODULE MCTailScan -------------------------------
(***************************************************************************)
(* TailScan for transactions and for senders.  Transactions: five nodes,    *)
(* each its own key, pages of two, a live tick with two pages and a        *)
(* backfill with three, the pages of the whole history; both run at any    *)
(* time, fail and die.  Senders: the four newest nodes come from one       *)
(* sender, and only the live tick runs.                                    *)
(***************************************************************************)
EXTENDS TailScan

CONSTANTS live, drain

MCScanners == {live, drain}
MCPages == [s \in MCScanners |-> IF s = live THEN 2 ELSE 3]
Digests == [n \in Nodes |-> n]

\* Senders, with nothing that fails and no second scanner.
Senders == [n \in Nodes |-> IF n <= 2 THEN 1 ELSE 2]
MCLive == {live}
MCLivePages == [s \in MCLive |-> 4]
CalmSpec == Init /\ [][Grow \/ \E s \in Scanners : Begin(s) \/ Proceed(s)]_vars

================================================================================
