------------------------------ MODULE MCReadPath ------------------------------
(***************************************************************************)
(* ReadPath with a scanner and a web process.  The tasks are dealt between *)
(* them: the scanner captures and answers both requests from one cache,    *)
(* the web process heals the latest view at boot.                          *)
(*                                                                         *)
(* DefiLlama lists four protocols.  Rows 1 and 2 both match protocol 1     *)
(* (Swirl V1 and V2); row 3 matches 2 and 3, of which 2 is on the EVM      *)
(* chain only; row 4 has the name of protocol 4, also on the EVM chain.    *)
(***************************************************************************)
EXTENDS ReadPath, TLC

CONSTANTS scan, web

MCRuns == scan :> {"capture", "growth", "latest"} @@ web :> {"heal"}

MCRowEvents == <<1, 2, 1, 0>>
MCNameMatch == {<<1, 1>>, <<2, 1>>, <<3, 2>>, <<3, 3>>, <<4, 4>>}
MCSameName == {<<4, 4>>}
\* Nothing is left to happen.
Exhausted ==
    /\ asks = MaxAsks
    /\ UNCHANGED vars

\* The scanner has version 1, the web process either: only whether they differ matters.
MCSpec == Init /\ [][(Next /\ registry'[scan] = 1) \/ Exhausted]_vars

MCResponses == {{}, {1, 2, 3, 4}}

===============================================================================
