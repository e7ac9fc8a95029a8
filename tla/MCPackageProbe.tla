---------------------------- MODULE MCPackageProbe ----------------------------
(***************************************************************************)
(* A package of two modules, one without events; an object that says       *)
(* nothing and one that has a name; three KEY types for two workers, one   *)
(* with an object of a wallet and one of another object, two without.      *)
(* Pages hold one node: the holder walk of a probe ends at its first page. *)
(***************************************************************************)
EXTENDS PackageProbe

MCKinds == <<<<"swapped", "minted">>, <<>>>>
MCObjects == <<{}, {"name"}>>
MCDisplay == <<{}, {"display"}>>
MCOwners == <<<<"wallet", "parent">>, <<>>, <<>>>>

\* A package of which nothing is left to tell but its one object, listed.
MCListing == <<<<"parent">>>>

\* The network and the backfill move only while the types are counted: no other
\* step of the probe reads what they write.  Only the first type is backfilled.
\* The pool reads nothing of the draft: it is entered with some of the drafts.
Aside == <<minted, [t \in Types |-> walk[<<"backfill", t>>]]>>
MCNext ==
    /\ ProbeNext
    /\ pc = "pool" \/ UNCHANGED Aside
    /\ pc' = "pool" /\ pc # "pool" => {"name", "display"} \subseteq draft.idents
    /\ \A t \in Types \ {1} : walk'[<<"backfill", t>>] = NoWalk

MCSpec == ProbeInit /\ [][MCNext]_probeVars

===============================================================================
