----------------------------- MODULE SnapshotStore -----------------------------
(***************************************************************************)
(* What the mainnet capture promises to the readers of onchainsnapshots    *)
(* (getLatest, growth, classify): an append-only store of snapshots.  Each *)
(* one appears at once with its final content, is never changed or removed *)
(* and becomes the latest when it appears ("the new snapshot appends on    *)
(* success and findOne().sort({createdAt:-1}) atomically picks it up").    *)
(***************************************************************************)
CONSTANTS Snapshots, NoSnapshot

VARIABLES
    published,   \* the content of each snapshot published so far
    latest       \* the one that getLatest serves

Init ==
    /\ published = [i \in {} |-> {}]
    /\ latest = NoSnapshot

Publish(i) ==
    /\ i \notin DOMAIN published
    /\ DOMAIN published' = DOMAIN published \cup {i}
    /\ \A j \in DOMAIN published : published'[j] = published[j]
    /\ latest' = i

Next == \E i \in Snapshots : Publish(i)

Spec == Init /\ [][Next]_<<published, latest>>

================================================================================
