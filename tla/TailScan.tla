------------------------------- MODULE TailScan --------------------------------
(***************************************************************************)
(* The newest-first scans that collect transaction digests, event senders  *)
(* and object holders: pageBackwardTxs, pageBackwardSenders and            *)
(* pageBackwardHolders in src/api/src/ecosystem/ecosystem.service.ts, with *)
(* the live tick and the backfill that call them.  The three share one     *)
(* shape; what differs is which key a node stores (KeyOf) and whether the  *)
(* scan stops at a page of known keys (StopOnDups).                        *)
(*                                                                         *)
(* A scanner is the live tick or a backfill command, in processes of their *)
(* own.  It fetches a page, inserts the keys of the page one by one (an    *)
(* unordered insertMany over a unique index) and decides whether to go on. *)
(* Both scanners write to the same collection of one package.              *)
(*                                                                         *)
(* Abstractions: nodes are numbered in chain order and the `before` cursor *)
(* is the number of the oldest node seen, Null before the first page; the  *)
(* set of nodes of one connection only grows, up to MaxNodes.  A node      *)
(* without a key (an object owned by a parent, a node without sender)      *)
(* has the key None.                                                       *)
(***************************************************************************)
EXTENDS Integers

CONSTANTS
    Scanners,     \* the live tick, backfill commands
    StopOnDups,   \* the scanners that stop at a page of known keys
    MaxPages,     \* page budget of each scanner: 100 live, 200 000 backfill
    PageSize,     \* nodes of one page, 50
    MaxNodes,     \* nodes ever on chain
    KeyOf,        \* the digest, sender or holder of each node
    None

Null == 0
Nodes == 1 .. MaxNodes
Keys == {KeyOf[n] : n \in Nodes} \ {None}

ASSUME ScanAssumption ==
    /\ StopOnDups \subseteq Scanners
    /\ MaxPages \in [Scanners -> Nat \ {0}]
    /\ PageSize \in Nat \ {0} /\ MaxNodes \in Nat
    /\ DOMAIN KeyOf = Nodes

VARIABLES
    head,         \* nodes on chain so far
    stored,       \* the keys in the collection
    stage,        \* of each scanner: idle, fetching a page, inserting its keys
    scan,         \* the local variables of each scanner
    report,       \* what the last scan of each returned, and head at its start
    disturbed     \* history: a scan has ended early, or overlapped another

vars == <<head, stored, stage, scan, report, disturbed>>

AtRest == [before |-> Null, pages |-> 0, pending |-> {}, keyed |-> FALSE,
           newly |-> FALSE, start |-> 0]
NoReport == [capped |-> TRUE, start |-> 0]

TypeOK ==
    /\ head \in 0 .. MaxNodes
    /\ stored \subseteq Keys
    /\ stage \in [Scanners -> {"idle", "fetch", "insert"}]
    /\ scan \in [Scanners -> [before : 0 .. MaxNodes, pages : Nat, pending : SUBSET Keys,
                              keyed : BOOLEAN, newly : BOOLEAN, start : 0 .. MaxNodes]]
    /\ report \in [Scanners -> [capped : BOOLEAN, start : 0 .. MaxNodes]]
    /\ disturbed \in BOOLEAN
    /\ \A s \in Scanners : scan[s].pages <= MaxPages[s]

Init ==
    /\ head \in 0 .. MaxNodes
    /\ stored = {}
    /\ stage = [s \in Scanners |-> "idle"]
    /\ scan = [s \in Scanners |-> AtRest]
    /\ report = [s \in Scanners |-> NoReport]
    /\ disturbed = FALSE

KeysOf(N) == {KeyOf[n] : n \in N} \ {None}

(***************************************************************************)
(* The chain: a transaction, an event or an object is added.               *)
(***************************************************************************)
Grow ==
    /\ head < MaxNodes
    /\ head' = head + 1
    /\ UNCHANGED <<stored, stage, scan, report, disturbed>>

(***************************************************************************)
(* A scan starts from the newest node, whatever earlier scans did.         *)
(***************************************************************************)
Begin(s) ==
    /\ stage[s] = "idle"
    /\ stage' = [stage EXCEPT ![s] = "fetch"]
    /\ scan' = [scan EXCEPT ![s] = [AtRest EXCEPT !.start = head]]
    /\ disturbed' = (disturbed \/ \E q \in Scanners : stage[q] # "idle")
    /\ UNCHANGED <<head, stored, report>>

(***************************************************************************)
(* The scan is over: the caller publishes the size of the collection, with *)
(* capped set when the end was not reached.                                *)
(***************************************************************************)
Return(s, reachedEnd) ==
    /\ stage' = [stage EXCEPT ![s] = "idle"]
    /\ scan' = [scan EXCEPT ![s] = AtRest]
    /\ report' = [report EXCEPT ![s] = IF reachedEnd
                                        THEN [capped |-> FALSE, start |-> scan[s].start]
                                        ELSE NoReport]
    /\ disturbed' = (disturbed \/ ~reachedEnd)

(***************************************************************************)
(* One page: last: PageSize, before: the oldest node of the page before.   *)
(***************************************************************************)
Newest(before) == IF before = Null THEN head ELSE before - 1
Oldest(before) == IF Newest(before) > PageSize THEN Newest(before) - PageSize + 1 ELSE 1
Page(before) == Oldest(before) .. Newest(before)

FetchPage(s) ==
    LET page == Page(scan[s].before) IN
    /\ stage[s] = "fetch"
    /\ page # {}
    /\ stage' = [stage EXCEPT ![s] = "insert"]
    /\ scan' = [scan EXCEPT ![s] =
                   [before |-> Oldest(@.before), pages |-> @.pages + 1,
                    pending |-> KeysOf(page), keyed |-> KeysOf(page) # {},
                    newly |-> FALSE, start |-> @.start]]
    /\ UNCHANGED <<head, stored, report, disturbed>>

\* The connection is empty.
FetchNothing(s) ==
    /\ stage[s] = "fetch"
    /\ Page(scan[s].before) = {}
    /\ Return(s, TRUE)
    /\ UNCHANGED <<head, stored>>

\* Defect: a failed fetch is taken for the end (UndisturbedIsComplete).
FetchFailsAsEnd(s) ==
    /\ stage[s] = "fetch"
    /\ Return(s, TRUE)
    /\ UNCHANGED <<head, stored>>

\* The fetch fails for good: the loop breaks with reachedEnd still false.
FetchFails(s) ==
    /\ stage[s] = "fetch"
    /\ Return(s, FALSE)
    /\ UNCHANGED <<head, stored>>

InsertKey(s) ==
    /\ stage[s] = "insert"
    /\ \E k \in scan[s].pending :
          /\ stored' = stored \cup {k}
          /\ scan' = [scan EXCEPT ![s].pending = @ \ {k},
                                  ![s].newly = @ \/ k \notin stored]
    /\ UNCHANGED <<head, stage, report, disturbed>>

\* Defect: a backfill stops at a page of known keys too, as it did before
\* stopOnAllDups (DrainIsComplete, DrainFills).
CaughtUpAlways(s) == scan[s].keyed /\ ~scan[s].newly

CaughtUp(s) == s \in StopOnDups /\ scan[s].keyed /\ ~scan[s].newly

\* Defect: the page budget is not enforced (TypeOK).
PageDoneUnbounded(s) ==
    /\ stage[s] = "insert" /\ scan[s].pending = {}
    /\ IF CaughtUp(s) \/ scan[s].before = 1
       THEN Return(s, TRUE)
       ELSE /\ stage' = [stage EXCEPT ![s] = "fetch"]
            /\ UNCHANGED <<scan, report, disturbed>>
    /\ UNCHANGED <<head, stored>>

(***************************************************************************)
(* After the page: stop at a page of known keys, stop at the oldest node,  *)
(* stop at the page budget, or go on.                                      *)
(***************************************************************************)
PageDone(s) ==
    /\ stage[s] = "insert" /\ scan[s].pending = {}
    /\ IF CaughtUp(s) \/ scan[s].before = 1
       THEN Return(s, TRUE)
       ELSE IF scan[s].pages = MaxPages[s]
       THEN Return(s, FALSE)
       ELSE /\ stage' = [stage EXCEPT ![s] = "fetch"]
            /\ UNCHANGED <<scan, report, disturbed>>
    /\ UNCHANGED <<head, stored>>

\* The insert fails otherwise than by duplicates, or the process dies.
Abort(s) ==
    /\ stage[s] # "idle"
    /\ stage' = [stage EXCEPT ![s] = "idle"]
    /\ scan' = [scan EXCEPT ![s] = AtRest]
    /\ report' = [report EXCEPT ![s] = NoReport]
    /\ disturbed' = TRUE
    /\ UNCHANGED <<head, stored>>

Proceed(s) == FetchPage(s) \/ FetchNothing(s) \/ InsertKey(s) \/ PageDone(s)

ScanStep(s) == Begin(s) \/ Proceed(s) \/ FetchFails(s) \/ Abort(s)

Next == Grow \/ \E s \in Scanners : ScanStep(s)

Spec == Init /\ [][Next]_vars

(***************************************************************************)
(* Fairness: a scan in progress goes on, and the backfill commands are run *)
(* again and again, as an operator does until one returns uncapped.        *)
(***************************************************************************)
Drains == Scanners \ StopOnDups

Fairness ==
    /\ \A s \in Scanners : WF_vars(Proceed(s))
    /\ \A s \in Drains : WF_vars(Begin(s))

FairSpec == Spec /\ Fairness

(***************************************************************************)
(* Properties                                                              *)
(***************************************************************************)
Complete(s) == KeysOf(1 .. report[s].start) \subseteq stored

(***************************************************************************)
(* A backfill that returns uncapped has stored the whole history up to its *)
(* start, whatever earlier scans left behind and whatever the live tick    *)
(* does meanwhile ("a re-run after raising the cap walks past the already- *)
(* stored zone instead of bailing on page 1").                             *)
(***************************************************************************)
DrainIsComplete == \A s \in Drains : ~report[s].capped => Complete(s)

(***************************************************************************)
(* A tick that stops at a page of known keys has missed nothing, as long   *)
(* as no scan before it ended early and none overlapped it, and the keys   *)
(* of the nodes are distinct.  Each condition is needed.                   *)
(***************************************************************************)
UndisturbedIsComplete ==
    ~disturbed => \A s \in Scanners : ~report[s].capped => Complete(s)

(***************************************************************************)
(* If a backfill fails or dies only finitely often, the collection catches *)
(* up with the chain, whatever holes the live tick left in it.             *)
(***************************************************************************)
DrainFills ==
    \A s \in Drains :
        []<><<FetchFails(s) \/ Abort(s)>>_vars \/ <>(KeysOf(1 .. head) \subseteq stored)

(***************************************************************************)
(* A count that is not capped is not a floor: it covers everything up to   *)
(* the start of the scan ("reachedEnd: true means we terminated via        *)
(* hasPreviousPage: false or caught-up; false means the caller should      *)
(* treat the count as a floor").                                           *)
(***************************************************************************)
UncappedIsComplete == \A s \in Scanners : ~report[s].capped => Complete(s)

================================================================================
