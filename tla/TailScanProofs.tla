----------------------------- MODULE TailScanProofs ----------------------------
(***************************************************************************)
(* Proofs about TailScan: for any scanners, page size, page budgets and    *)
(* history, scans stay within their budget, a backfill that returns        *)
(* uncapped has stored the whole history, and a tick that stops at a page  *)
(* of known keys, undisturbed, has missed nothing.                         *)
(***************************************************************************)
EXTENDS TailScan, TLAPS

(***************************************************************************)
(* The inductive invariant.  A scan that is about to fetch has pages left  *)
(* and has not seen the oldest node.  A backfill has stored everything     *)
(* between the oldest node it saw and its start, but for the keys still to *)
(* be inserted: it never skips a page, whatever it finds known.            *)
(***************************************************************************)
InBudget(s) ==
    /\ scan[s].pages <= MaxPages[s]
    /\ stage[s] = "fetch" => scan[s].pages < MaxPages[s] /\ scan[s].before # 1
    /\ stage[s] = "fetch" => scan[s].pending = {}
    /\ stage[s] = "insert" => scan[s].before # Null
    /\ scan[s].start <= head

Covers(s) ==
    stage[s] \in {"fetch", "insert"} /\ scan[s].before # Null =>
        KeysOf(scan[s].before .. scan[s].start) \subseteq stored \cup scan[s].pending

ScanInv ==
    /\ TypeOK
    /\ \A s \in Scanners : InBudget(s)
    /\ \A s \in Drains : Covers(s)
    /\ DrainIsComplete

ScanType == [before : 0 .. MaxNodes, pages : Nat, pending : SUBSET Keys,
             keyed : BOOLEAN, newly : BOOLEAN, start : 0 .. MaxNodes]

(***************************************************************************)
(* Keys of nodes are keys.                                                 *)
(***************************************************************************)
LEMMA KeysOfNodes ==
    ASSUME NEW N \in SUBSET Nodes
    PROVE  KeysOf(N) \subseteq Keys
BY DEF KeysOf, Keys

(***************************************************************************)
(* No nodes, no keys.                                                      *)
(***************************************************************************)
LEMMA NoKeys == KeysOf({}) = {}
BY DEF KeysOf

(***************************************************************************)
(* A resting scan is well-typed.                                           *)
(***************************************************************************)
LEMMA AtRestType == AtRest \in ScanType
BY ScanAssumption DEF AtRest, ScanType, Null

(***************************************************************************)
(* The initial states satisfy the invariant.                               *)
(***************************************************************************)
LEMMA InitScan == Init => ScanInv
<1> SUFFICES ASSUME Init PROVE ScanInv
  OBVIOUS
<1>1. /\ scan \in [Scanners -> ScanType]
      /\ \A s \in Scanners : scan[s] = AtRest /\ stage[s] = "idle" /\ report[s] = NoReport
  BY AtRestType DEF Init
<1>2. \A s \in Scanners :
         /\ scan[s].pages = 0 /\ scan[s].start = 0 /\ scan[s].pages <= MaxPages[s]
  <2> SUFFICES ASSUME NEW s \in Scanners
               PROVE  scan[s].pages = 0 /\ scan[s].start = 0 /\ scan[s].pages <= MaxPages[s]
    OBVIOUS
  <2>1. scan[s].pages = 0 /\ scan[s].start = 0
    BY <1>1 DEF AtRest
  <2>2. MaxPages[s] \in Nat
    BY ScanAssumption
  <2> QED BY <2>1, <2>2
<1>3. TypeOK
  <2>1. report \in [Scanners -> [capped : BOOLEAN, start : 0 .. MaxNodes]]
    BY ScanAssumption DEF Init, NoReport
  <2> QED BY <1>1, <1>2, <2>1 DEF Init, TypeOK, ScanType
<1>4. \A s \in Scanners : InBudget(s)
  <2> SUFFICES ASSUME NEW s \in Scanners PROVE InBudget(s)
    OBVIOUS
  <2>1. head \in Nat
    BY ScanAssumption DEF Init
  <2>2. scan[s].start <= head
    BY <1>2, <2>1
  <2> QED BY <1>1, <1>2, <2>2 DEF InBudget
<1>5. \A s \in Drains : Covers(s)
  BY <1>1 DEF Covers, Drains
<1>6. DrainIsComplete
  BY <1>1 DEF DrainIsComplete, Drains, NoReport
<1> QED BY <1>3, <1>4, <1>5, <1>6 DEF ScanInv

(***************************************************************************)
(* Where a page begins and ends.                                           *)
(***************************************************************************)
LEMMA PageBounds ==
    ASSUME ScanInv, NEW b \in 0 .. MaxNodes
    PROVE  /\ Newest(b) \in Nat /\ Newest(b) <= MaxNodes
           /\ Oldest(b) \in Nat /\ Oldest(b) >= 1
           /\ Page(b) \in SUBSET Nodes
           /\ Page(b) = {} => Newest(b) = 0
           /\ Page(b) # {} => Oldest(b) <= Newest(b)
<1>1. /\ head \in Nat /\ head <= MaxNodes /\ b \in Nat /\ b <= MaxNodes
      /\ MaxNodes \in Nat /\ PageSize \in Nat /\ PageSize >= 1
  <2>1. head \in 0 .. MaxNodes
    BY DEF ScanInv, TypeOK
  <2> QED BY <2>1, ScanAssumption
<1>2. Newest(b) \in Nat /\ Newest(b) <= MaxNodes
  BY <1>1 DEF Newest, Null
<1>3. Oldest(b) \in Nat /\ Oldest(b) >= 1
  BY <1>1, <1>2 DEF Oldest
<1>4. Newest(b) >= 1 => Oldest(b) <= Newest(b)
  BY <1>1, <1>2 DEF Oldest
<1>5. Page(b) = Oldest(b) .. Newest(b)
  BY DEF Page
<1>6. Page(b) \in SUBSET Nodes
  BY <1>1, <1>2, <1>3, <1>5 DEF Nodes
<1>7. Newest(b) >= 1 => Page(b) # {}
  <2> SUFFICES ASSUME Newest(b) >= 1 PROVE Oldest(b) \in Page(b)
    OBVIOUS
  <2> QED BY <1>2, <1>3, <1>4, <1>5
<1>8. Page(b) # {} => Newest(b) >= 1
  BY <1>2, <1>3, <1>5
<1> QED BY <1>2, <1>3, <1>4, <1>6, <1>7, <1>8

(***************************************************************************)
(* A step of one scanner changes the collection, which only grows, and its *)
(* own stage, scan and report: what remains to be shown concerns it alone. *)
(***************************************************************************)
LEMMA OneScanner ==
    ASSUME ScanInv, NEW s \in Scanners, UNCHANGED head,
           stored \subseteq stored', stored' \subseteq Keys,
           NEW to \in {"idle", "fetch", "insert"}, stage' = [stage EXCEPT ![s] = to],
           NEW v \in ScanType, scan' = [scan EXCEPT ![s] = v],
           NEW o \in [capped : BOOLEAN, start : 0 .. MaxNodes],
           report' = [report EXCEPT ![s] = o], disturbed' \in BOOLEAN,
           InBudget(s)', s \in Drains => Covers(s)',
           s \in Drains /\ ~o.capped => KeysOf(1 .. o.start) \subseteq stored'
    PROVE  ScanInv'
<1>1. \A q \in Scanners : /\ stage'[q] = IF q = s THEN to ELSE stage[q]
                          /\ scan'[q] = IF q = s THEN v ELSE scan[q]
                          /\ report'[q] = IF q = s THEN o ELSE report[q]
  BY DEF ScanInv, TypeOK
<1>2. /\ scan' \in [Scanners -> ScanType]
      /\ stage' \in [Scanners -> {"idle", "fetch", "insert"}]
      /\ report' \in [Scanners -> [capped : BOOLEAN, start : 0 .. MaxNodes]]
  BY DEF ScanInv, TypeOK, ScanType
<1>3. \A q \in Scanners : InBudget(q)'
  <2> SUFFICES ASSUME NEW q \in Scanners, q # s PROVE InBudget(q)'
    OBVIOUS
  <2> QED BY <1>1 DEF ScanInv, InBudget
<1>4. \A q \in Drains : Covers(q)'
  <2> SUFFICES ASSUME NEW q \in Drains, q # s PROVE Covers(q)'
    OBVIOUS
  <2>1. q \in Scanners /\ Covers(q)
    BY DEF Drains, ScanInv
  <2>2. stage'[q] = stage[q] /\ scan'[q] = scan[q]
    BY <1>1, <2>1
  <2> QED BY <2>1, <2>2 DEF Covers
<1>5. DrainIsComplete'
  <2> SUFFICES ASSUME NEW q \in Drains, ~report'[q].capped
               PROVE  KeysOf(1 .. report'[q].start) \subseteq stored'
    BY DEF DrainIsComplete, Complete
  <2>1. q \in Scanners
    BY DEF Drains
  <2>2. CASE q = s
    BY <2>1, <2>2, <1>1
  <2>3. CASE q # s
    BY <2>1, <2>3, <1>1 DEF ScanInv, DrainIsComplete, Complete
  <2> QED BY <2>2, <2>3
<1>6. TypeOK'
  <2>1. \A q \in Scanners : scan'[q].pages <= MaxPages[q]
    BY <1>3 DEF InBudget
  <2>2. head' \in 0 .. MaxNodes
    BY DEF ScanInv, TypeOK
  <2> QED BY <1>2, <2>1, <2>2 DEF TypeOK, ScanType
<1> QED BY <1>3, <1>4, <1>5, <1>6 DEF ScanInv

(***************************************************************************)
(* The steps of a scanner, one by one.                                     *)
(***************************************************************************)
LEMMA Typed ==
    ASSUME ScanInv, NEW s \in Scanners
    PROVE  /\ scan[s] \in ScanType
           /\ report[s] \in [capped : BOOLEAN, start : 0 .. MaxNodes]
           /\ stage[s] \in {"idle", "fetch", "insert"}
           /\ head \in 0 .. MaxNodes /\ head \in Nat
           /\ MaxPages[s] \in Nat \ {0} /\ MaxNodes \in Nat
           /\ stored \subseteq Keys /\ disturbed \in BOOLEAN
           /\ InBudget(s) /\ (s \in Drains => Covers(s))
<1>1. /\ scan[s] \in ScanType /\ head \in 0 .. MaxNodes
      /\ report[s] \in [capped : BOOLEAN, start : 0 .. MaxNodes]
      /\ stage[s] \in {"idle", "fetch", "insert"}
      /\ stored \subseteq Keys /\ disturbed \in BOOLEAN
  BY DEF ScanInv, TypeOK, ScanType
<1>2. InBudget(s) /\ (s \in Drains => Covers(s))
  BY DEF ScanInv
<1>3. MaxPages[s] \in Nat \ {0} /\ MaxNodes \in Nat
  BY ScanAssumption
<1> QED BY <1>1, <1>2, <1>3

(***************************************************************************)
(* A scan starts with nothing to cover.                                    *)
(***************************************************************************)
LEMMA BeginInv == ASSUME ScanInv, NEW s \in Scanners, Begin(s) PROVE ScanInv'
<1> DEFINE v == [AtRest EXCEPT !.start = head]
<1>1. /\ v \in ScanType /\ v.pages = 0 /\ v.before = Null /\ v.pending = {}
      /\ v.start = head
  BY AtRestType, Typed DEF AtRest, ScanType
<1>2. /\ stage' = [stage EXCEPT ![s] = "fetch"] /\ scan' = [scan EXCEPT ![s] = v]
      /\ UNCHANGED <<head, stored, report>> /\ disturbed' \in BOOLEAN
  BY Typed DEF Begin
<1> HIDE DEF v
<1>3. scan'[s] = v /\ stage'[s] = "fetch"
  BY <1>2 DEF ScanInv, TypeOK
<1>4. InBudget(s)'
  BY <1>1, <1>2, <1>3, Typed DEF InBudget, Null
<1>5. Covers(s)'
  BY <1>1, <1>3 DEF Covers
<1>6. report' = [report EXCEPT ![s] = report[s]]
  BY <1>2 DEF ScanInv, TypeOK
<1>7. s \in Drains /\ ~report[s].capped => KeysOf(1 .. report[s].start) \subseteq stored'
  BY <1>2 DEF ScanInv, DrainIsComplete, Complete
<1> QED BY <1>1, <1>2, <1>4, <1>5, <1>6, <1>7, Typed, OneScanner

(***************************************************************************)
(* A scan that ends keeps the invariant if what it reports is true.        *)
(***************************************************************************)
LEMMA RestInv ==
    ASSUME ScanInv, NEW s \in Scanners, UNCHANGED <<head, stored>>, disturbed' \in BOOLEAN,
           stage' = [stage EXCEPT ![s] = "idle"], scan' = [scan EXCEPT ![s] = AtRest],
           NEW o \in [capped : BOOLEAN, start : 0 .. MaxNodes],
           report' = [report EXCEPT ![s] = o],
           s \in Drains /\ ~o.capped => KeysOf(1 .. o.start) \subseteq stored
    PROVE  ScanInv'
<1>1. scan'[s] = AtRest /\ stage'[s] = "idle"
  BY DEF ScanInv, TypeOK
<1>2. AtRest.pages = 0 /\ AtRest.start = 0
  BY DEF AtRest
<1>3. InBudget(s)'
  BY <1>1, <1>2, Typed DEF InBudget
<1>4. Covers(s)'
  BY <1>1 DEF Covers
<1> QED BY <1>3, <1>4, AtRestType, Typed, OneScanner

(***************************************************************************)
(* A scan that returns is one.                                             *)
(***************************************************************************)
LEMMA ReturnInv ==
    ASSUME ScanInv, NEW s \in Scanners, NEW reachedEnd \in BOOLEAN, Return(s, reachedEnd),
           UNCHANGED <<head, stored>>,
           s \in Drains /\ reachedEnd => KeysOf(1 .. scan[s].start) \subseteq stored
    PROVE  ScanInv'
<1> DEFINE o == IF reachedEnd THEN [capped |-> FALSE, start |-> scan[s].start] ELSE NoReport
<1>1. o \in [capped : BOOLEAN, start : 0 .. MaxNodes]
  BY Typed, ScanAssumption DEF NoReport, ScanType
<1>2. ~o.capped => reachedEnd /\ o.start = scan[s].start
  BY DEF NoReport
<1>3. /\ stage' = [stage EXCEPT ![s] = "idle"] /\ scan' = [scan EXCEPT ![s] = AtRest]
      /\ report' = [report EXCEPT ![s] = o] /\ disturbed' \in BOOLEAN
  BY Typed DEF Return
<1> HIDE DEF o
<1>4. s \in Drains /\ ~o.capped => KeysOf(1 .. o.start) \subseteq stored
  BY <1>2
<1> QED BY <1>1, <1>3, <1>4, RestInv

(***************************************************************************)
(* So are the scans of an empty connection, the failed ones and the        *)
(* aborted ones.                                                           *)
(***************************************************************************)
LEMMA EndingInv ==
    ASSUME ScanInv, NEW s \in Scanners, FetchNothing(s) \/ FetchFails(s) \/ Abort(s)
    PROVE  ScanInv'
<1>1. CASE FetchNothing(s)
  <2>1. /\ Page(scan[s].before) = {} /\ stage[s] = "fetch" /\ Return(s, TRUE)
        /\ UNCHANGED <<head, stored>>
    BY <1>1 DEF FetchNothing
  <2>2. scan[s].before \in 0 .. MaxNodes /\ scan[s].start \in 0 .. MaxNodes
    BY Typed DEF ScanType
  <2>3. Newest(scan[s].before) = 0
    BY <2>1, <2>2, PageBounds
  <2>4. head = 0
    BY <2>1, <2>2, <2>3, Typed DEF Newest, InBudget, Null
  <2>5. scan[s].start = 0
    BY <2>2, <2>4, Typed DEF InBudget
  <2>6. 1 .. scan[s].start = {}
    BY <2>5
  <2>7. KeysOf(1 .. scan[s].start) \subseteq stored
    BY <2>6, NoKeys
  <2> QED BY <2>1, <2>7, ReturnInv
<1>2. CASE FetchFails(s)
  BY <1>2, ReturnInv DEF FetchFails
<1>3. CASE Abort(s)
  <2>1. NoReport \in [capped : BOOLEAN, start : 0 .. MaxNodes] /\ NoReport.capped
    BY ScanAssumption DEF NoReport
  <2> QED BY <1>3, <2>1, RestInv DEF Abort
<1> QED BY <1>1, <1>2, <1>3

(***************************************************************************)
(* A page begins where the last one ended, so what is between its oldest   *)
(* node and the start is in it or covered already.                         *)
(***************************************************************************)
LEMMA FetchPageInv == ASSUME ScanInv, NEW s \in Scanners, FetchPage(s) PROVE ScanInv'
<1> DEFINE w == scan[s]
           page == Page(w.before)
           v == [before |-> Oldest(w.before), pages |-> w.pages + 1,
                 pending |-> KeysOf(page), keyed |-> KeysOf(page) # {},
                 newly |-> FALSE, start |-> w.start]
<1>1. /\ page # {} /\ stage[s] = "fetch" /\ stage' = [stage EXCEPT ![s] = "insert"]
      /\ UNCHANGED <<head, stored, report, disturbed>>
  BY DEF FetchPage
<1>2. /\ w \in ScanType /\ w.before \in 0 .. MaxNodes /\ w.before # 1
      /\ w.start \in 0 .. MaxNodes /\ w.start <= head
      /\ w.pages \in Nat /\ w.pages < MaxPages[s] /\ w.pending = {}
  BY <1>1, Typed DEF ScanType, InBudget
<1>3. /\ Newest(w.before) \in Nat /\ Newest(w.before) <= MaxNodes
      /\ Oldest(w.before) \in Nat /\ Oldest(w.before) >= 1
      /\ Oldest(w.before) <= Newest(w.before) /\ page \in SUBSET Nodes
  BY <1>1, <1>2, PageBounds
<1>4. /\ scan' = [scan EXCEPT ![s] = v] /\ v \in ScanType
      /\ v.before = Oldest(w.before) /\ v.pages = w.pages + 1
      /\ v.pending = KeysOf(page) /\ v.start = w.start
  <2>1. KeysOf(page) \in SUBSET Keys
    BY <1>3, KeysOfNodes
  <2>2. Oldest(w.before) \in 0 .. MaxNodes
    BY <1>3, ScanAssumption
  <2>3. scan' = [scan EXCEPT ![s] = v]
    BY DEF FetchPage
  <2> QED BY <1>2, <2>1, <2>2, <2>3 DEF ScanType
<1> HIDE DEF v
<1>5. scan'[s] = v /\ stage'[s] = "insert"
  BY <1>1, <1>4 DEF ScanInv, TypeOK
<1>6. InBudget(s)'
  BY <1>1, <1>2, <1>3, <1>4, <1>5, Typed DEF InBudget, Null
<1>7. s \in Drains => Covers(s)'
  <2> SUFFICES ASSUME s \in Drains
               PROVE  KeysOf(Oldest(w.before) .. w.start) \subseteq stored \cup KeysOf(page)
    BY <1>1, <1>4, <1>5 DEF Covers
  <2>1. page = Oldest(w.before) .. Newest(w.before)
    BY DEF Page
  <2>2. CASE w.before = Null
    <3>1. Oldest(w.before) .. w.start \subseteq page \cup {}
      BY <2>1, <2>2, <1>2, <1>3, Typed DEF Newest
    <3>2. KeysOf(Oldest(w.before) .. w.start) \subseteq KeysOf(page) \cup KeysOf({})
      BY <3>1 DEF KeysOf
    <3> QED BY <3>2, NoKeys
  <2>3. CASE w.before # Null
    <3>1. Oldest(w.before) .. w.start \subseteq page \cup (w.before .. w.start)
      BY <2>1, <2>3, <1>2, <1>3 DEF Newest
    <3>2. KeysOf(Oldest(w.before) .. w.start)
             \subseteq KeysOf(page) \cup KeysOf(w.before .. w.start)
      BY <3>1 DEF KeysOf
    <3>3. KeysOf(w.before .. w.start) \subseteq stored
      BY <2>3, <1>1, <1>2, Typed DEF Covers
    <3> QED BY <3>2, <3>3
  <2> QED BY <2>2, <2>3
<1>8. report' = [report EXCEPT ![s] = report[s]]
  BY <1>1 DEF ScanInv, TypeOK
<1>9. s \in Drains /\ ~report[s].capped => KeysOf(1 .. report[s].start) \subseteq stored'
  BY <1>1 DEF ScanInv, DrainIsComplete, Complete
<1> QED BY <1>1, <1>4, <1>6, <1>7, <1>8, <1>9, Typed, OneScanner

(***************************************************************************)
(* A key moves from the pending ones to the stored ones.                   *)
(***************************************************************************)
LEMMA InsertKeyInv == ASSUME ScanInv, NEW s \in Scanners, InsertKey(s) PROVE ScanInv'
<1>1. PICK k \in scan[s].pending :
         /\ stored' = stored \cup {k}
         /\ scan' = [scan EXCEPT ![s].pending = @ \ {k}, ![s].newly = @ \/ k \notin stored]
  BY DEF InsertKey
<1> DEFINE w == scan[s]
           v == [w EXCEPT !.pending = @ \ {k}, !.newly = @ \/ k \notin stored]
<1>2. /\ stage[s] = "insert" /\ UNCHANGED <<head, stage, report, disturbed>>
      /\ w \in ScanType /\ k \in Keys /\ stored \subseteq Keys
  BY Typed DEF InsertKey, ScanType
<1>3. /\ v \in ScanType /\ v.before = w.before /\ v.pages = w.pages /\ v.start = w.start
      /\ v.pending = w.pending \ {k}
  BY <1>2 DEF ScanType
<1>4. scan' = [scan EXCEPT ![s] = v]
  BY <1>1 DEF ScanInv, TypeOK
<1> HIDE DEF v
<1>5. scan'[s] = v /\ stage'[s] = "insert" /\ stage' = [stage EXCEPT ![s] = "insert"]
  BY <1>2, <1>4 DEF ScanInv, TypeOK
<1>6. InBudget(s)'
  BY <1>2, <1>3, <1>5, Typed DEF InBudget
<1>7. s \in Drains => Covers(s)'
  BY <1>1, <1>2, <1>3, <1>5, Typed DEF Covers
<1>8. report' = [report EXCEPT ![s] = report[s]]
  BY <1>2 DEF ScanInv, TypeOK
<1>9. s \in Drains /\ ~report[s].capped => KeysOf(1 .. report[s].start) \subseteq stored'
  BY <1>1 DEF ScanInv, DrainIsComplete, Complete
<1>10. disturbed' \in BOOLEAN /\ UNCHANGED head /\ stored \subseteq stored' /\ stored' \subseteq Keys
  BY <1>1, <1>2, Typed
<1> QED BY <1>3, <1>4, <1>5, <1>6, <1>7, <1>8, <1>9, <1>10, Typed, OneScanner

(***************************************************************************)
(* After a page: a backfill is never caught up, so it returns uncapped     *)
(* only at the oldest node.                                                *)
(***************************************************************************)
LEMMA PageDoneInv == ASSUME ScanInv, NEW s \in Scanners, PageDone(s) PROVE ScanInv'
<1>1. /\ stage[s] = "insert" /\ scan[s].pending = {} /\ UNCHANGED <<head, stored>>
      /\ scan[s].before # Null
  BY Typed DEF PageDone, InBudget
<1>2. CASE CaughtUp(s) \/ scan[s].before = 1
  <2>1. Return(s, TRUE)
    BY <1>2 DEF PageDone
  <2>2. s \in Drains => KeysOf(1 .. scan[s].start) \subseteq stored
    <3> SUFFICES ASSUME s \in Drains PROVE KeysOf(1 .. scan[s].start) \subseteq stored
      OBVIOUS
    <3>1. scan[s].before = 1
      BY <1>2 DEF CaughtUp, Drains
    <3> QED BY <3>1, <1>1, Typed DEF Covers
  <2> QED BY <2>1, <2>2, <1>1, ReturnInv
<1>3. CASE ~(CaughtUp(s) \/ scan[s].before = 1) /\ scan[s].pages = MaxPages[s]
  <2>1. Return(s, FALSE)
    BY <1>3 DEF PageDone
  <2> QED BY <2>1, <1>1, ReturnInv
<1>4. CASE ~(CaughtUp(s) \/ scan[s].before = 1) /\ scan[s].pages # MaxPages[s]
  <2>1. /\ stage' = [stage EXCEPT ![s] = "fetch"] /\ UNCHANGED <<scan, report, disturbed>>
    BY <1>4 DEF PageDone
  <2>2. scan[s].pages \in Nat /\ scan[s].pages <= MaxPages[s] /\ scan[s].start <= head
    BY Typed DEF InBudget, ScanType
  <2>3. stage'[s] = "fetch"
    BY <2>1 DEF ScanInv, TypeOK
  <2>4. InBudget(s)'
    BY <1>1, <1>4, <2>1, <2>2, <2>3, Typed DEF InBudget
  <2>5. s \in Drains => Covers(s)'
    BY <1>1, <2>1, <2>3, Typed DEF Covers
  <2>6. scan' = [scan EXCEPT ![s] = scan[s]] /\ report' = [report EXCEPT ![s] = report[s]]
    BY <2>1 DEF ScanInv, TypeOK
  <2>7. s \in Drains /\ ~report[s].capped => KeysOf(1 .. report[s].start) \subseteq stored'
    BY <1>1 DEF ScanInv, DrainIsComplete, Complete
  <2>8. disturbed' \in BOOLEAN /\ stored \subseteq stored' /\ stored' \subseteq Keys
    BY <1>1, <2>1, Typed
  <2> QED BY <1>1, <2>1, <2>4, <2>5, <2>6, <2>7, <2>8, Typed, OneScanner
<1> QED BY <1>2, <1>3, <1>4

(***************************************************************************)
(* Every step keeps the invariant.                                         *)
(***************************************************************************)
LEMMA NextScan == ScanInv /\ [Next]_vars => ScanInv'
<1> SUFFICES ASSUME ScanInv, [Next]_vars PROVE ScanInv'
  OBVIOUS
<1>1. CASE Grow
  <2>1. /\ head' \in 0 .. MaxNodes /\ head <= head' /\ head \in Nat /\ head' \in Nat
        /\ UNCHANGED <<stored, stage, scan, report, disturbed>>
    BY <1>1, ScanAssumption DEF Grow, ScanInv, TypeOK
  <2>2. TypeOK'
    BY <2>1 DEF ScanInv, TypeOK
  <2>3. ASSUME NEW s \in Scanners PROVE InBudget(s)'
    <3>1. scan[s].start \in Nat /\ scan[s].start <= head
      BY Typed DEF InBudget, ScanType
    <3> QED BY <2>1, <3>1, Typed DEF InBudget
  <2>4. (\A s \in Drains : Covers(s))' /\ DrainIsComplete'
    BY <2>1 DEF ScanInv, Covers, DrainIsComplete, Complete
  <2> QED BY <2>2, <2>3, <2>4 DEF ScanInv
<1>2. ASSUME NEW s \in Scanners, ScanStep(s) PROVE ScanInv'
  BY <1>2, BeginInv, EndingInv, FetchPageInv, InsertKeyInv, PageDoneInv
  DEF ScanStep, Proceed
<1>3. CASE UNCHANGED vars
  BY <1>3 DEF vars, ScanInv, TypeOK, InBudget, Covers, DrainIsComplete, Complete
<1> QED BY <1>1, <1>2, <1>3 DEF Next

(***************************************************************************)
(* The invariant holds in every state.                                     *)
(***************************************************************************)
THEOREM ScanInvariant == Spec => []ScanInv
BY InitScan, NextScan, PTL DEF Spec

(***************************************************************************)
(* Type correctness, the page budget of every scanner included.            *)
(***************************************************************************)
THEOREM TypeCorrect == Spec => []TypeOK
<1>1. ScanInv => TypeOK
  BY DEF ScanInv
<1> QED BY <1>1, ScanInvariant, PTL

(***************************************************************************)
(* A backfill that returns uncapped has stored every key up to its start,  *)
(* whatever failed before, and whatever the other scanners do meanwhile.   *)
(***************************************************************************)
THEOREM DrainComplete == Spec => []DrainIsComplete
<1>1. ScanInv => DrainIsComplete
  BY DEF ScanInv
<1> QED BY <1>1, ScanInvariant, PTL

(***************************************************************************)
(* The tick that stops at a page of known keys.                            *)
(*                                                                         *)
(* As long as nothing disturbs the scans, the collection holds exactly the *)
(* keys of the nodes up to one, h, between two scans; and during one also  *)
(* those from the oldest node it saw up to the newest, t.  A page above h  *)
(* holds new keys only, so that a scan is caught up only when it has met   *)
(* what is stored, and then it holds the keys of everything up to t.  That *)
(* needs the keys to be distinct: a known key on a page above h would stop *)
(* the scan over the nodes between.                                        *)
(***************************************************************************)
DistinctKeys ==
    \A m, n \in Nodes : KeyOf[m] = KeyOf[n] /\ KeyOf[m] # None => m = n

Walked(at, v, h, t) ==
    /\ v.before = Null => at = "fetch" /\ stored = KeysOf(1 .. h)
    /\ v.before # Null =>
          /\ v.before <= t
          /\ stored \cup v.pending = KeysOf(1 .. h) \cup KeysOf(v.before .. t)
    /\ at = "insert" /\ h < v.before /\ ~v.newly =>
          v.pending \cap stored = {} /\ (v.keyed => v.pending # {})

Progress(at, v) ==
    \E h \in 0 .. v.start, t \in v.start .. head : Walked(at, v, h, t)

Alone(s) == \A q \in Scanners : q # s => stage[q] = "idle"

Working ==
    \E s \in Scanners : Alone(s) /\ stage[s] # "idle" /\ Progress(stage[s], scan[s])

Resting ==
    /\ \A s \in Scanners : stage[s] = "idle"
    /\ \E h \in 0 .. head : stored = KeysOf(1 .. h)

CalmInv == ~disturbed => (Working \/ Resting) /\ UncappedIsComplete

(***************************************************************************)
(* The keys of the nodes of two sets.                                      *)
(***************************************************************************)
LEMMA KeysOfBoth ==
    \A A, B : /\ KeysOf(A \cup B) = KeysOf(A) \cup KeysOf(B)
              /\ A \subseteq B => KeysOf(A) \subseteq KeysOf(B)
BY DEF KeysOf

(***************************************************************************)
(* Disjoint sets of nodes have disjoint keys, when keys are distinct.      *)
(***************************************************************************)
LEMMA KeysApart ==
    ASSUME DistinctKeys, NEW A \in SUBSET Nodes, NEW B \in SUBSET Nodes, A \cap B = {}
    PROVE  KeysOf(A) \cap KeysOf(B) = {}
BY DEF DistinctKeys, KeysOf

(***************************************************************************)
(* Reports stay true when the collection only grows.                       *)
(***************************************************************************)
LEMMA ReportsKept ==
    ASSUME UncappedIsComplete, stored \subseteq stored', UNCHANGED report
    PROVE  UncappedIsComplete'
BY DEF UncappedIsComplete, Complete

(***************************************************************************)
(* The one scanner at work, when nothing has been disturbed.               *)
(***************************************************************************)
LEMMA Worker ==
    ASSUME CalmInv, ~disturbed, NEW s \in Scanners, stage[s] # "idle"
    PROVE  Alone(s) /\ Progress(stage[s], scan[s]) /\ UncappedIsComplete
BY DEF CalmInv, Working, Resting, Alone

(***************************************************************************)
(* A scan that starts, alone.                                              *)
(***************************************************************************)
LEMMA BeginCalm ==
    ASSUME ScanInv, CalmInv, NEW s \in Scanners, Begin(s)
    PROVE  CalmInv'
<1> SUFFICES ASSUME ~disturbed' PROVE (Working \/ Resting)' /\ UncappedIsComplete'
  BY DEF CalmInv
<1>1. /\ ~disturbed /\ \A q \in Scanners : stage[q] = "idle"
      /\ UNCHANGED <<head, stored, report>>
      /\ stage' = [stage EXCEPT ![s] = "fetch"]
  BY DEF Begin
<1>2. PICK v : v = [AtRest EXCEPT !.start = head]
  OBVIOUS
<1>3. stage'[s] = "fetch" /\ scan'[s] = v /\ v.before = Null /\ v.start = head
      /\ (Alone(s))'
  BY <1>1, <1>2 DEF Begin, AtRest, ScanInv, TypeOK, Alone
<1>4. PICK h \in 0 .. head : stored = KeysOf(1 .. h)
  BY <1>1 DEF CalmInv, Working, Resting
<1>5. head \in v.start .. head
  BY <1>3, Typed
<1>6. Walked("fetch", v, h, head)'
  BY <1>1, <1>3, <1>4 DEF Walked
<1>7. Progress("fetch", v)'
  <2>1. h \in 0 .. v.start /\ head \in v.start .. head'
    BY <1>1, <1>3, <1>5
  <2> QED BY <1>1, <1>6, <2>1 DEF Progress
<1>8. Working'
  BY <1>3, <1>7 DEF Working, Progress, Walked
<1>9. UncappedIsComplete'
  BY <1>1, ReportsKept DEF CalmInv
<1> QED BY <1>8, <1>9

(***************************************************************************)
(* A scan at work that stays at work.                                      *)
(***************************************************************************)
LEMMA WorkCalm ==
    ASSUME ScanInv, CalmInv, NEW s \in Scanners, stage[s] # "idle",
           NEW to \in {"fetch", "insert"}, stage' = [stage EXCEPT ![s] = to],
           NEW v, scan' = [scan EXCEPT ![s] = v], UNCHANGED <<head, report, disturbed>>,
           stored \subseteq stored', ~disturbed => Progress(to, v)'
    PROVE  CalmInv'
<1> SUFFICES ASSUME ~disturbed PROVE Working' /\ UncappedIsComplete'
  BY DEF CalmInv
<1>1. Alone(s) /\ UncappedIsComplete
  BY Worker
<1>2. stage'[s] = to /\ scan'[s] = v /\ (Alone(s))'
  BY <1>1 DEF ScanInv, TypeOK, Alone
<1>3. Working'
  BY <1>2 DEF Working, Progress, Walked
<1> QED BY <1>1, <1>3, ReportsKept

(***************************************************************************)
(* A page above what is stored holds only new keys; below it, it closes    *)
(* the gap.                                                                *)
(***************************************************************************)
LEMMA FetchPageCalm ==
    ASSUME DistinctKeys, ScanInv, CalmInv, NEW s \in Scanners, FetchPage(s)
    PROVE  CalmInv'
<1>1. PICK w, page, v :
         /\ w = scan[s] /\ page = Page(w.before)
         /\ v = [before |-> Oldest(w.before), pages |-> w.pages + 1,
                 pending |-> KeysOf(page), keyed |-> KeysOf(page) # {},
                 newly |-> FALSE, start |-> w.start]
  OBVIOUS
<1>2. /\ page # {} /\ stage[s] = "fetch" /\ stage' = [stage EXCEPT ![s] = "insert"]
      /\ scan' = [scan EXCEPT ![s] = v] /\ UNCHANGED <<head, stored, report, disturbed>>
  BY <1>1 DEF FetchPage
<1>3. /\ w \in ScanType /\ w.before \in 0 .. MaxNodes /\ w.before # 1
      /\ w.start \in 0 .. MaxNodes /\ w.start <= head /\ w.pending = {}
      /\ head \in 0 .. MaxNodes /\ MaxNodes \in Nat
  BY <1>1, <1>2, Typed DEF ScanType, InBudget
<1>4. /\ Oldest(w.before) \in Nat /\ Oldest(w.before) >= 1
      /\ Newest(w.before) \in Nat /\ Newest(w.before) <= MaxNodes
      /\ Oldest(w.before) <= Newest(w.before) /\ page \in SUBSET Nodes
      /\ page = Oldest(w.before) .. Newest(w.before)
  BY <1>1, <1>2, <1>3, PageBounds DEF Page
<1>5. /\ v.before = Oldest(w.before) /\ v.before # Null /\ v.pending = KeysOf(page)
      /\ (v.keyed <=> v.pending # {}) /\ v.start = w.start
  <2>1. /\ v.before = Oldest(w.before) /\ v.pending = KeysOf(page) /\ v.start = w.start
        /\ v.keyed = (KeysOf(page) # {})
    BY <1>1
  <2>2. v.before # Null
    BY <1>4, <2>1 DEF Null
  <2> QED BY <2>1, <2>2
<1>6. ASSUME ~disturbed PROVE Progress("insert", v)'
  <2>1. PICK h \in 0 .. w.start, t0 \in w.start .. head : Walked("fetch", w, h, t0)
    BY <1>1, <1>2, <1>6, Worker DEF Progress
  <2>2. PICK t : t = IF w.before = Null THEN head ELSE t0
    OBVIOUS
  <2>3. /\ t \in w.start .. head /\ v.before <= t /\ h \in Nat /\ h <= t /\ t <= MaxNodes
    BY <1>3, <1>4, <1>5, <2>1, <2>2 DEF Walked, Newest, Null
  <2>4. v.before .. t = page \cup (IF w.before = Null THEN {} ELSE w.before .. t)
    <3>1. CASE w.before = Null
      BY <1>4, <1>5, <2>2, <3>1 DEF Newest
    <3>2. CASE w.before # Null
      <4>1. Newest(w.before) = w.before - 1 /\ w.before <= t
        BY <2>1, <2>2, <3>2 DEF Newest, Walked
      <4> QED BY <1>3, <1>4, <1>5, <2>3, <3>2, <4>1
    <3> QED BY <3>1, <3>2
  <2>5. stored = KeysOf(1 .. h) \cup (IF w.before = Null THEN {} ELSE KeysOf(w.before .. t))
    <3>1. CASE w.before = Null
      BY <2>1, <3>1 DEF Walked
    <3>2. CASE w.before # Null
      BY <1>3, <2>1, <2>2, <3>2 DEF Walked
    <3> QED BY <3>1, <3>2
  <2>6. stored \cup v.pending = KeysOf(1 .. h) \cup KeysOf(v.before .. t)
    <3>1. KeysOf(v.before .. t) =
            KeysOf(page) \cup (IF w.before = Null THEN {} ELSE KeysOf(w.before .. t))
      BY <2>4, KeysOfBoth, NoKeys
    <3> QED BY <1>5, <2>5, <3>1
  <2>7. ASSUME h < v.before PROVE v.pending \cap stored = {}
    <3>1. (1 .. h) \in SUBSET Nodes /\ page \cap (1 .. h) = {}
      BY <1>3, <1>4, <1>5, <2>3, <2>7 DEF Nodes
    <3>2. KeysOf(page) \cap KeysOf(1 .. h) = {}
      BY <1>4, <3>1, KeysApart
    <3>3. w.before # Null => KeysOf(page) \cap KeysOf(w.before .. t) = {}
      <4> SUFFICES ASSUME w.before # Null PROVE KeysOf(page) \cap KeysOf(w.before .. t) = {}
        OBVIOUS
      <4>1. Newest(w.before) = w.before - 1
        BY DEF Newest
      <4>2. (w.before .. t) \in SUBSET Nodes /\ page \cap (w.before .. t) = {}
        BY <1>3, <1>4, <2>3, <4>1 DEF Nodes, Null
      <4> QED BY <1>4, <4>2, KeysApart
    <3> QED BY <1>5, <2>5, <3>2, <3>3
  <2>8. Walked("insert", v, h, t)'
    BY <1>2, <1>5, <2>3, <2>6, <2>7 DEF Walked
  <2> QED BY <1>2, <1>5, <2>3, <2>8 DEF Progress
<1> QED BY <1>2, <1>6, WorkCalm

(***************************************************************************)
(* A key is inserted: the first new one of its page marks the page.        *)
(***************************************************************************)
LEMMA InsertKeyCalm ==
    ASSUME ScanInv, CalmInv, NEW s \in Scanners, InsertKey(s)
    PROVE  CalmInv'
<1>1. PICK k \in scan[s].pending :
         /\ stored' = stored \cup {k}
         /\ scan' = [scan EXCEPT ![s].pending = @ \ {k}, ![s].newly = @ \/ k \notin stored]
  BY DEF InsertKey
<1>2. PICK w, v : /\ w = scan[s]
                  /\ v = [w EXCEPT !.pending = @ \ {k}, !.newly = @ \/ k \notin stored]
  OBVIOUS
<1>3. stage[s] = "insert" /\ UNCHANGED <<head, stage, report, disturbed>> /\ w \in ScanType
  BY <1>2, Typed DEF InsertKey
<1>4. /\ v.before = w.before /\ v.start = w.start /\ v.keyed = w.keyed
      /\ v.pending = w.pending \ {k} /\ v.newly = (w.newly \/ k \notin stored)
  BY <1>2, <1>3 DEF ScanType
<1>5. scan' = [scan EXCEPT ![s] = v] /\ stage' = [stage EXCEPT ![s] = "insert"]
  BY <1>1, <1>2, <1>3 DEF ScanInv, TypeOK
<1>6. ASSUME ~disturbed PROVE Progress("insert", v)'
  <2>1. PICK h \in 0 .. w.start, t \in w.start .. head : Walked("insert", w, h, t)
    BY <1>2, <1>3, <1>6, Worker DEF Progress
  <2>2. w.before # Null
    BY <2>1 DEF Walked
  <2>3. stored' \cup v.pending = stored \cup w.pending
    BY <1>1, <1>2, <1>4
  <2>4. ~v.newly => w.newly = FALSE /\ k \in stored
    BY <1>3, <1>4 DEF ScanType
  <2>5. h < v.before => v.newly
    BY <1>1, <1>2, <1>4, <2>1, <2>4 DEF Walked
  <2>6. Walked("insert", v, h, t)'
    BY <1>4, <2>1, <2>2, <2>3, <2>5 DEF Walked
  <2> QED BY <1>3, <1>4, <2>1, <2>6 DEF Progress
<1> QED BY <1>1, <1>3, <1>5, <1>6, WorkCalm

(***************************************************************************)
(* A scan that reached the end holds the keys of everything up to a node   *)
(* no older than its start.                                                *)
(***************************************************************************)
LEMMA ReturnCalm ==
    ASSUME ScanInv, CalmInv, NEW s \in Scanners, stage[s] # "idle",
           NEW reachedEnd \in BOOLEAN, Return(s, reachedEnd), UNCHANGED <<head, stored>>,
           ~disturbed /\ reachedEnd =>
               \E t \in scan[s].start .. head : stored = KeysOf(1 .. t)
    PROVE  CalmInv'
<1> SUFFICES ASSUME ~disturbed' PROVE Resting' /\ UncappedIsComplete'
  BY DEF CalmInv
<1>1. ~disturbed /\ reachedEnd
  BY DEF Return
<1>2. PICK start, t : start = scan[s].start /\ t \in start .. head /\ stored = KeysOf(1 .. t)
  BY <1>1
<1>3. Alone(s) /\ UncappedIsComplete /\ start \in 0 .. MaxNodes /\ head \in Nat
  BY <1>1, <1>2, Worker, Typed DEF ScanType
<1>4. /\ stage' = [stage EXCEPT ![s] = "idle"]
      /\ report' = [report EXCEPT ![s] = [capped |-> FALSE, start |-> start]]
  BY <1>1, <1>2 DEF Return
<1>5. \A q \in Scanners : stage'[q] = "idle"
  BY <1>3, <1>4 DEF Alone, ScanInv, TypeOK
<1>6. Resting'
  <2>1. t \in 0 .. head'
    BY <1>2, <1>3
  <2> QED BY <1>2, <1>5, <2>1 DEF Resting
<1>7. UncappedIsComplete'
  <2>1. \A q \in Scanners : report'[q] = IF q = s THEN [capped |-> FALSE, start |-> start]
                                         ELSE report[q]
    BY <1>4 DEF ScanInv, TypeOK
  <2>2. KeysOf(1 .. start) \subseteq stored
    <3>1. 1 .. start \subseteq 1 .. t
      BY <1>2, <1>3
    <3> QED BY <1>2, <3>1, KeysOfBoth
  <2> QED BY <1>3, <2>1, <2>2 DEF UncappedIsComplete, Complete
<1> QED BY <1>6, <1>7

(***************************************************************************)
(* The page is done: caught up means that what was stored is met.          *)
(***************************************************************************)
LEMMA PageDoneCalm ==
    ASSUME ScanInv, CalmInv, NEW s \in Scanners, PageDone(s)
    PROVE  CalmInv'
<1>1. PICK w : w = scan[s]
  OBVIOUS
<1>2. /\ stage[s] = "insert" /\ w.pending = {} /\ UNCHANGED <<head, stored>>
      /\ w \in ScanType /\ w.start \in 0 .. MaxNodes /\ head \in Nat
      /\ w.before \in 0 .. MaxNodes /\ w.start <= head
  BY <1>1, Typed DEF PageDone, ScanType, InBudget
<1>3. CASE CaughtUp(s) \/ w.before = 1
  <2>1. Return(s, TRUE)
    BY <1>1, <1>3 DEF PageDone
  <2>2. ASSUME ~disturbed PROVE \E t \in w.start .. head : stored = KeysOf(1 .. t)
    <3>1. PICK h \in 0 .. w.start, t \in w.start .. head : Walked("insert", w, h, t)
      BY <1>1, <1>2, <2>2, Worker DEF Progress
    <3>2. /\ w.before # Null /\ w.before <= t
          /\ stored = KeysOf(1 .. h) \cup KeysOf(w.before .. t)
      BY <1>2, <3>1 DEF Walked
    <3>3. w.before <= h \/ w.before = 1
      <4>1. CASE CaughtUp(s)
        BY <1>1, <1>2, <3>1, <4>1 DEF CaughtUp, Walked
      <4> QED BY <1>3, <4>1
    <3>4. (1 .. h) \cup (w.before .. t) = 1 .. t
      BY <1>2, <3>1, <3>2, <3>3 DEF Null
    <3>5. stored = KeysOf(1 .. t)
      BY <3>2, <3>4, KeysOfBoth
    <3> QED BY <3>1, <3>5
  <2> QED BY <1>1, <1>2, <2>1, <2>2, ReturnCalm
<1>4. CASE ~(CaughtUp(s) \/ w.before = 1) /\ w.pages = MaxPages[s]
  <2>1. Return(s, FALSE)
    BY <1>1, <1>4 DEF PageDone
  <2> QED BY <1>2, <2>1, ReturnCalm
<1>5. CASE ~(CaughtUp(s) \/ w.before = 1) /\ w.pages # MaxPages[s]
  <2>1. stage' = [stage EXCEPT ![s] = "fetch"] /\ UNCHANGED <<scan, report, disturbed>>
    BY <1>1, <1>5 DEF PageDone
  <2>2. scan' = [scan EXCEPT ![s] = w]
    BY <1>1, <2>1 DEF ScanInv, TypeOK
  <2>3. ASSUME ~disturbed PROVE Progress("fetch", w)'
    <3>1. PICK h \in 0 .. w.start, t \in w.start .. head : Walked("insert", w, h, t)
      BY <1>1, <1>2, <2>3, Worker DEF Progress
    <3>2. Walked("fetch", w, h, t)'
      BY <1>2, <3>1 DEF Walked
    <3> QED BY <1>2, <3>1, <3>2 DEF Progress
  <2> QED BY <1>2, <2>1, <2>2, <2>3, WorkCalm
<1> QED BY <1>3, <1>4, <1>5

(***************************************************************************)
(* Every step keeps the invariant.                                         *)
(***************************************************************************)
LEMMA NextCalm ==
    ASSUME DistinctKeys, ScanInv, CalmInv, [Next]_vars
    PROVE  CalmInv'
<1>1. CASE Grow
  <2> SUFFICES ASSUME ~disturbed PROVE (Working \/ Resting)' /\ UncappedIsComplete'
    BY <1>1 DEF CalmInv, Grow
  <2>1. /\ head' = head + 1 /\ UNCHANGED <<stored, stage, scan, report, disturbed>>
        /\ head \in Nat
    BY <1>1, ScanAssumption DEF Grow, ScanInv, TypeOK
  <2>2. UncappedIsComplete'
    BY <2>1, ReportsKept DEF CalmInv
  <2>3. CASE Resting
    <3>1. PICK h \in 0 .. head : stored = KeysOf(1 .. h)
      BY <2>3 DEF Resting
    <3>2. h \in 0 .. head'
      BY <2>1, <3>1
    <3> QED BY <2>1, <2>2, <2>3, <3>1, <3>2 DEF Resting
  <2>4. CASE Working
    <3>1. PICK s, v : /\ s \in Scanners /\ v = scan[s] /\ Alone(s) /\ stage[s] # "idle"
                                   /\ Progress(stage[s], v)
      BY <2>4 DEF Working
    <3>2. PICK h \in 0 .. v.start, t \in v.start .. head : Walked(stage[s], v, h, t)
      BY <3>1 DEF Progress
    <3>3. v.start \in 0 .. MaxNodes
      BY <3>1, Typed DEF ScanType
    <3>4. t \in v.start .. head'
      BY <2>1, <3>2, <3>3, ScanAssumption
    <3>5. Progress(stage[s], v)'
      BY <2>1, <3>2, <3>4 DEF Progress, Walked
    <3>6. Working'
      BY <2>1, <3>1, <3>5 DEF Working, Alone, Progress, Walked
    <3> QED BY <2>2, <3>6
  <2> QED BY <2>3, <2>4 DEF CalmInv
<1>2. ASSUME NEW s \in Scanners, FetchNothing(s) PROVE CalmInv'
  <2>1. /\ Page(scan[s].before) = {} /\ stage[s] = "fetch" /\ Return(s, TRUE)
        /\ UNCHANGED <<head, stored>>
    BY <1>2 DEF FetchNothing
  <2>2. scan[s].before \in 0 .. MaxNodes /\ scan[s].start \in 0 .. MaxNodes
    BY Typed DEF ScanType
  <2>3. Newest(scan[s].before) = 0 /\ scan[s].before # 1
    BY <2>1, <2>2, PageBounds, Typed DEF InBudget
  <2>4. head = 0 /\ scan[s].before = Null
    BY <2>1, <2>2, <2>3, ScanAssumption DEF Newest, Null
  <2>5. scan[s].start = 0
    BY <2>2, <2>4, Typed DEF InBudget
  <2>6. ASSUME ~disturbed PROVE \E t \in scan[s].start .. head : stored = KeysOf(1 .. t)
    <3>1. PICK h \in 0 .. scan[s].start : stored = KeysOf(1 .. h)
      BY <2>1, <2>4, <2>6, Worker DEF Progress, Walked
    <3>2. h \in scan[s].start .. head
      BY <2>4, <2>5, <3>1
    <3> QED BY <3>1, <3>2
  <2> QED BY <2>1, <2>6, ReturnCalm
<1>3. ASSUME NEW s \in Scanners, FetchFails(s) PROVE CalmInv'
  BY <1>3, ReturnCalm DEF FetchFails
<1>4. ASSUME NEW s \in Scanners, Abort(s) PROVE CalmInv'
  BY <1>4 DEF Abort, CalmInv
<1>5. ASSUME NEW s \in Scanners, ScanStep(s) PROVE CalmInv'
  BY <1>2, <1>3, <1>4, <1>5, BeginCalm, FetchPageCalm, InsertKeyCalm, PageDoneCalm
  DEF ScanStep, Proceed
<1>6. CASE UNCHANGED vars
  BY <1>6
  DEF vars, CalmInv, Working, Resting, Alone, Progress, Walked, UncappedIsComplete, Complete
<1> QED BY <1>1, <1>5, <1>6 DEF Next

(***************************************************************************)
(* When the keys of the nodes are distinct, as digests are and senders are *)
(* not, a scan that stops at a page of known keys has missed nothing, as   *)
(* long as no scan before it ended early and none overlapped it.           *)
(***************************************************************************)
THEOREM UndisturbedComplete == DistinctKeys /\ Spec => []UndisturbedIsComplete
<1>1. Init => CalmInv
  <2> SUFFICES ASSUME Init PROVE CalmInv
    OBVIOUS
  <2>1. head \in 0 .. MaxNodes /\ 0 \in 0 .. head /\ 1 .. 0 = {}
    BY ScanAssumption DEF Init
  <2>2. Resting
    BY <2>1, NoKeys DEF Init, Resting
  <2>3. UncappedIsComplete
    BY DEF Init, UncappedIsComplete, NoReport
  <2> QED BY <2>2, <2>3 DEF CalmInv
<1>2. DistinctKeys /\ ScanInv /\ CalmInv /\ [Next]_vars => CalmInv'
  BY NextCalm
<1>3. CalmInv => UndisturbedIsComplete
  BY DEF CalmInv, UndisturbedIsComplete, UncappedIsComplete
<1>4. DistinctKeys => DistinctKeys'
  BY DEF DistinctKeys, Nodes
<1> QED BY <1>1, <1>2, <1>3, <1>4, ScanInvariant, PTL DEF Spec

================================================================================
