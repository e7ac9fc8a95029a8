---------------------------- MODULE MainnetCapture -----------------------------
(***************************************************************************)
(* The body of a mainnet capture: captureRaw, detectMainnetResume,         *)
(* probePaginator, runGapClosing and finalizeMainnetSnapshot in            *)
(* src/api/src/ecosystem/ecosystem.service.ts, over the onchainsnapshots   *)
(* headers and the packagefacts sub-collection.                            *)
(*                                                                         *)
(* Every database write of a run is a step of its own, so that a crash, a  *)
(* failed write or another run can come between any two of them.  Reading  *)
(* the chain touches no shared state, so fetching a page and probing its   *)
(* packages is one step.                                                   *)
(*                                                                         *)
(* Abstractions: a package is its index in publish order, and the cursor   *)
(* before a package is that index; a fact is the run that probed it, which *)
(* stands for lastProbedAt, since runs follow each other; the storage      *)
(* rebate of every package is one unit, so a header's total counts the     *)
(* entries of the final package list.  The 90-minute budget may run out at *)
(* any page, and any probe, page fetch or write may fail.  Of time it      *)
(* matters which runs are over a day ago, the 24 hours after which a       *)
(* package is stale; it passes between captures only.  Logging and alerts  *)
(* are left out.  Runs are used once, in order; MaxRuns and MaxPkg bound   *)
(* the history.                                                            *)
(***************************************************************************)
EXTENDS Integers, FiniteSets

CONSTANTS
    MaxRuns,           \* captures started
    MaxPkg,            \* packages ever published
    InitialHead,       \* packages on chain at the start
    PageSize,          \* nodes of one packages() page, 50 in the code
    CheckpointEveryN,  \* MAINNET_CHECKPOINT_EVERY_N, 50
    VanishRuns,        \* runs during which others may delete a partial
    Framework,         \* 0x000...0 packages that no project claims
    None

Runs == 1 .. MaxRuns
Packages == 1 .. MaxPkg
Ids == Runs \X {"partial", "fresh"}   \* a run creates at most one of each
Null == 0                             \* captureProgressCursor = null

ASSUME CaptureAssumption ==
    /\ MaxRuns \in Nat /\ MaxPkg \in Nat
    /\ InitialHead \in 1 .. MaxPkg
    /\ PageSize \in Nat \ {0} /\ CheckpointEveryN \in Nat \ {0}
    /\ Framework \subseteq Packages
    /\ None \notin Ids /\ None \notin Runs

VARIABLES
    head,     \* packages published on chain so far
    aged,     \* the runs up to this one probed more than a day ago
    lock,     \* the run that holds the capture lock (module CaptureLock)
    pc,       \* the stage each run has reached
    loc,      \* the local variables of each run
    header,   \* onchainsnapshots: the header document of each id
    facts     \* packagefacts: id -> package -> the run that probed it, 0 when absent

vars == <<head, aged, lock, pc, loc, header, facts>>

Stages == {"detect", "dropOlder", "dropOlderFacts", "dropNewest",
           "dropNewestFacts", "resume", "walk", "ckptHeader", "ckptFacts",
           "gap", "gapHeader", "gapFacts", "publish", "freshFacts",
           "freshHeader"}

Live(r) == pc[r] \in Stages

Absent == [stage |-> "absent", cursor |-> Null, total |-> 0]
NoFacts == [k \in Packages |-> 0]
Blank == [part |-> None, older |-> {}, cursor |-> Null, carried |-> {},
          probed |-> {}, flushed |-> {}, gap |-> {}, end |-> "no"]

TypeOK ==
    /\ head \in 0 .. MaxPkg
    /\ aged \in 0 .. MaxRuns
    /\ lock \in Runs \cup {None}
    /\ pc \in [Runs -> Stages \cup {"idle", "done", "failed"}]
    /\ loc \in [Runs -> [part : Ids \cup {None}, older : SUBSET Ids,
                         cursor : 0 .. MaxPkg, carried : SUBSET Packages,
                         probed : SUBSET Packages, flushed : SUBSET Packages,
                         gap : SUBSET Packages,
                         end : {"no", "wrapped", "deadline", "error"}]]
    /\ header \in [Ids -> [stage : {"absent", "partial", "complete"},
                           cursor : 0 .. MaxPkg, total : Nat]]
    /\ facts \in [Ids -> [Packages -> 0 .. MaxRuns]]

Init ==
    /\ head = InitialHead
    /\ aged = 0
    /\ lock = None
    /\ pc = [r \in Runs |-> "idle"]
    /\ loc = [r \in Runs |-> Blank]
    /\ header = [i \in Ids |-> Absent]
    /\ facts = [i \in Ids |-> NoFacts]

\* The start that detectMainnetResume defends against: the runs so far are over
\* and overlapped, so that several of them left a partial, not just the last.
\* Each partial holds facts from its stored cursor on, as those of a run that
\* closed no gaps.
Leftover(i) ==
    /\ i[2] = "partial" /\ header[i].stage = "partial" /\ header[i].total = 0
    /\ header[i].cursor # Null =>
          \A k \in Packages : facts[i][k] # 0 => header[i].cursor <= k

LeftoverInit ==
    /\ TypeOK
    /\ head = InitialHead
    /\ aged = 0
    /\ lock = None
    /\ \E n \in 0 .. MaxRuns :
          /\ pc = [r \in Runs |-> IF r <= n THEN "failed" ELSE "idle"]
          /\ \A i \in Ids : header[i] # Absent => i[1] <= n /\ Leftover(i)
          /\ \A i \in Ids : i[1] > n => facts[i] = NoFacts
          /\ \A i \in Ids, k \in Packages : facts[i][k] <= n
    /\ loc = [r \in Runs |-> Blank]

(***************************************************************************)
(* Reads                                                                   *)
(***************************************************************************)
Stored(i) == {k \in Packages : facts[i][k] # 0}

\* Defect: the query for partials forgets captureStage (PublishedOnce).
PartialsOfAnyStage == {i \in Ids : header[i].stage # "absent"}

Partials == {i \in Ids : header[i].stage = "partial"}

\* createdAt of a partial is the start of the run that created it.
Newest(ids) == CHOOSE i \in ids : \A j \in ids : j[1] <= i[1]

\* packages(last: PageSize, before: cursor): the newest ones below the cursor,
\* and the index of the oldest of them, which becomes the next cursor.
Top(cursor) == IF cursor = Null THEN head ELSE cursor - 1
StartCursor(cursor) == IF Top(cursor) > PageSize THEN Top(cursor) - PageSize + 1 ELSE 1
Page(cursor) == StartCursor(cursor) .. Top(cursor)
Probeable(cursor) == Page(cursor) \ Framework

\* Addresses whose latest probe, over all snapshots, is over a day old.
Stale == {k \in Packages : /\ \E i \in Ids : facts[i][k] # 0
                           /\ \A i \in Ids : facts[i][k] <= aged}

(***************************************************************************)
(* Writes.  insertMany is unordered: rows that collide on the unique       *)
(* (snapshotId, address) index are left alone and make it throw at the end.*)
(***************************************************************************)
InsertAs(i, S, probedBy) ==
    facts' = [facts EXCEPT ![i] =
                 [k \in Packages |-> IF k \in S /\ facts[i][k] = 0
                                     THEN probedBy[k] ELSE facts[i][k]]]

\* The facts of S, probed by this run.
Insert(r, i, S) == InsertAs(i, S, [k \in Packages |-> r])

Collides(i, S) == S \cap Stored(i) # {}

Go(r, stage, l) ==
    /\ pc' = [pc EXCEPT ![r] = stage]
    /\ loc' = [loc EXCEPT ![r] = l]

\* The run is over: its promise settles, and the finally frees the lock
\* unless a hard timeout did.
End(r, outcome) ==
    /\ Go(r, outcome, Blank)
    /\ lock' = IF lock = r THEN None ELSE lock

(***************************************************************************)
(* capture() starts a run under the lock.                                  *)
(***************************************************************************)
Begin(r) ==
    /\ pc[r] = "idle" /\ \A q \in Runs : q < r => pc[q] # "idle"
    /\ lock = None
    /\ lock' = r
    /\ Go(r, "detect", Blank)
    /\ UNCHANGED <<head, aged, header, facts>>

(***************************************************************************)
(* detectMainnetResume: one read of the partials, then the deletions and   *)
(* the carry-forward that it decided on.                                   *)
(***************************************************************************)
NextOfDetect(cursor) == IF cursor = Null THEN "dropNewest" ELSE "resume"

DetectFresh(r) ==
    /\ pc[r] = "detect" /\ Partials = {}
    /\ Go(r, "walk", loc[r])
    /\ UNCHANGED <<head, aged, lock, header, facts>>

DetectPartial(r) ==
    /\ pc[r] = "detect" /\ Partials # {}
    /\ LET newest == Newest(Partials)
           older == Partials \ {newest}
           cursor == header[newest].cursor
       IN  Go(r, IF older # {} THEN "dropOlder" ELSE NextOfDetect(cursor),
              [loc[r] EXCEPT !.part = newest, !.older = older, !.cursor = cursor])
    /\ UNCHANGED <<head, aged, lock, header, facts>>

DropOlder(r) ==
    /\ pc[r] = "dropOlder"
    /\ header' = [i \in Ids |-> IF i \in loc[r].older THEN Absent ELSE header[i]]
    /\ Go(r, "dropOlderFacts", loc[r])
    /\ UNCHANGED <<head, aged, lock, facts>>

DropOlderFacts(r) ==
    /\ pc[r] = "dropOlderFacts"
    /\ facts' = [i \in Ids |-> IF i \in loc[r].older THEN NoFacts ELSE facts[i]]
    /\ Go(r, NextOfDetect(loc[r].cursor), [loc[r] EXCEPT !.older = {}])
    /\ UNCHANGED <<head, aged, lock, header>>

DropNewest(r) ==
    /\ pc[r] = "dropNewest"
    /\ header' = [header EXCEPT ![loc[r].part] = Absent]
    /\ Go(r, "dropNewestFacts", loc[r])
    /\ UNCHANGED <<head, aged, lock, facts>>

DropNewestFacts(r) ==
    /\ pc[r] = "dropNewestFacts"
    /\ facts' = [facts EXCEPT ![loc[r].part] = NoFacts]
    /\ Go(r, "walk", [loc[r] EXCEPT !.part = None])
    /\ UNCHANGED <<head, aged, lock, header>>

Resume(r) ==
    /\ pc[r] = "resume"
    /\ Go(r, "walk", [loc[r] EXCEPT !.carried = Stored(loc[r].part)])
    /\ UNCHANGED <<head, aged, lock, header, facts>>

(***************************************************************************)
(* probePaginator.  A page is fetched and its packages probed, each on its *)
(* own try, so any subset succeeds; then the cursor moves past the page    *)
(* and, when enough probed packages are waiting, they are checkpointed.    *)
(***************************************************************************)
AfterPage(l) == IF l.end = "no" THEN "walk" ELSE "gap"

ProbePage(r) ==
    /\ pc[r] = "walk"
    /\ \E S \in SUBSET Probeable(loc[r].cursor) :
         LET oldest == StartCursor(loc[r].cursor)
             l == [loc[r] EXCEPT
                     !.probed = @ \cup S,
                     !.cursor = IF oldest = 1 THEN Null ELSE oldest,
                     !.end = IF oldest = 1 THEN "wrapped" ELSE "no"]
             due == Cardinality(l.probed \ l.flushed) >= CheckpointEveryN
         IN  Go(r, IF due THEN "ckptHeader" ELSE AfterPage(l), l)
    /\ UNCHANGED <<head, aged, lock, header, facts>>

\* The budget runs out at the top of a page or after one of its packages.
Deadline(r) ==
    /\ pc[r] = "walk"
    /\ \E S \in SUBSET Probeable(loc[r].cursor) :
         Go(r, "gap", [loc[r] EXCEPT !.probed = @ \cup S, !.end = "deadline"])
    /\ UNCHANGED <<head, aged, lock, header, facts>>

\* A page fetch fails for good: probePaginator returns with `error` set.
FetchError(r) ==
    /\ pc[r] = "walk"
    /\ Go(r, "gap", [loc[r] EXCEPT !.end = "error"])
    /\ UNCHANGED <<head, aged, lock, header, facts>>

(***************************************************************************)
(* onCheckpoint: first the header (created, or its cursor advanced), then  *)
(* the facts of the batch.  An exception of either ends the walk inside    *)
(* probePaginator's catch, and the capture goes on with `error` set.       *)
(***************************************************************************)
Batch(r) == loc[r].probed \ loc[r].flushed

CreatePartial(r, i, cursor) ==
    header' = [header EXCEPT ![i] =
                  [stage |-> "partial", cursor |-> cursor, total |-> 0]]

\* Defect: a resumed run creates a partial of its own (OwnsTheOnlyPartial).
CkptHeaderCreates(r) ==
    /\ pc[r] = "ckptHeader"
    /\ CreatePartial(r, <<r, "partial">>, loc[r].cursor)
    /\ Go(r, "ckptFacts", [loc[r] EXCEPT !.part = <<r, "partial">>])
    /\ UNCHANGED <<head, aged, lock, facts>>

\* Defect: later checkpoints do not advance the stored cursor
\* (ResumesAfterCursorSameDay).
CkptHeaderOnce(r) ==
    /\ pc[r] = "ckptHeader"
    /\ LET i == IF loc[r].part = None THEN <<r, "partial">> ELSE loc[r].part IN
         /\ IF loc[r].part = None
            THEN CreatePartial(r, i, loc[r].cursor)
            ELSE UNCHANGED header
         /\ Go(r, "ckptFacts", [loc[r] EXCEPT !.part = i])
    /\ UNCHANGED <<head, aged, lock, facts>>

CkptHeader(r) ==
    /\ pc[r] = "ckptHeader"
    /\ LET i == IF loc[r].part = None THEN <<r, "partial">> ELSE loc[r].part IN
         /\ IF loc[r].part = None
            THEN CreatePartial(r, i, loc[r].cursor)
            ELSE header' = IF header[i].stage = "absent" THEN header
                           ELSE [header EXCEPT ![i].cursor = loc[r].cursor]
         /\ Go(r, "ckptFacts", [loc[r] EXCEPT !.part = i])
    /\ UNCHANGED <<head, aged, lock, facts>>

CkptFacts(r) ==
    /\ pc[r] = "ckptFacts"
    /\ ~Collides(loc[r].part, Batch(r))
    /\ Insert(r, loc[r].part, Batch(r))
    /\ Go(r, AfterPage(loc[r]), [loc[r] EXCEPT !.flushed = loc[r].probed])
    /\ UNCHANGED <<head, aged, lock, header>>

CkptHeaderFails(r) ==
    /\ pc[r] = "ckptHeader"
    /\ Go(r, "gap", [loc[r] EXCEPT !.end = "error"])
    /\ UNCHANGED <<head, aged, lock, header, facts>>

\* Defect: a failed checkpoint is taken for flushed and the walk goes on
\* (LossBounded).
CkptFactsFailsUnseen(r) ==
    /\ pc[r] = "ckptFacts"
    /\ \E T \in SUBSET Batch(r) : Insert(r, loc[r].part, T)
    /\ Go(r, AfterPage(loc[r]), [loc[r] EXCEPT !.flushed = loc[r].probed])
    /\ UNCHANGED <<head, aged, lock, header>>

CkptFactsFails(r) ==
    /\ pc[r] = "ckptFacts"
    /\ \E T \in SUBSET Batch(r) : Insert(r, loc[r].part, T)
    /\ Go(r, "gap", [loc[r] EXCEPT !.end = "error"])
    /\ UNCHANGED <<head, aged, lock, header>>

(***************************************************************************)
(* Gap-closing, only after a walk that wrapped: some of the stale          *)
(* addresses are probed again, under the partial or a placeholder for it.  *)
(***************************************************************************)
CloseGaps(r) ==
    /\ pc[r] = "gap" /\ loc[r].end = "wrapped"
    /\ \E S \in (SUBSET Stale) \ {{}} :
         Go(r, IF loc[r].part = None THEN "gapHeader" ELSE "gapFacts",
            [loc[r] EXCEPT !.gap = S])
    /\ UNCHANGED <<head, aged, lock, header, facts>>

NoGaps(r) ==
    /\ pc[r] = "gap"
    /\ Go(r, "publish", loc[r])
    /\ UNCHANGED <<head, aged, lock, header, facts>>

GapHeader(r) ==
    /\ pc[r] = "gapHeader"
    /\ CreatePartial(r, <<r, "partial">>, Null)
    /\ Go(r, "gapFacts", [loc[r] EXCEPT !.part = <<r, "partial">>])
    /\ UNCHANGED <<head, aged, lock, facts>>

GapFacts(r) ==
    /\ pc[r] = "gapFacts"
    /\ ~Collides(loc[r].part, loc[r].gap)
    /\ Insert(r, loc[r].part, loc[r].gap)
    /\ Go(r, "publish", loc[r])
    /\ UNCHANGED <<head, aged, lock, header>>

GapFactsFails(r) ==
    /\ pc[r] = "gapFacts"
    /\ \E T \in SUBSET loc[r].gap : Insert(r, loc[r].part, T)
    /\ End(r, "failed")
    /\ UNCHANGED <<head, aged, header>>

(***************************************************************************)
(* finalizeMainnetSnapshot over the final package list: promote the        *)
(* partial, or insert everything under a new id and create its header      *)
(* last.  A package that the walk probed is in the list twice when          *)
(* gap-closing probed it too, or when it was carried forward.              *)
(***************************************************************************)
\* Defect: every gap-closed package is taken for a carried one (TypeOK).
TotalNet(l) == Cardinality(l.carried) + Cardinality(l.probed) - Cardinality(l.gap)

Total(l) == Cardinality(l.carried \ l.gap) + Cardinality(l.probed) + Cardinality(l.gap)
Listed(l) == l.carried \cup l.probed \cup l.gap

\* A carried fact is inserted as it was read, with the lastProbedAt it had; it
\* comes first in the list unless gap-closing probed the package again.
Prober(r) == [k \in Packages |-> IF k \in loc[r].carried \ loc[r].gap
                                 THEN facts[loc[r].part][k] ELSE r]

Complete(r, i) ==
    /\ header' = [header EXCEPT ![i] =
                     [stage |-> "complete", cursor |-> Null, total |-> Total(loc[r])]]
    /\ End(r, "done")

\* Defect: only a partial of its own is promoted, a resumed one is published
\* under a new id and left behind (FactsFollowHistory).
PartialOwned(r) ==
    loc[r].part = <<r, "partial">> /\ header[loc[r].part].stage # "absent"

PartialExists(r) == loc[r].part # None /\ header[loc[r].part].stage # "absent"

Promote(r) ==
    /\ pc[r] = "publish"
    /\ PartialExists(r)
    /\ Complete(r, loc[r].part)
    /\ UNCHANGED <<head, aged, facts>>

PublishFresh(r) ==
    /\ pc[r] = "publish"
    /\ ~PartialExists(r)
    /\ Go(r, "freshFacts", loc[r])
    /\ UNCHANGED <<head, aged, lock, header, facts>>

FreshFacts(r) ==
    /\ pc[r] = "freshFacts"
    /\ Total(loc[r]) = Cardinality(Listed(loc[r]))
    /\ InsertAs(<<r, "fresh">>, Listed(loc[r]), Prober(r))
    /\ Go(r, "freshHeader", loc[r])
    /\ UNCHANGED <<head, aged, lock, header>>

FreshFactsFails(r) ==
    /\ pc[r] = "freshFacts"
    /\ \E T \in SUBSET Listed(loc[r]) : InsertAs(<<r, "fresh">>, T, Prober(r))
    /\ End(r, "failed")
    /\ UNCHANGED <<head, aged, header>>

FreshHeader(r) ==
    /\ pc[r] = "freshHeader"
    /\ Complete(r, <<r, "fresh">>)
    /\ UNCHANGED <<head, aged, facts>>

(***************************************************************************)
(* An exception that nothing catches before capture(): reading or deleting *)
(* partials, loading previous states, the staleness query, the network     *)
(* totals, promoting or creating a header.                                 *)
(***************************************************************************)
Fallible == {"detect", "dropOlder", "dropOlderFacts", "dropNewest",
             "dropNewestFacts", "resume", "gap", "gapHeader", "publish",
             "freshHeader"}

Throws(r) ==
    /\ pc[r] \in Fallible
    /\ End(r, "failed")
    /\ UNCHANGED <<head, aged, header, facts>>

RunStep(r) ==
    \/ Begin(r) \/ DetectFresh(r) \/ DetectPartial(r)
    \/ DropOlder(r) \/ DropOlderFacts(r) \/ DropNewest(r) \/ DropNewestFacts(r)
    \/ Resume(r) \/ ProbePage(r) \/ Deadline(r) \/ FetchError(r)
    \/ CkptHeader(r) \/ CkptFacts(r) \/ CkptHeaderFails(r) \/ CkptFactsFails(r)
    \/ CloseGaps(r) \/ NoGaps(r) \/ GapHeader(r) \/ GapFacts(r) \/ GapFactsFails(r)
    \/ Promote(r) \/ PublishFresh(r) \/ FreshFacts(r) \/ FreshFactsFails(r)
    \/ FreshHeader(r) \/ Throws(r)

(***************************************************************************)
(* The process dies in the middle of whatever it runs.  The lock comes     *)
(* back by its time to live, before anybody can start again.               *)
(***************************************************************************)
Crash ==
    /\ \E r \in Runs : Live(r)
    /\ pc' = [r \in Runs |-> IF Live(r) THEN "failed" ELSE pc[r]]
    /\ loc' = [r \in Runs |-> Blank]
    /\ lock' = None
    /\ UNCHANGED <<head, aged, header, facts>>

(***************************************************************************)
(* Environment: somebody else deletes the header of a partial, by hand or  *)
(* from another process ("partial doc vanished between checkpoint and      *)
(* finalize"), during one of VanishRuns; a package is published; a day has *)
(* passed since one more of the captures.                                  *)
(***************************************************************************)
PartialVanishes ==
    /\ lock \in VanishRuns
    /\ \E i \in Partials : header' = [header EXCEPT ![i] = Absent]
    /\ UNCHANGED <<head, aged, lock, pc, loc, facts>>

PublishPackage ==
    /\ head < MaxPkg
    /\ head' = head + 1
    /\ UNCHANGED <<aged, lock, pc, loc, header, facts>>

DayPasses ==
    /\ aged < MaxRuns /\ pc[aged + 1] # "idle"
    /\ \A r \in Runs : ~Live(r)
    /\ aged' = aged + 1
    /\ UNCHANGED <<head, lock, pc, loc, header, facts>>

Next ==
    \/ \E r \in Runs : RunStep(r)
    \/ Crash
    \/ PartialVanishes
    \/ PublishPackage
    \/ DayPasses

Spec == Init /\ [][Next]_vars

LeftoverSpec == LeftoverInit /\ [][Next]_vars

(***************************************************************************)
(* The hard timeout of capture(): the lock is released while the run that  *)
(* held it goes on, awaited by nobody.                                     *)
(***************************************************************************)
HardTimeout(r) ==
    /\ lock = r
    /\ lock' = None
    /\ UNCHANGED <<head, aged, pc, loc, header, facts>>

TimeoutSpec == Init /\ [][Next \/ \E r \in Runs : HardTimeout(r)]_vars

(***************************************************************************)
(* Properties                                                              *)
(***************************************************************************)

(***************************************************************************)
(* A run past detectMainnetResume is the only one that owns a partial:     *)
(* older partials are gone, one that cannot be resumed is gone, and no     *)
(* crash between the deletions, the checkpoints and the promotion leaves a *)
(* second one behind ("expected at most 1 under the capture lock").        *)
(***************************************************************************)
Past == {"walk", "ckptHeader", "ckptFacts", "gap", "gapHeader", "gapFacts",
         "publish", "freshFacts", "freshHeader"}

OwnsTheOnlyPartial ==
    \A r \in Runs : pc[r] \in Past => Partials \subseteq {loc[r].part}

(***************************************************************************)
(* A run that resumes never probes again what it carries forward ("new-run *)
(* addresses are strictly after the resume cursor"), wherever the run that *)
(* left the partial died: the final list needs no deduplication between    *)
(* the two, and no checkpoint of a resumed run collides with stored facts. *)
(***************************************************************************)
ResumesAfterCursor ==
    \A r \in Runs :
        /\ loc[r].carried \cap loc[r].probed = {}
        /\ pc[r] = "ckptFacts" => ~Collides(loc[r].part, Batch(r))

(***************************************************************************)
(* It holds as long as gap-closing had nothing to do, which is so on the   *)
(* first day; gap-closing writes below the cursor.                         *)
(***************************************************************************)
ResumesAfterCursorSameDay == aged = 0 => ResumesAfterCursor

(***************************************************************************)
(* How far a published header may differ from the facts stored under it:   *)
(* never fewer counted than stored, and less than one checkpoint window    *)
(* plus one page counted and not stored (the tail that no checkpoint wrote *)
(* or the one batch whose write failed).  A snapshot published through the *)
(* fresh path, header last, is exact.                                      *)
(***************************************************************************)
LossAllowed(i) == IF i[2] = "fresh" THEN 0 ELSE CheckpointEveryN + PageSize - 1

LossBounded ==
    \A i \in Ids : header[i].stage = "complete" =>
        header[i].total - Cardinality(Stored(i)) \in 0 .. LossAllowed(i)

(***************************************************************************)
(* The public view of the collections implements an append-only store of   *)
(* snapshots: what a reader has been served never changes or disappears,   *)
(* and the latest snapshot, the complete header of the newest createdAt,   *)
(* only moves to a newly published one.                                    *)
(***************************************************************************)
Completes == {i \in Ids : header[i].stage = "complete"}

Store == INSTANCE SnapshotStore WITH
            Snapshots <- Ids,
            NoSnapshot <- None,
            published <- [i \in Completes |-> <<header[i].total, facts[i]>>],
            latest <- IF Completes = {} THEN None ELSE Newest(Completes)

PublishedOnce == Store!Spec

(***************************************************************************)
(* The runs are bodies of captures that take turns, as CaptureLock makes   *)
(* them; with a hard timeout too, which leaves an orphan behind.           *)
(***************************************************************************)
Turns == INSTANCE CaptureTurns WITH
            Captures <- Runs,
            claims <- {r \in Runs : lock = r},
            atWork <- {r \in Runs : Live(r)}

TakesTurns == Turns!TurnsSpec

(***************************************************************************)
(* Of every package, the pipeline implements the history of facts that the *)
(* counters rest on: a fact is stored by the newest run only and never     *)
(* taken back once published, and whatever crashes, resumes, re-probes or  *)
(* vanishes, no snapshot shows an older probe of a package than a snapshot *)
(* before it did ("a published count can never fall below one already      *)
(* observed").                                                             *)
(***************************************************************************)
Begun == CHOOSE n \in 0 .. MaxRuns : \A r \in Runs : pc[r] # "idle" <=> r <= n

History(k) == INSTANCE FactHistory WITH
                 Snapshots <- Ids,
                 turn <- Begun,
                 stored <- {facts[i][k] : i \in Ids} \ {0},
                 shown <- [i \in Completes |-> facts[i][k]]

FactsFollowHistory ==
    /\ \A k \in Packages : History(k)!HistoryInit
    /\ [][\/ UNCHANGED <<header, facts, Begun>>
           \/ \A k \in Packages : History(k)!HistoryStep]_vars

(***************************************************************************)
(* The header of a published snapshot counts the facts stored under it     *)
(* ("its packagefacts are already in place under partialId because every   *)
(* checkpoint wrote to the sub-collection").                               *)
(***************************************************************************)
TotalsMatchFacts ==
    \A i \in Completes : header[i].total = Cardinality(Stored(i))

(***************************************************************************)
(* When a page fetch fails, the partial and its cursor stay for the next   *)
(* invocation to resume.                                                   *)
(***************************************************************************)
FetchErrorKeepsPartial ==
    [][\A r \in Runs : loc[r].end = "error" => ~Promote(r)]_vars

(***************************************************************************)
(* Two runs never work on the same partial ("not shared with concurrent    *)
(* runs because the capture lock serializes them").                        *)
(***************************************************************************)
PartialNotShared ==
    \A q, r \in Runs : Live(q) /\ Live(r) /\ q # r =>
        loc[q].part = None \/ loc[q].part # loc[r].part

================================================================================
