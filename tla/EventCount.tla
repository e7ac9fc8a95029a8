------------------------------ MODULE EventCount -------------------------------
(***************************************************************************)
(* Counting the events of one module of one package across captures:       *)
(* countEvents, loadPreviousModuleStates and their use in probeOnePackage, *)
(* in src/api/src/ecosystem/ecosystem.service.ts.                          *)
(*                                                                         *)
(* A capture reads the newest stored pair (events, eventsCursor) of the    *)
(* module once, after it has settled what to resume, and later walks the   *)
(* event connection forward from that cursor, page by page, while events   *)
(* are emitted, the indexer prunes old ones and refuses cursors that lie   *)
(* in the pruned part.                                                     *)
(*                                                                         *)
(* The captures themselves are a FactHistory, which MainnetCapture         *)
(* implements for every package: facts may be deleted or carried forward   *)
(* by later runs as long as no snapshot holds them.  A run is over when    *)
(* the next one begins, however far it came.                               *)
(*                                                                         *)
(* Abstractions: a cursor is the number of the event it points to, Null    *)
(* when there is none; the order of the runs is the order of lastProbedAt; *)
(* a snapshot is named by the run that publishes it.  MaxRuns and          *)
(* MaxEvents bound the history.                                            *)
(***************************************************************************)
EXTENDS FactHistory

CONSTANTS
    MaxEvents,    \* events ever emitted
    PageSize,     \* events of one page, 50 in the code
    MaxPages,     \* pages of one walk, 50 000 in the code
    LegacyCount   \* events of a fact written before eventsCursor existed

Null == 0
Runs == 1 .. MaxRuns
Probed == Runs \cup {Before}

ASSUME EventAssumption ==
    /\ MaxRuns \in Nat /\ MaxEvents \in Nat /\ LegacyCount \in Nat
    /\ PageSize \in Nat \ {0} /\ MaxPages \in Nat \ {0}
    /\ Snapshots = Runs

VARIABLES
    emitted,    \* events emitted so far, numbered from 1
    floor,      \* events up to this one are pruned
    stage,      \* how far the newest run has come with this module
    previous,   \* its previousModuleStates: the pair it goes on from
    walk,       \* the local variables of its countEvents
    fact        \* the (events, eventsCursor, eventsCapped) of each stored fact

chainVars == <<emitted, floor>>
countVars == <<stage, previous, walk, fact>>
vars == <<historyVars, chainVars, countVars>>

Bare == [events |-> 0, cursor |-> Null, capped |-> FALSE]
AtRest == [count |-> 0, cursor |-> Null, nodes |-> 0, pages |-> 0, capped |-> FALSE]

Facts == [events : Nat, cursor : 0 .. emitted, capped : BOOLEAN]

TypeOK ==
    /\ turn \in 0 .. MaxRuns
    /\ stored \subseteq Probed
    /\ shown \in [DOMAIN shown -> Runs \cup {NoFact}] /\ DOMAIN shown \subseteq Runs
    /\ emitted \in 0 .. MaxEvents
    /\ floor \in 0 .. emitted
    /\ stage \in {"over", "detect", "ready", "walk", "counted"}
    /\ previous \in Facts
    /\ walk \in [count : Nat, cursor : 0 .. emitted, nodes : Nat,
                 pages : 0 .. MaxPages, capped : BOOLEAN]
    /\ fact \in [Probed -> Facts]

Init ==
    /\ HistoryInit /\ turn = 0
    /\ emitted = 0
    /\ floor = 0
    /\ stage = "over"
    /\ previous = Bare
    /\ walk = AtRest
    /\ fact = [r \in Probed |->
                  IF r = Before THEN [Bare EXCEPT !.events = LegacyCount] ELSE Bare]

(***************************************************************************)
(* The chain and its indexer.                                              *)
(***************************************************************************)
Emit ==
    /\ emitted < MaxEvents
    /\ emitted' = emitted + 1
    /\ UNCHANGED <<floor, historyVars, countVars>>

Prune ==
    /\ floor < emitted
    /\ floor' = floor + 1
    /\ UNCHANGED <<emitted, historyVars, countVars>>

(***************************************************************************)
(* A capture starts; whatever was left of the one before it is dead.       *)
(* detectMainnetResume deletes facts; those it leaves are read by          *)
(* loadPreviousModuleStates, the newest lastProbedAt first.                *)
(***************************************************************************)
Begin ==
    /\ BeginRun
    /\ stage' = "detect"
    /\ previous' = Bare
    /\ walk' = AtRest
    /\ UNCHANGED <<fact, chainVars>>

Drop ==
    /\ stage = "detect"
    /\ DropFacts
    /\ UNCHANGED <<countVars, chainVars>>

Newest == {n \in stored : \A p \in stored : p <= n}

LoadPrevious ==
    /\ stage = "detect"
    /\ previous' \in (IF stored = {} THEN {Bare} ELSE {fact[n] : n \in Newest})
    /\ stage' = "ready"
    /\ UNCHANGED <<walk, fact, historyVars, chainVars>>

\* Defect of 2026-04-29: the count of a fact without cursor is added to a walk
\* from the start of the stream (CountsEachOnce).
PrevCountAlways(prev) == prev.events

\* prevCount is only valid when paired with prevCursor.
PrevCount(prev) == IF prev.cursor = Null THEN 0 ELSE prev.events

\* The probe of the package gets to this module; gap-closing may probe it once
\* more when its fact was not stored.
StartCount ==
    /\ stage = "ready" /\ turn \notin stored
    /\ walk' = [AtRest EXCEPT !.count = PrevCount(previous), !.cursor = previous.cursor]
    /\ stage' = "walk"
    /\ UNCHANGED <<previous, fact, historyVars, chainVars>>

(***************************************************************************)
(* One iteration of countEvents: a page, or an exception of this.graphql.  *)
(* A cursor in the pruned part is refused; any other fetch may fail too.   *)
(* Either failure ends the walk with what was counted so far.              *)
(***************************************************************************)
From(cursor) == IF cursor > floor THEN cursor ELSE floor

\* Defect: every page is taken for a full one (TypeOK).
NodesFull(cursor) == PageSize

Nodes(cursor) ==
    IF emitted - From(cursor) < PageSize THEN emitted - From(cursor) ELSE PageSize

\* Defect: the page limit is off by one (CappedIsHonest).
HitsCapBeyond(nodes) == nodes > MaxPages * PageSize

HitsCap(nodes) == nodes >= MaxPages * PageSize

FetchPage ==
    LET n == Nodes(walk.cursor)
        last == From(walk.cursor) + n = emitted
        out == walk.pages + 1 = MaxPages
    IN  /\ stage = "walk"
        /\ walk.cursor = Null \/ walk.cursor >= floor
        /\ walk' = [count |-> walk.count + n,
                    cursor |-> IF n > 0 THEN From(walk.cursor) + n ELSE walk.cursor,
                    nodes |-> walk.nodes + n,
                    pages |-> walk.pages + 1,
                    capped |-> ~last /\ out /\ HitsCap(walk.nodes + n)]
        /\ stage' = IF last \/ out THEN "counted" ELSE "walk"
        /\ UNCHANGED <<previous, fact, historyVars, chainVars>>

\* Defect: a refused cursor starts the module over from what the indexer still
\* has, and the cumulative count is lost (PublishedNeverFalls).
FetchFailsRewalks ==
    /\ stage = "walk"
    /\ IF walk.pages = 0 /\ walk.cursor # Null /\ walk.cursor < floor
       THEN walk' = AtRest /\ UNCHANGED stage
       ELSE walk' = [walk EXCEPT !.capped = TRUE] /\ stage' = "counted"
    /\ UNCHANGED <<previous, fact, historyVars, chainVars>>

FetchFails ==
    /\ stage = "walk"
    /\ walk' = [walk EXCEPT !.capped = TRUE]
    /\ stage' = "counted"
    /\ UNCHANGED <<previous, fact, historyVars, chainVars>>

(***************************************************************************)
(* The rest of the capture.  The count is lost when another probe of the   *)
(* package throws or its fact is in the tail that no checkpoint stores.    *)
(* The snapshot holds the fact of this run, one carried forward, or none.  *)
(***************************************************************************)
StoreFact ==
    /\ stage = "counted"
    /\ AddFact
    /\ fact' = [fact EXCEPT ![turn] = [events |-> walk.count, cursor |-> walk.cursor,
                                       capped |-> walk.capped]]
    /\ stage' = "ready"
    /\ walk' = AtRest
    /\ UNCHANGED <<previous, chainVars>>

Skip ==
    /\ stage = "counted"
    /\ stage' = "ready"
    /\ walk' = AtRest
    /\ UNCHANGED <<previous, fact, historyVars, chainVars>>

PublishSnapshot ==
    /\ stage = "ready"
    /\ ShowFact(turn)
    /\ stage' = "over"
    /\ UNCHANGED <<previous, walk, fact, chainVars>>

Next ==
    \/ Begin \/ Drop \/ LoadPrevious \/ StartCount \/ FetchPage \/ FetchFails
    \/ StoreFact \/ Skip \/ PublishSnapshot
    \/ Emit \/ Prune

Spec == Init /\ [][Next]_vars

(***************************************************************************)
(* Properties                                                              *)
(***************************************************************************)

(***************************************************************************)
(* Every event up to the cursor of a stored fact is counted once: never    *)
(* twice, over any number of captures, failures and resumes (the doubled   *)
(* 26.3M of 2026-04-29), and left out only when it was pruned before a     *)
(* walk could see it.                                                      *)
(***************************************************************************)
CountsEachOnce ==
    \A r \in stored \ {Before} :
        fact[r].events \in (fact[r].cursor - floor) .. fact[r].cursor

(***************************************************************************)
(* A walk that ends without the capped flag has reached the newest event,  *)
(* at the page limit too; one that did not says so.                        *)
(***************************************************************************)
CappedIsHonest ==
    [][stage = "walk" /\ stage' = "counted" /\ ~walk'.capped =>
          walk'.cursor = emitted \/ (walk'.cursor = Null /\ floor = emitted)]_vars

(***************************************************************************)
(* From one published snapshot to the next the count of a module never     *)
(* falls ("a published count can never fall below one already observed"),  *)
(* whatever was pruned, refused, resumed, dropped or left about in         *)
(* between.                                                                *)
(***************************************************************************)
PublishedNeverFalls ==
    \A q, r \in DOMAIN shown :
        /\ q < r
        /\ shown[q] # NoFact /\ shown[r] # NoFact
        => fact[shown[q]].events <= fact[shown[r]].events

================================================================================
