---------------------------- MODULE EventCountProofs ---------------------------
(***************************************************************************)
(* Proofs about EventCount: for any number of captures and events, any     *)
(* page size and page limit, every event is counted once, a walk that says *)
(* it reached the newest event did, and a published count never falls.     *)
(***************************************************************************)
EXTENDS EventCount, TLAPS

(***************************************************************************)
(* The counting invariant.  Between two pages a walk is below its page     *)
(* limit and all its pages were full; a pair (events, cursor), stored,     *)
(* read or being counted, has one event for each up to the cursor but for  *)
(* some of the pruned ones.  The fact without cursor never gets one.       *)
(***************************************************************************)
Once(n, c) == n \in (c - floor) .. c

FullPages ==
    stage = "walk" => walk.pages < MaxPages /\ walk.nodes = walk.pages * PageSize

CountInv ==
    /\ TypeOK
    /\ FullPages
    /\ stage \in {"walk", "counted"} => Once(walk.count, walk.cursor)
    /\ previous.cursor = Null \/ Once(previous.events, previous.cursor)
    /\ CountsEachOnce
    /\ fact[Before].cursor = Null

(***************************************************************************)
(* The order invariant.  Later runs have higher counts.  What a run goes   *)
(* on from, and so what it counts, is not below any fact of an older run,  *)
(* the ones that no snapshot holds included.  A snapshot shows a fact that *)
(* is stored, and a later one a later fact.                                *)
(***************************************************************************)
Own == stored \ {Before}

Rising == \A q, r \in Own : q < r => fact[q].events <= fact[r].events

Above(n) == \A q \in Own : q < turn => fact[q].events <= n

OrderInv ==
    /\ Own \subseteq 1 .. turn
    /\ stage # "over" => turn > 0
    /\ Rising
    /\ stage \in {"ready", "walk", "counted"} => Above(PrevCount(previous))
    /\ stage \in {"walk", "counted"} => walk.count >= PrevCount(previous)
    /\ DOMAIN shown \subseteq 1 .. turn
    /\ Published \subseteq Own
    /\ \A q, r \in DOMAIN shown :
          q < r /\ shown[q] # NoFact /\ shown[r] # NoFact => shown[q] < shown[r]

IInv == CountInv /\ OrderInv

WalkType(m) == [count : Nat, cursor : 0 .. m, nodes : Nat,
                pages : 0 .. MaxPages, capped : BOOLEAN]
FactType(m) == [events : Nat, cursor : 0 .. m, capped : BOOLEAN]

(***************************************************************************)
(* The arithmetic of full pages.                                           *)
(***************************************************************************)
LEMMA OneMorePage ==
    ASSUME NEW a \in Nat, NEW b \in Nat
    PROVE  (a + 1) * b = a * b + b
OBVIOUS

Bounds ==
    /\ emitted \in Nat /\ emitted <= MaxEvents
    /\ floor \in Nat /\ floor <= emitted

(***************************************************************************)
(* The numbers of the chain are natural numbers.                           *)
(***************************************************************************)
LEMMA BoundsHold == TypeOK => Bounds
<1> SUFFICES ASSUME TypeOK PROVE Bounds
  OBVIOUS
<1>1. emitted \in 0 .. MaxEvents /\ floor \in 0 .. emitted
  BY DEF TypeOK
<1> QED BY <1>1, EventAssumption DEF Bounds

(***************************************************************************)
(* The types, the bound of the events made explicit.                       *)
(***************************************************************************)
LEMMA Typed ==
    ASSUME TypeOK
    PROVE  /\ previous \in FactType(emitted) /\ walk \in WalkType(emitted)
           /\ fact \in [Probed -> FactType(emitted)]
BY DEF TypeOK, FactType, WalkType, Facts

(***************************************************************************)
(* The initial states satisfy the invariant.                               *)
(***************************************************************************)
LEMMA InitInv == Init => IInv
<1> SUFFICES ASSUME Init PROVE IInv
  OBVIOUS
<1>1. /\ turn = 0 /\ stored \subseteq {Before} /\ DOMAIN shown = {}
      /\ emitted = 0 /\ floor = 0 /\ stage = "over"
      /\ shown \in [DOMAIN shown -> Runs \cup {NoFact}]
  BY DEF Init, HistoryInit
<1>2. TypeOK
  <2>1. AtRest \in WalkType(0) /\ Bare \in FactType(0)
    BY EventAssumption DEF AtRest, Bare, WalkType, FactType, Null
  <2>2. [Bare EXCEPT !.events = LegacyCount] \in FactType(0)
    BY <2>1, EventAssumption DEF FactType
  <2>3. fact \in [Probed -> FactType(0)] /\ walk \in WalkType(0) /\ previous \in FactType(0)
    BY <2>1, <2>2 DEF Init
  <2> QED BY <1>1, <2>3, EventAssumption DEF TypeOK, WalkType, FactType, Facts, Probed
<1>3. Own = {} /\ Published = {}
  BY <1>1 DEF Own, Published
<1>4. CountInv
  BY <1>1, <1>2, <1>3
  DEF CountInv, FullPages, CountsEachOnce, Own, Init, Bare, Probed, Before, Runs, Null
<1>5. OrderInv
  BY <1>1, <1>3 DEF OrderInv, Rising
<1> QED BY <1>4, <1>5 DEF IInv

(***************************************************************************)
(* Pruning only widens what a count may leave out.                         *)
(***************************************************************************)
LEMMA LowerBound ==
    ASSUME NEW f \in Int, NEW g \in Int, f <= g
    PROVE  \A n, c \in Int : n \in (c - f) .. c => n \in (c - g) .. c
OBVIOUS

(***************************************************************************)
(* The chain grows, or its indexer prunes.                                 *)
(***************************************************************************)
LEMMA ChainStep == IInv /\ (Emit \/ Prune) => IInv'
<1> SUFFICES ASSUME IInv, Emit \/ Prune PROVE IInv'
  OBVIOUS
<1>0. TypeOK /\ CountInv /\ OrderInv
  BY DEF IInv, CountInv
<1>1. /\ Bounds /\ emitted' \in 0 .. MaxEvents /\ floor' \in 0 .. emitted'
      /\ emitted <= emitted' /\ floor <= floor' /\ emitted' \in Nat /\ floor' \in Nat
  BY <1>0, BoundsHold, EventAssumption DEF Emit, Prune, Bounds
<1>2. UNCHANGED <<historyVars, countVars>>
  BY DEF Emit, Prune
<1>3. UNCHANGED <<turn, stored, shown, stage, previous, walk, fact>>
  BY <1>2 DEF historyVars, countVars
<1>4. \A c \in 0 .. emitted : c \in 0 .. emitted'
  BY <1>1 DEF Bounds
<1>5. /\ previous \in FactType(emitted') /\ walk \in WalkType(emitted')
      /\ fact \in [Probed -> FactType(emitted')]
  <2>1. \A q \in Probed : fact[q] \in FactType(emitted')
    BY <1>0, <1>4, Typed DEF FactType
  <2>2. fact \in [Probed -> FactType(emitted')]
    BY <2>1, <1>0 DEF TypeOK
  <2> QED BY <1>0, <1>4, <2>2, Typed DEF FactType, WalkType
<1>6. TypeOK'
  BY <1>0, <1>1, <1>3, <1>5 DEF TypeOK, WalkType, FactType, Facts
<1>7. \A n, c \in Int : Once(n, c) => Once(n, c)'
  <2>1. floor \in Int /\ floor' \in Int /\ floor <= floor'
    BY <1>1 DEF Bounds
  <2> QED BY <2>1, LowerBound DEF Once
<1>8. CountsEachOnce'
  <2> SUFFICES ASSUME NEW r \in stored \ {Before}
               PROVE  Once(fact[r].events, fact[r].cursor)'
    BY <1>3 DEF CountsEachOnce, Once
  <2>1. fact[r] \in FactType(emitted)
    BY <1>0, Typed DEF TypeOK
  <2>2. Once(fact[r].events, fact[r].cursor)
    BY <1>0 DEF CountInv, CountsEachOnce, Once
  <2>3. fact[r].events \in Int /\ fact[r].cursor \in Int
    BY <2>1, <1>1 DEF FactType, Bounds
  <2> QED BY <2>2, <2>3, <1>3, <1>7 DEF Once
<1>9. CountInv'
  <2>1. /\ walk.count \in Int /\ walk.cursor \in Int
        /\ previous.events \in Int /\ previous.cursor \in Int
    BY <1>0, <1>1, Typed DEF FactType, WalkType, Bounds
  <2>2. Once(walk.count, walk.cursor) => Once(walk.count, walk.cursor)'
    BY <1>3, <1>7, <2>1 DEF Once
  <2>3. Once(previous.events, previous.cursor) => Once(previous.events, previous.cursor)'
    BY <1>3, <1>7, <2>1 DEF Once
  <2> QED BY <1>0, <1>3, <1>6, <1>8, <2>2, <2>3 DEF CountInv, FullPages
<1>10. OrderInv'
  BY <1>0, <1>3 DEF OrderInv, Own, Rising, Above, PrevCount, Published
<1> QED BY <1>9, <1>10 DEF IInv

(***************************************************************************)
(* The detection: a run begins, drops facts that no snapshot holds, and    *)
(* reads the newest of the rest.                                           *)
(***************************************************************************)
LEMMA BeginStep == IInv /\ Begin => IInv'
<1> SUFFICES ASSUME IInv, Begin PROVE IInv'
  OBVIOUS
<1>0. TypeOK /\ CountInv /\ OrderInv
  BY DEF IInv, CountInv
<1>1. /\ turn < MaxRuns /\ turn' = turn + 1 /\ stage' = "detect" /\ previous' = Bare
      /\ walk' = AtRest /\ UNCHANGED <<stored, shown, fact, emitted, floor>>
  BY DEF Begin, BeginRun, chainVars
<1>2. turn \in Nat /\ turn' \in 0 .. MaxRuns /\ turn' > 0 /\ 1 .. turn \subseteq 1 .. turn'
  BY <1>0, <1>1, EventAssumption DEF TypeOK
<1>3. Bare \in FactType(emitted) /\ AtRest \in WalkType(emitted)
  BY <1>0, BoundsHold, EventAssumption DEF AtRest, Bare, WalkType, FactType, Null, Bounds
<1>4. TypeOK'
  BY <1>0, <1>1, <1>2, <1>3 DEF TypeOK, WalkType, FactType, Facts
<1>5. CountInv'
  BY <1>0, <1>1, <1>4 DEF CountInv, FullPages, CountsEachOnce, Bare, Once
<1>6. OrderInv'
  BY <1>0, <1>1, <1>2 DEF OrderInv, Own, Rising, Published
<1> QED BY <1>5, <1>6 DEF IInv

(***************************************************************************)
(* What is published, and the fact without cursor, are not dropped.        *)
(***************************************************************************)
LEMMA DropStep == IInv /\ Drop => IInv'
<1> SUFFICES ASSUME IInv, Drop PROVE IInv'
  OBVIOUS
<1>0. TypeOK /\ CountInv /\ OrderInv
  BY DEF IInv, CountInv
<1>1. /\ stored' \subseteq stored /\ Published \subseteq stored' /\ stage = "detect"
      /\ UNCHANGED <<turn, shown, stage, previous, walk, fact, emitted, floor>>
  BY DEF Drop, DropFacts, chainVars, countVars
<1>2. TypeOK'
  BY <1>0, <1>1 DEF TypeOK, Facts
<1>3. CountInv'
  BY <1>0, <1>1, <1>2 DEF CountInv, FullPages, CountsEachOnce, Once
<1>4. Own' \subseteq Own /\ Published' = Published /\ Published \subseteq Own'
  BY <1>0, <1>1 DEF Own, Published, OrderInv
<1>5. OrderInv'
  BY <1>0, <1>1, <1>4 DEF OrderInv, Rising
<1> QED BY <1>3, <1>5 DEF IInv

(***************************************************************************)
(* The newest fact has the highest count, and without a cursor that is 0.  *)
(***************************************************************************)
LEMMA LoadPreviousStep == IInv /\ LoadPrevious => IInv'
<1> SUFFICES ASSUME IInv, LoadPrevious PROVE IInv'
  OBVIOUS
<1>0. TypeOK /\ CountInv /\ OrderInv
  BY DEF IInv, CountInv
<1>1. /\ stage = "detect" /\ stage' = "ready"
      /\ UNCHANGED <<turn, stored, shown, walk, fact, emitted, floor>>
      /\ previous' \in IF stored = {} THEN {Bare} ELSE {fact[n] : n \in Newest}
  BY DEF LoadPrevious, historyVars, chainVars
<1>2. CASE stored = {}
  <2>1. previous' = Bare /\ Own = {}
    BY <1>1, <1>2 DEF Own
  <2>2. Bare \in FactType(emitted)
    BY <1>0, BoundsHold DEF Bare, FactType, Null, Bounds
  <2>3. TypeOK'
    BY <1>0, <1>1, <2>1, <2>2 DEF TypeOK, FactType, Facts
  <2>4. CountInv'
    BY <1>0, <1>1, <2>1, <2>3 DEF CountInv, FullPages, CountsEachOnce, Bare
  <2>5. OrderInv'
    BY <1>0, <1>1, <2>1 DEF OrderInv, Own, Rising, Published, Above
  <2> QED BY <2>4, <2>5 DEF IInv
<1>3. CASE stored # {}
  <2>1. PICK n \in Newest : previous' = fact[n]
    BY <1>1, <1>3
  <2>2. n \in stored /\ \A p \in stored : p <= n
    BY DEF Newest
  <2>3. fact[n] \in FactType(emitted)
    BY <1>0, <2>2, Typed DEF TypeOK
  <2>4. TypeOK'
    BY <1>0, <1>1, <2>1, <2>3 DEF TypeOK, FactType, Facts
  <2>5. previous'.cursor = Null \/ Once(previous'.events, previous'.cursor)
    BY <1>0, <2>1, <2>2 DEF CountInv, CountsEachOnce, Once
  <2>6. CountInv'
    BY <1>0, <1>1, <2>4, <2>5 DEF CountInv, FullPages, CountsEachOnce, Once
  <2>7. Above(PrevCount(previous'))
    <3> SUFFICES ASSUME NEW q \in Own, q < turn
                 PROVE  fact[q].events <= PrevCount(fact[n])
      BY <2>1 DEF Above
    <3>1. q \in 1 .. turn /\ q <= n /\ n # Before /\ n \in 1 .. turn
      <4>1. q \in 1 .. turn /\ q <= n
        BY <1>0, <2>2 DEF OrderInv, Own
      <4>2. n # Before
        BY <4>1 DEF Before
      <4> QED BY <4>1, <4>2, <2>2, <1>0 DEF OrderInv, Own
    <3>2. fact[q].events <= fact[n].events /\ fact[q].events \in Nat
      <4>1. n \in Own
        BY <3>1, <2>2 DEF Own
      <4>2. fact[q] \in FactType(emitted)
        BY <1>0, Typed DEF TypeOK, Own
      <4>3. CASE q = n
        BY <4>2, <4>3 DEF FactType
      <4>4. CASE q # n
        <5>1. q < n
          BY <3>1, <4>4
        <5> QED BY <4>1, <4>2, <5>1, <1>0 DEF FactType, OrderInv, Rising
      <4> QED BY <4>3, <4>4
    <3>3. CASE fact[n].cursor = Null
      <4>1. fact[n].events \in (fact[n].cursor - floor) .. fact[n].cursor
        BY <1>0, <2>2, <3>1 DEF CountInv, CountsEachOnce
      <4>2. fact[n].events \in Nat /\ floor \in Nat
        BY <1>0, <2>3, BoundsHold DEF FactType, Bounds
      <4> QED BY <3>2, <3>3, <4>1, <4>2 DEF PrevCount, Null
    <3>4. CASE fact[n].cursor # Null
      BY <3>2, <3>4 DEF PrevCount
    <3> QED BY <3>3, <3>4
  <2>8. OrderInv'
    <3>1. (Above(PrevCount(previous)))'
      BY <1>1, <2>7 DEF Above, Own, PrevCount
    <3> QED BY <1>0, <1>1, <3>1 DEF OrderInv, Own, Rising, Published
  <2> QED BY <2>6, <2>8 DEF IInv
<1> QED BY <1>2, <1>3

(***************************************************************************)
(* What a run goes on from is well-typed and counts each event once.       *)
(***************************************************************************)
LEMMA PreviousCounts ==
    ASSUME CountInv
    PROVE  PrevCount(previous) \in Nat /\ Once(PrevCount(previous), previous.cursor)
<1>1. previous \in FactType(emitted) /\ floor \in Nat
  BY Typed, BoundsHold DEF CountInv, Bounds
<1>2. previous.cursor = Null \/ Once(previous.events, previous.cursor)
  BY DEF CountInv
<1> QED BY <1>1, <1>2 DEF FactType, PrevCount, Null, Once

(***************************************************************************)
(* A step of the walk: count, cursor and pages move, never below what the  *)
(* walk went on from, and nothing that is stored changes.                  *)
(***************************************************************************)
LEMMA WalkStep ==
    ASSUME IInv, stage \in {"ready", "walk", "counted"},
           NEW to \in {"ready", "walk", "counted"}, stage' = to,
           NEW w \in WalkType(emitted), walk' = w,
           UNCHANGED <<historyVars, previous, fact, chainVars>>,
           to = "walk" => w.pages < MaxPages /\ w.nodes = w.pages * PageSize,
           to # "ready" => Once(w.count, w.cursor) /\ w.count >= PrevCount(previous)
    PROVE  IInv'
<1>0. TypeOK /\ CountInv /\ OrderInv
  BY DEF IInv, CountInv
<1>1. UNCHANGED <<turn, stored, shown, previous, fact, emitted, floor>>
  BY DEF historyVars, chainVars
<1>2. TypeOK'
  BY <1>0, <1>1 DEF TypeOK, WalkType, Facts
<1>3. CountInv'
  BY <1>0, <1>1, <1>2 DEF CountInv, FullPages, CountsEachOnce, Once
<1>4. OrderInv'
  BY <1>0, <1>1 DEF OrderInv, Own, Rising, Published, Above, PrevCount
<1> QED BY <1>3, <1>4 DEF IInv

(***************************************************************************)
(* A walk starts where the previous one ended.                             *)
(***************************************************************************)
LEMMA StartCountStep == IInv /\ StartCount => IInv'
<1> SUFFICES ASSUME IInv, StartCount PROVE IInv'
  OBVIOUS
<1>0. TypeOK /\ CountInv /\ OrderInv
  BY DEF IInv, CountInv
<1> DEFINE w == [AtRest EXCEPT !.count = PrevCount(previous), !.cursor = previous.cursor]
<1>1. PrevCount(previous) \in Nat /\ Once(PrevCount(previous), previous.cursor)
  BY <1>0, PreviousCounts
<1>2. previous.cursor \in 0 .. emitted /\ emitted \in Nat
  BY <1>0, Typed, BoundsHold DEF FactType, Bounds
<1>3. /\ w \in WalkType(emitted) /\ w.count = PrevCount(previous)
      /\ w.cursor = previous.cursor /\ w.nodes = 0 /\ w.pages = 0
  <2>1. AtRest \in WalkType(emitted) /\ AtRest.nodes = 0 /\ AtRest.pages = 0
    BY <1>2, EventAssumption DEF AtRest, WalkType, Null
  <2> QED BY <1>1, <1>2, <2>1 DEF WalkType
<1>4. 0 < MaxPages /\ 0 = 0 * PageSize
  BY EventAssumption
<1>5. /\ stage = "ready" /\ stage' = "walk" /\ walk' = w
      /\ UNCHANGED <<historyVars, previous, fact, chainVars>>
  BY DEF StartCount
<1>6. w.count >= PrevCount(previous)
  BY <1>1, <1>3
<1> HIDE DEF w
<1> QED BY <1>1, <1>3, <1>4, <1>5, <1>6, WalkStep

(***************************************************************************)
(* A page starts after the cursor or after the pruned part, and ends at    *)
(* the newest event or is full.                                            *)
(***************************************************************************)
LEMMA PageBounds ==
    ASSUME TypeOK, NEW c \in 0 .. emitted
    PROVE  /\ From(c) \in 0 .. emitted /\ Nodes(c) \in Nat
           /\ From(c) + Nodes(c) \in 0 .. emitted
           /\ (From(c) = c /\ c >= floor) \/ (From(c) = floor /\ floor >= c)
           /\ From(c) + Nodes(c) = emitted \/ Nodes(c) = PageSize
<1>1. /\ emitted \in Nat /\ floor \in Nat /\ floor <= emitted
      /\ PageSize \in Nat \ {0} /\ c \in Nat /\ c <= emitted
  BY BoundsHold, EventAssumption DEF Bounds
<1>2. /\ From(c) \in 0 .. emitted
      /\ (From(c) = c /\ c >= floor) \/ (From(c) = floor /\ floor >= c)
  BY <1>1 DEF From
<1> QED BY <1>1, <1>2 DEF Nodes

(***************************************************************************)
(* A page adds as many events to the count as it moves the cursor on.  One *)
(* without cursor starts at the pruned part, so what it misses is pruned.  *)
(***************************************************************************)
LEMMA FetchPageStep == IInv /\ FetchPage => IInv'
<1> SUFFICES ASSUME IInv, FetchPage PROVE IInv'
  OBVIOUS
<1>0. TypeOK /\ CountInv /\ OrderInv
  BY DEF IInv, CountInv
<1> DEFINE n == Nodes(walk.cursor)
           last == From(walk.cursor) + n = emitted
           out == walk.pages + 1 = MaxPages
           v == [count |-> walk.count + n,
                 cursor |-> IF n > 0 THEN From(walk.cursor) + n ELSE walk.cursor,
                 nodes |-> walk.nodes + n,
                 pages |-> walk.pages + 1,
                 capped |-> ~last /\ out /\ HitsCap(walk.nodes + n)]
           to == IF last \/ out THEN "counted" ELSE "walk"
<1>1. /\ walk \in WalkType(emitted) /\ stage = "walk"
      /\ walk.cursor = Null \/ walk.cursor >= floor
      /\ Once(walk.count, walk.cursor) /\ walk.count >= PrevCount(previous)
      /\ walk.pages < MaxPages /\ walk.nodes = walk.pages * PageSize
  BY <1>0, Typed DEF CountInv, FetchPage, FullPages, OrderInv
<1>2. /\ From(walk.cursor) \in 0 .. emitted /\ n \in Nat
      /\ From(walk.cursor) + n \in 0 .. emitted
      /\ (From(walk.cursor) = walk.cursor /\ walk.cursor >= floor)
            \/ (From(walk.cursor) = floor /\ floor >= walk.cursor)
      /\ last \/ n = PageSize
  BY <1>0, <1>1, PageBounds DEF WalkType
<1>3. /\ walk.pages \in Nat /\ walk.nodes \in Nat /\ walk.count \in Nat
      /\ walk.cursor \in 0 .. emitted /\ PrevCount(previous) \in Nat
      /\ MaxPages \in Nat /\ PageSize \in Nat /\ emitted \in Nat /\ floor \in Nat
  BY <1>0, <1>1, BoundsHold, PreviousCounts, EventAssumption DEF WalkType, Bounds
<1>4. v \in WalkType(emitted)
  <2>1. v.count \in Nat /\ v.nodes \in Nat /\ v.cursor \in 0 .. emitted
    BY <1>2, <1>3
  <2>2. v.pages \in 0 .. MaxPages
    BY <1>1, <1>3
  <2> QED BY <2>1, <2>2 DEF WalkType
<1>5. to = "walk" => v.pages < MaxPages /\ v.nodes = v.pages * PageSize
  <2> SUFFICES ASSUME ~last, ~out PROVE walk.pages + 1 < MaxPages
                                        /\ walk.nodes + n = (walk.pages + 1) * PageSize
    OBVIOUS
  <2>1. walk.pages + 1 < MaxPages
    BY <1>1, <1>3
  <2>2. n = PageSize
    BY <1>2
  <2>3. (walk.pages + 1) * PageSize = walk.pages * PageSize + PageSize
    BY <1>3, OneMorePage
  <2> QED BY <2>1, <2>2, <2>3, <1>1
<1>6. Once(v.count, v.cursor) /\ v.count >= PrevCount(previous)
  <2>0. walk.count \in (walk.cursor - floor) .. walk.cursor
    BY <1>1 DEF Once
  <2>1. CASE n = 0
    BY <2>0, <2>1, <1>1, <1>3 DEF Once
  <2>2. CASE n > 0 /\ From(walk.cursor) = walk.cursor
    BY <2>0, <2>2, <1>1, <1>2, <1>3 DEF Once
  <2>3. CASE n > 0 /\ From(walk.cursor) = floor /\ walk.cursor = Null
    BY <2>0, <2>3, <1>1, <1>2, <1>3 DEF Null, Once
  <2>4. CASE n > 0 /\ From(walk.cursor) = floor /\ walk.cursor = floor
    BY <2>0, <2>4, <1>1, <1>2, <1>3 DEF Once
  <2> QED BY <2>1, <2>2, <2>3, <2>4, <1>1, <1>2, <1>3
<1>7. /\ walk' = v /\ stage' = to
      /\ UNCHANGED <<historyVars, previous, fact, chainVars>>
  BY DEF FetchPage
<1>8. to \in {"counted", "walk"}
  OBVIOUS
<1> HIDE DEF v, to
<1> QED BY <1>1, <1>4, <1>5, <1>6, <1>7, <1>8, WalkStep

(***************************************************************************)
(* A failed fetch leaves count and cursor as they are.                     *)
(***************************************************************************)
LEMMA FetchFailsStep == IInv /\ FetchFails => IInv'
<1> SUFFICES ASSUME IInv, FetchFails PROVE IInv'
  OBVIOUS
<1>0. TypeOK /\ CountInv /\ OrderInv
  BY DEF IInv, CountInv
<1> DEFINE w == [walk EXCEPT !.capped = TRUE]
<1>1. /\ walk' = w /\ stage' = "counted" /\ stage = "walk"
      /\ UNCHANGED <<historyVars, previous, fact, chainVars>>
  BY DEF FetchFails
<1>2. walk \in WalkType(emitted)
  BY <1>0, Typed
<1>3. w \in WalkType(emitted) /\ w.count = walk.count /\ w.cursor = walk.cursor
  BY <1>2 DEF WalkType
<1>4. Once(w.count, w.cursor) /\ w.count >= PrevCount(previous)
  BY <1>0, <1>1, <1>3 DEF CountInv, OrderInv
<1> HIDE DEF w
<1> QED BY <1>1, <1>3, <1>4, WalkStep

(***************************************************************************)
(* A count that is lost changes nothing else.                              *)
(***************************************************************************)
LEMMA SkipStep == IInv /\ Skip => IInv'
<1> SUFFICES ASSUME IInv, Skip PROVE IInv'
  OBVIOUS
<1>1. AtRest \in WalkType(emitted)
  BY BoundsHold, EventAssumption DEF IInv, CountInv, AtRest, WalkType, Null, Bounds
<1>2. /\ walk' = AtRest /\ stage' = "ready" /\ stage = "counted"
      /\ UNCHANGED <<historyVars, previous, fact, chainVars>>
  BY DEF Skip
<1> QED BY <1>1, <1>2, WalkStep

(***************************************************************************)
(* The stored pair is the pair of the walk; it is the newest and highest.  *)
(***************************************************************************)
LEMMA StoreFactStep == IInv /\ StoreFact => IInv'
<1> SUFFICES ASSUME IInv, StoreFact PROVE IInv'
  OBVIOUS
<1>0. TypeOK /\ CountInv /\ OrderInv
  BY DEF IInv, CountInv
<1> DEFINE f == [events |-> walk.count, cursor |-> walk.cursor, capped |-> walk.capped]
<1>1. /\ stage = "counted" /\ stage' = "ready" /\ turn > 0 /\ turn \notin stored
      /\ stored' = stored \cup {turn} /\ fact' = [fact EXCEPT ![turn] = f]
      /\ walk' = AtRest /\ UNCHANGED <<turn, shown, previous, emitted, floor>>
  BY DEF StoreFact, AddFact, chainVars
<1>2. AtRest \in WalkType(emitted) /\ f \in FactType(emitted) /\ walk \in WalkType(emitted)
  <2>1. AtRest \in WalkType(emitted)
    BY <1>0, BoundsHold, EventAssumption DEF AtRest, WalkType, Null, Bounds
  <2>2. walk \in WalkType(emitted)
    BY <1>0, Typed
  <2> QED BY <2>1, <2>2 DEF WalkType, FactType
<1>3. turn \in Runs /\ turn \in Probed /\ turn # Before
  BY <1>0, <1>1, EventAssumption DEF TypeOK, Runs, Probed, Before
<1>4. \A q \in Probed : fact'[q] = IF q = turn THEN f ELSE fact[q]
  BY <1>0, <1>1 DEF TypeOK
<1>5. TypeOK'
  <2>1. fact' \in [Probed -> FactType(emitted)]
    <3> HIDE DEF f
    <3> QED BY <1>0, <1>1, <1>2, Typed
  <2>2. stored' \subseteq Probed
    BY <1>0, <1>1, <1>3 DEF TypeOK
  <2> QED BY <1>0, <1>1, <1>2, <2>1, <2>2 DEF TypeOK, WalkType, FactType, Facts
<1>6. Once(walk.count, walk.cursor) /\ walk.count >= PrevCount(previous)
  BY <1>0, <1>1 DEF CountInv, OrderInv
<1>7. CountsEachOnce'
  <2> SUFFICES ASSUME NEW r \in stored' \ {Before}
               PROVE  Once(fact'[r].events, fact'[r].cursor)
    BY <1>1 DEF CountsEachOnce, Once
  <2>1. r \in Probed
    BY <1>5 DEF TypeOK
  <2>2. CASE r = turn
    BY <2>1, <2>2, <1>4, <1>6
  <2>3. CASE r # turn
    BY <2>1, <2>3, <1>0, <1>1, <1>4 DEF CountInv, CountsEachOnce, Once
  <2> QED BY <2>2, <2>3
<1>8. CountInv'
  <2>1. fact'[Before] = fact[Before]
    BY <1>3, <1>4 DEF Probed
  <2> QED BY <1>0, <1>1, <1>5, <1>7, <2>1 DEF CountInv, FullPages, Once
<1>9. Own' = Own \cup {turn} /\ Own \subseteq 1 .. turn /\ turn \notin Own /\ turn \in Nat
  BY <1>0, <1>1, <1>3, EventAssumption DEF Own, OrderInv, Runs
<1>10. \A q \in Own : fact'[q] = fact[q] /\ q < turn /\ q \in Nat
                      /\ fact[q].events \in Nat
  <2> SUFFICES ASSUME NEW q \in Own
               PROVE  fact'[q] = fact[q] /\ q < turn /\ q \in Nat /\ fact[q].events \in Nat
    OBVIOUS
  <2>1. q \in Probed /\ q # turn /\ q \in 1 .. turn
    BY <1>0, <1>1, <1>9 DEF Own, TypeOK
  <2>2. fact[q] \in FactType(emitted)
    BY <2>1, <1>0, Typed
  <2> QED BY <2>1, <2>2, <1>4, <1>9 DEF FactType
<1>11. fact'[turn].events = walk.count /\ walk.count \in Nat /\ PrevCount(previous) \in Nat
  BY <1>0, <1>2, <1>3, <1>4, PreviousCounts DEF WalkType
<1>12. Rising'
  <2> SUFFICES ASSUME NEW q \in Own', NEW r \in Own', q < r
               PROVE  fact'[q].events <= fact'[r].events
    BY DEF Rising
  <2>1. q \in Own
    BY <1>9, <1>10
  <2>2. CASE r = turn
    <3>1. fact[q].events <= PrevCount(previous)
      BY <2>1, <1>0, <1>1, <1>10 DEF OrderInv, Above
    <3> QED BY <2>1, <2>2, <3>1, <1>6, <1>10, <1>11
  <2>3. CASE r # turn
    BY <2>1, <2>3, <1>0, <1>9, <1>10 DEF OrderInv, Rising
  <2> QED BY <2>2, <2>3
<1>13. (Above(PrevCount(previous)))'
  BY <1>0, <1>1, <1>9, <1>10 DEF OrderInv, Above, PrevCount
<1>14. OrderInv'
  BY <1>0, <1>1, <1>9, <1>12, <1>13 DEF OrderInv, Published
<1> QED BY <1>8, <1>14 DEF IInv

(***************************************************************************)
(* A snapshot that shows a fact shows a newer one than all before it.      *)
(***************************************************************************)
LEMMA PublishStep == IInv /\ PublishSnapshot => IInv'
<1> SUFFICES ASSUME IInv, PublishSnapshot PROVE IInv'
  OBVIOUS
<1>0. TypeOK /\ CountInv /\ OrderInv
  BY DEF IInv, CountInv
<1>1. /\ stage = "ready" /\ stage' = "over" /\ turn \notin DOMAIN shown
      /\ UNCHANGED <<turn, stored, previous, walk, fact, emitted, floor>>
  BY DEF PublishSnapshot, ShowFact, chainVars
<1>2. PICK w \in Own \cup {NoFact} :
        /\ w # NoFact => \A q \in Published : q < w
        /\ shown' = [j \in DOMAIN shown \cup {turn} |-> IF j = turn THEN w ELSE shown[j]]
  BY DEF PublishSnapshot, ShowFact, Own
<1>3. turn \in 1 .. MaxRuns /\ turn \in 1 .. turn /\ turn \in Runs
  BY <1>0, <1>1, EventAssumption DEF TypeOK, OrderInv, Runs
<1>4. /\ DOMAIN shown' = DOMAIN shown \cup {turn} /\ shown'[turn] = w
      /\ \A j \in DOMAIN shown : shown'[j] = shown[j]
  BY <1>1, <1>2
<1>5. Own \subseteq Runs
  BY <1>0 DEF TypeOK, Own, Probed
<1>6. TypeOK'
  BY <1>0, <1>1, <1>2, <1>3, <1>5 DEF TypeOK, Facts
<1>7. CountInv'
  BY <1>0, <1>1, <1>6 DEF CountInv, FullPages, CountsEachOnce, Once
<1>8. Published' \subseteq Own
  BY <1>0, <1>2, <1>4 DEF Published, OrderInv
<1>9. \A q \in DOMAIN shown : q < turn /\ (shown[q] # NoFact => shown[q] \in Published)
  <2> SUFFICES ASSUME NEW q \in DOMAIN shown PROVE q < turn
    BY DEF Published
  <2> QED BY <1>0, <1>1, <1>3 DEF OrderInv
<1>10. ASSUME NEW q \in DOMAIN shown', NEW r \in DOMAIN shown', q < r,
              shown'[q] # NoFact, shown'[r] # NoFact
       PROVE  shown'[q] < shown'[r]
  <2>1. q \in DOMAIN shown
    BY <1>10, <1>3, <1>4, <1>9, <1>0 DEF OrderInv
  <2>2. CASE r = turn
    BY <2>1, <2>2, <1>2, <1>4, <1>9, <1>10
  <2>3. CASE r # turn
    BY <2>1, <2>3, <1>0, <1>4, <1>10 DEF OrderInv
  <2> QED BY <2>2, <2>3
<1>11. OrderInv'
  <2>1. DOMAIN shown' \subseteq 1 .. turn
    BY <1>0, <1>3, <1>4 DEF OrderInv
  <2> QED BY <1>0, <1>1, <1>8, <1>10, <2>1 DEF OrderInv, Own, Rising
<1> QED BY <1>7, <1>11 DEF IInv

(***************************************************************************)
(* Every step keeps the invariant.                                         *)
(***************************************************************************)
LEMMA StepInv == IInv /\ [Next]_vars => IInv'
<1> SUFFICES ASSUME IInv, [Next]_vars PROVE IInv'
  OBVIOUS
<1>1. CASE Begin \/ Drop \/ LoadPrevious
  BY <1>1, BeginStep, DropStep, LoadPreviousStep
<1>2. CASE StartCount \/ FetchPage \/ FetchFails \/ Skip
  BY <1>2, StartCountStep, FetchPageStep, FetchFailsStep, SkipStep
<1>3. CASE StoreFact \/ PublishSnapshot
  BY <1>3, StoreFactStep, PublishStep
<1>4. CASE Emit \/ Prune
  BY <1>4, ChainStep
<1>5. CASE UNCHANGED vars
  BY <1>5
  DEF vars, historyVars, chainVars, countVars, IInv, CountInv, TypeOK, FullPages,
      CountsEachOnce, Once, OrderInv, Own, Rising, Above, PrevCount, Published, Facts
<1> QED BY <1>1, <1>2, <1>3, <1>4, <1>5 DEF Next

(***************************************************************************)
(* The invariant holds in every reachable state.                           *)
(***************************************************************************)
THEOREM CountInvariant == Spec => []IInv
<1>1. Init => IInv
  BY InitInv
<1>2. IInv /\ [Next]_vars => IInv'
  BY StepInv
<1> QED BY <1>1, <1>2, PTL DEF Spec

(***************************************************************************)
(* Every variable keeps its type: no count is negative, no cursor points   *)
(* past the newest event, no walk fetches more than MaxPages pages.        *)
(***************************************************************************)
THEOREM TypeCorrect == Spec => []TypeOK
<1>1. IInv => TypeOK
  BY DEF IInv, CountInv
<1> QED BY <1>1, CountInvariant, PTL

(***************************************************************************)
(* Every stored count is one count for each event up to its cursor, but    *)
(* for some of the pruned ones.                                            *)
(***************************************************************************)
THEOREM CountedOnce == Spec => []CountsEachOnce
<1>1. IInv => CountsEachOnce
  BY DEF IInv, CountInv
<1> QED BY <1>1, CountInvariant, PTL

(***************************************************************************)
(* A walk that ends without the capped flag has seen the newest event: all *)
(* pages before its last were full, so at the page limit it would have set *)
(* the flag.                                                               *)
(***************************************************************************)
THEOREM CappedHonest == Spec => CappedIsHonest
<1> DEFINE A == stage = "walk" /\ stage' = "counted" /\ ~walk'.capped
                => walk'.cursor = emitted \/ (walk'.cursor = Null /\ floor = emitted)
<1>1. ASSUME IInv, [Next]_vars PROVE [A]_vars
  <2> SUFFICES ASSUME stage = "walk", stage' = "counted", ~walk'.capped, Next
               PROVE  walk'.cursor = emitted \/ (walk'.cursor = Null /\ floor = emitted)
    BY <1>1
  <2>0. TypeOK /\ CountInv /\ walk \in WalkType(emitted)
    BY <1>1, Typed DEF IInv, CountInv
  <2>1. FetchPage \/ FetchFails
    BY DEF Next, Begin, Drop, LoadPrevious, StartCount, StoreFact, Skip,
           PublishSnapshot, Emit, Prune, countVars
  <2>2. ~FetchFails
    <3>1. [walk EXCEPT !.capped = TRUE].capped = TRUE
      BY <2>0 DEF WalkType
    <3> QED BY <3>1 DEF FetchFails
  <2> DEFINE n == Nodes(walk.cursor)
             last == From(walk.cursor) + n = emitted
             out == walk.pages + 1 = MaxPages
  <2>3. /\ walk'.cursor = IF n > 0 THEN From(walk.cursor) + n ELSE walk.cursor
        /\ walk'.capped = (~last /\ out /\ HitsCap(walk.nodes + n))
        /\ last \/ out
        /\ walk.cursor = Null \/ walk.cursor >= floor
    BY <2>1, <2>2 DEF FetchPage
  <2>4. /\ From(walk.cursor) \in 0 .. emitted /\ n \in Nat
        /\ (From(walk.cursor) = walk.cursor /\ walk.cursor >= floor)
              \/ (From(walk.cursor) = floor /\ floor >= walk.cursor)
        /\ last \/ n = PageSize
    BY <2>0, PageBounds DEF WalkType
  <2>5. /\ emitted \in Nat /\ floor \in Nat /\ walk.cursor \in Nat
        /\ walk.pages \in Nat /\ walk.nodes \in Nat /\ MaxPages \in Nat /\ PageSize \in Nat
    BY <2>0, BoundsHold, EventAssumption DEF WalkType, Bounds
  <2>6. last
    <3> SUFFICES ASSUME ~last PROVE HitsCap(walk.nodes + n)
      BY <2>3
    <3>1. walk.nodes = walk.pages * PageSize /\ n = PageSize /\ MaxPages = walk.pages + 1
      BY <2>0, <2>3, <2>4 DEF CountInv, FullPages
    <3>2. (walk.pages + 1) * PageSize = walk.pages * PageSize + PageSize
      BY <2>5, OneMorePage
    <3>3. walk.nodes + n = MaxPages * PageSize /\ walk.nodes + n \in Nat
      BY <2>5, <3>1, <3>2
    <3> QED BY <3>3 DEF HitsCap
  <2> HIDE DEF n
  <2> QED BY <2>3, <2>4, <2>5, <2>6 DEF Null
<1>2. CappedIsHonest <=> [][A]_vars
  BY DEF CappedIsHonest
<1> HIDE DEF A
<1>3. IInv /\ [Next]_vars => [A]_vars
  BY <1>1
<1>4. Spec => [][A]_vars
  BY <1>3, CountInvariant, PTL DEF Spec
<1> QED BY <1>2, <1>4

(***************************************************************************)
(* From one snapshot to a later one, the published count does not fall: a  *)
(* later snapshot shows the fact of a later run, and that run went on from *)
(* the highest count there was.                                            *)
(***************************************************************************)
THEOREM NeverFalls == Spec => []PublishedNeverFalls
<1>1. IInv => PublishedNeverFalls
  <2> SUFFICES ASSUME OrderInv, NEW q \in DOMAIN shown, NEW r \in DOMAIN shown, q < r,
                      shown[q] # NoFact, shown[r] # NoFact
               PROVE  fact[shown[q]].events <= fact[shown[r]].events
    BY DEF IInv, PublishedNeverFalls
  <2>1. shown[q] \in Own /\ shown[r] \in Own /\ shown[q] < shown[r]
    BY DEF OrderInv, Published
  <2> QED BY <2>1 DEF OrderInv, Rising
<1> QED BY <1>1, CountInvariant, PTL

(***************************************************************************)
(* Counting takes place within the history of facts that MainnetCapture    *)
(* implements: seen without the counts, every behaviour is one of it.      *)
(***************************************************************************)
THEOREM CountsWithinHistory == Spec => HistorySpec
<1>1. Init => HistoryInit
  BY DEF Init
<1>2. IInv /\ [Next]_vars => [HistoryNext]_historyVars
  <2> SUFFICES ASSUME IInv, [Next]_vars PROVE HistoryNext \/ UNCHANGED historyVars
    OBVIOUS
  <2>1. CASE PublishSnapshot
    <3>1. turn \in Snapshots
      BY <2>1, EventAssumption DEF IInv, CountInv, OrderInv, TypeOK, PublishSnapshot, Runs
    <3> QED BY <2>1, <3>1 DEF PublishSnapshot, HistoryNext
  <2>2. CASE ~PublishSnapshot
    BY <2>2 DEF Next, vars, Begin, Drop, StoreFact, HistoryNext, LoadPrevious, StartCount,
                FetchPage, FetchFails, Skip, Emit, Prune
  <2> QED BY <2>1, <2>2
<1> QED BY <1>1, <1>2, CountInvariant, PTL DEF Spec, HistorySpec

================================================================================
