------------------------- MODULE MainnetCaptureProofs --------------------------
(***************************************************************************)
(* Theorems about MainnetCapture, for every number of runs and packages,   *)
(* every page size and every checkpoint interval.                          *)
(***************************************************************************)
EXTENDS MainnetCapture, FiniteSetTheorems, WellFoundedInduction, TLAPS

(***************************************************************************)
(* Type correctness.  Only the counts need a lemma: the sets they count    *)
(* are finite because Packages is.                                         *)
(***************************************************************************)
LEMMA CountsAreNat ==
    ASSUME NEW S \in SUBSET Packages
    PROVE  Cardinality(S) \in Nat
<1>1. IsFiniteSet(Packages)
  BY FS_Interval, CaptureAssumption DEF Packages
<1>2. IsFiniteSet(S)
  BY <1>1, FS_Subset
<1> QED BY <1>2, FS_CardinalityType

(***************************************************************************)
(* What a run counts when it writes a header is a number.                  *)
(***************************************************************************)
LEMMA TotalIsNat ==
    ASSUME TypeOK, NEW r \in Runs
    PROVE  Total(loc[r]) \in Nat
<1>1. loc[r].carried \ loc[r].gap \in SUBSET Packages
      /\ loc[r].probed \in SUBSET Packages /\ loc[r].gap \in SUBSET Packages
  BY DEF TypeOK
<1>2. /\ Cardinality(loc[r].carried \ loc[r].gap) \in Nat
      /\ Cardinality(loc[r].probed) \in Nat
      /\ Cardinality(loc[r].gap) \in Nat
  BY <1>1, CountsAreNat
<1> QED BY <1>2 DEF Total

(***************************************************************************)
(* Inserting facts keeps the facts in their type.                          *)
(***************************************************************************)
LEMMA InsertAsType ==
    ASSUME TypeOK, NEW i, NEW S, NEW w \in [Packages -> 0 .. MaxRuns], InsertAs(i, S, w)
    PROVE  facts' \in [Ids -> [Packages -> 0 .. MaxRuns]]
<1> SUFFICES ASSUME i \in Ids PROVE facts' \in [Ids -> [Packages -> 0 .. MaxRuns]]
  BY DEF InsertAs, TypeOK
<1>1. [k \in Packages |-> IF k \in S /\ facts[i][k] = 0 THEN w[k] ELSE facts[i][k]]
        \in [Packages -> 0 .. MaxRuns]
  BY DEF TypeOK
<1> QED BY <1>1 DEF InsertAs, TypeOK

(***************************************************************************)
(* So does inserting those that a run has probed.                          *)
(***************************************************************************)
LEMMA InsertType ==
    ASSUME TypeOK, NEW r \in Runs, NEW i, NEW S, Insert(r, i, S)
    PROVE  facts' \in [Ids -> [Packages -> 0 .. MaxRuns]]
<1>1. [k \in Packages |-> r] \in [Packages -> 0 .. MaxRuns]
  BY CaptureAssumption DEF Runs
<1> QED BY <1>1, InsertAsType DEF Insert

(***************************************************************************)
(* Every page of the walk, of either listing, is a set of packages.        *)
(***************************************************************************)
LEMMA PageType ==
    ASSUME TypeOK, NEW c \in 0 .. MaxPkg, NEW S \in SUBSET Probeable(c)
    PROVE  S \in SUBSET Packages /\ StartCursor(c) \in 0 .. MaxPkg
BY CaptureAssumption
DEF TypeOK, Probeable, Page, StartCursor, Top, Null, Packages

(***************************************************************************)
(* Each step keeps the types.  LocType is the type of a run's locals.      *)
(***************************************************************************)
LocType == [part : Ids \cup {None}, older : SUBSET Ids,
            cursor : 0 .. MaxPkg, carried : SUBSET Packages,
            probed : SUBSET Packages, flushed : SUBSET Packages,
            gap : SUBSET Packages,
            end : {"no", "wrapped", "deadline", "error"}]

(***************************************************************************)
(* A step that moves one run on, with well-typed locals, keeps pc and loc  *)
(* in their types.                                                         *)
(***************************************************************************)
LEMMA GoType ==
    ASSUME TypeOK, NEW r \in Runs, NEW stage \in Stages, NEW l \in LocType,
           Go(r, stage, l)
    PROVE  /\ pc' \in [Runs -> Stages \cup {"idle", "done", "failed"}]
           /\ loc' \in [Runs -> LocType]
BY DEF TypeOK, Go, LocType

(***************************************************************************)
(* The locals a run starts with are well-typed.                            *)
(***************************************************************************)
LEMMA BlankType == Blank \in LocType
BY CaptureAssumption DEF Blank, LocType, Null

HeaderType == [Ids -> [stage : {"absent", "partial", "complete"},
                       cursor : 0 .. MaxPkg, total : Nat]]
FactsType == [Ids -> [Packages -> 0 .. MaxRuns]]

(***************************************************************************)
(* A step of that kind keeps TypeOK when the headers and facts it writes   *)
(* are well-typed.                                                         *)
(***************************************************************************)
LEMMA GoKeepsTypes ==
    ASSUME TypeOK, NEW r \in Runs, NEW stage \in Stages, NEW l \in LocType,
           Go(r, stage, l), UNCHANGED <<head, aged, lock>>,
           header' \in HeaderType, facts' \in FactsType
    PROVE  TypeOK'
BY GoType DEF TypeOK, LocType, HeaderType, FactsType

(***************************************************************************)
(* The empty set of facts is well-typed.                                   *)
(***************************************************************************)
LEMMA NoFactsType == NoFacts \in [Packages -> 0 .. MaxRuns]
BY CaptureAssumption DEF NoFacts

(***************************************************************************)
(* A run that ends keeps pc, loc and the lock in their types.              *)
(***************************************************************************)
LEMMA EndTyped ==
    ASSUME TypeOK, NEW r \in Runs, NEW outcome \in {"done", "failed"}, End(r, outcome)
    PROVE  /\ pc' \in [Runs -> Stages \cup {"idle", "done", "failed"}]
           /\ loc' \in [Runs -> LocType]
           /\ lock' \in Runs \cup {None}
BY BlankType DEF End, Go, TypeOK, LocType

(***************************************************************************)
(* The inductive invariant.                                                *)
(*                                                                         *)
(* At most one run is live, the one that holds the lock, and the runs      *)
(* after it have not begun.  No id of a run that is idle or live has been  *)
(* published, so the ids a live run may still create are free; and what a  *)
(* live run holds in `part` is not published.  Past the detection, the     *)
(* run's partial is the only one.  Partials are newer than everything      *)
(* published, which is what makes the latest snapshot move forward.        *)
(***************************************************************************)
LockInv ==
    \A r \in Runs : Live(r) => lock = r

OrderedUse ==
    \A r, s \in Runs : r < s /\ (Live(r) \/ pc[r] = "idle") => pc[s] = "idle"

IdInv ==
    \A r \in Runs :
        /\ pc[r] = "idle" => header[<<r, "partial">>] = Absent /\ header[<<r, "fresh">>] = Absent
        /\ Live(r) => /\ header[<<r, "partial">>].stage # "complete"
                      /\ header[<<r, "fresh">>].stage = "absent"

OnlyPartials == \A i \in Partials : i[2] = "partial"

Early == {"detect", "dropOlder", "dropOlderFacts", "dropNewest", "dropNewestFacts", "resume"}

HasPart == {"dropOlder", "dropOlderFacts", "dropNewest", "dropNewestFacts", "resume",
            "ckptFacts", "gapFacts"}

PartInv ==
    \A r \in Runs : Live(r) =>
        /\ pc[r] \in HasPart => loc[r].part \in Ids
        /\ loc[r].part # None => header[loc[r].part].stage # "complete"
        /\ pc[r] = "dropOlder" => Partials \subseteq {loc[r].part} \cup loc[r].older
        /\ pc[r] \in {"dropOlder", "dropOlderFacts"} =>
              /\ loc[r].part \notin loc[r].older
              /\ \A i \in loc[r].older : header[i].stage # "complete"
        /\ pc[r] \notin {"detect", "dropOlder"} => Partials \subseteq {loc[r].part}
        /\ pc[r] \in {"dropNewestFacts", "freshFacts", "freshHeader", "gapHeader"} =>
              Partials = {}
        /\ pc[r] \in {"detect", "gapHeader"} => loc[r].part = None
        /\ pc[r] \in Early \/ loc[r].part = None => loc[r].carried = {}

NewerInv == \A i \in Partials, j \in Completes : j[1] < i[1]

CaptureInv ==
    /\ TypeOK /\ LockInv /\ OrderedUse /\ IdInv /\ OnlyPartials
    /\ PartInv /\ NewerInv

(***************************************************************************)
(* The initial states satisfy the invariant.                               *)
(***************************************************************************)
LEMMA InitInv == LeftoverInit => CaptureInv
<1> SUFFICES ASSUME LeftoverInit PROVE CaptureInv
  OBVIOUS
<1>1. TypeOK
  BY DEF LeftoverInit
<1>2. PICK n \in 0 .. MaxRuns :
        /\ pc = [r \in Runs |-> IF r <= n THEN "failed" ELSE "idle"]
        /\ \A i \in Ids : header[i] # Absent => i[1] <= n /\ Leftover(i)
  BY DEF LeftoverInit
<1>3. \A r \in Runs : ~Live(r) /\ (pc[r] = "idle" <=> n < r)
  BY <1>2, CaptureAssumption DEF Live, Stages, Runs
<1>4. Absent.stage = "absent"
  BY DEF Absent
<1>5. Completes = {} /\ \A i \in Partials : i[2] = "partial"
  BY <1>2, <1>4 DEF Partials, Completes, Leftover
<1>6. IdInv
  <2> SUFFICES ASSUME NEW r \in Runs, n < r
               PROVE  header[<<r, "partial">>] = Absent /\ header[<<r, "fresh">>] = Absent
    BY <1>3 DEF IdInv
  <2>1. <<r, "partial">> \in Ids /\ <<r, "fresh">> \in Ids /\ ~(r <= n)
    BY CaptureAssumption DEF Ids, Runs
  <2> QED BY <1>2, <2>1
<1>7. OrderedUse
  BY <1>3, CaptureAssumption DEF OrderedUse, Runs
<1> QED
  BY <1>1, <1>3, <1>5, <1>6, <1>7
  DEF CaptureInv, LockInv, OnlyPartials, PartInv, NewerInv

(***************************************************************************)
(* A clean start is one of those, with no run behind it.                   *)
(***************************************************************************)
LEMMA CleanStart == Init => LeftoverInit
<1> SUFFICES ASSUME Init PROVE LeftoverInit
  OBVIOUS
<1>1. TypeOK
  BY BlankType, CaptureAssumption
  DEF Init, TypeOK, LocType, Absent, NoFacts, Null
<1>2. 0 \in 0 .. MaxRuns /\ \A r \in Runs : ~(r <= 0)
  BY CaptureAssumption DEF Runs
<1>3. pc = [r \in Runs |-> IF r <= 0 THEN "failed" ELSE "idle"]
  BY <1>2 DEF Init
<1>4. \A i \in Ids, k \in Packages : facts[i] = NoFacts /\ facts[i][k] <= 0
  BY DEF Init, NoFacts
<1>5. \A i \in Ids : header[i] = Absent
  BY DEF Init
<1> QED BY <1>1, <1>2, <1>3, <1>4, <1>5 DEF Init, LeftoverInit

(***************************************************************************)
(* Only the run that holds the lock is live, so a step of it concerns no   *)
(* other live run.                                                         *)
(***************************************************************************)
LEMMA OnlyOneLive ==
    ASSUME CaptureInv, NEW r \in Runs, NEW s \in Runs, Live(r), Live(s)
    PROVE  r = s
BY DEF CaptureInv, LockInv

(***************************************************************************)
(* Everything published belongs to an earlier run than the live one: its   *)
(* own ids are not complete and later runs have not begun.                 *)
(***************************************************************************)
LEMMA OlderRuns ==
    ASSUME CaptureInv, NEW r \in Runs, Live(r)
    PROVE  \A j \in Completes : j[1] < r
<1> SUFFICES ASSUME NEW j \in Completes PROVE j[1] < r
  OBVIOUS
<1>1. PICK s \in Runs, x \in {"partial", "fresh"} : j = <<s, x>>
  BY DEF Completes, Ids
<1>2. s # r
  BY <1>1 DEF Completes, CaptureInv, IdInv
<1>3. ~(r < s)
  <2>1. header[j].stage = "complete" /\ Absent.stage = "absent"
    BY DEF Completes, Absent
  <2>2. pc[s] = "idle" => header[<<s, "partial">>] = Absent /\ header[<<s, "fresh">>] = Absent
    BY DEF CaptureInv, IdInv
  <2>3. pc[s] # "idle"
    BY <1>1, <2>1, <2>2
  <2> QED BY <2>3, <1>1 DEF CaptureInv, OrderedUse
<1> QED BY <1>1, <1>2, <1>3, CaptureAssumption DEF Runs

(***************************************************************************)
(* A step of a live run to another live stage that leaves the headers      *)
(* alone: what is left to show of it is PartInv for the run itself.        *)
(***************************************************************************)
PartOK(r) ==
    /\ pc[r] \in HasPart => loc[r].part \in Ids
    /\ loc[r].part # None => header[loc[r].part].stage # "complete"
    /\ pc[r] = "dropOlder" => Partials \subseteq {loc[r].part} \cup loc[r].older
    /\ pc[r] \in {"dropOlder", "dropOlderFacts"} =>
          /\ loc[r].part \notin loc[r].older
          /\ \A i \in loc[r].older : header[i].stage # "complete"
    /\ pc[r] \notin {"detect", "dropOlder"} => Partials \subseteq {loc[r].part}
    /\ pc[r] \in {"dropNewestFacts", "freshFacts", "freshHeader", "gapHeader"} =>
          Partials = {}
    /\ pc[r] \in {"detect", "gapHeader"} => loc[r].part = None
    /\ pc[r] \in Early \/ loc[r].part = None => loc[r].carried = {}

(***************************************************************************)
(* PartInv for one live run.                                               *)
(***************************************************************************)
LEMMA PartOfLive ==
    ASSUME CaptureInv, NEW r \in Runs, Live(r)
    PROVE  PartOK(r)
BY DEF CaptureInv, PartInv, PartOK

(***************************************************************************)
(* Steps that publish nothing and create nothing: a header keeps its stage *)
(* or, unless it is published, disappears.                                 *)
(***************************************************************************)
Shrinks ==
    \A i \in Ids :
        /\ \/ header'[i].stage = header[i].stage
           \/ header[i].stage # "complete" /\ header'[i].stage = "absent"
        /\ header[i] = Absent => header'[i] = Absent

(***************************************************************************)
(* Such a step, when it changes neither the lock nor who is live, keeps    *)
(* every conjunct but TypeOK and PartInv.                                  *)
(***************************************************************************)
LEMMA ShrinkStep ==
    ASSUME CaptureInv, Shrinks, UNCHANGED lock,
           \A s \in Runs : ((Live(s))' <=> Live(s)) /\ (pc'[s] = "idle" <=> pc[s] = "idle")
    PROVE  /\ LockInv' /\ OrderedUse' /\ IdInv' /\ OnlyPartials' /\ NewerInv'
           /\ Completes' = Completes /\ Partials' \subseteq Partials
<1>1. Completes' = Completes /\ Partials' \subseteq Partials
  BY DEF Shrinks, Completes, Partials
<1>2. LockInv' /\ OrderedUse'
  BY DEF CaptureInv, LockInv, OrderedUse
<1>3. IdInv'
  <2> SUFFICES ASSUME NEW s \in Runs
               PROVE  /\ pc'[s] = "idle" => header'[<<s, "partial">>] = Absent
                                            /\ header'[<<s, "fresh">>] = Absent
                      /\ (Live(s))' => /\ header'[<<s, "partial">>].stage # "complete"
                                       /\ header'[<<s, "fresh">>].stage = "absent"
    BY DEF IdInv, Absent
  <2>1. <<s, "partial">> \in Ids /\ <<s, "fresh">> \in Ids
    BY DEF Ids
  <2> QED BY <2>1 DEF Shrinks, CaptureInv, IdInv
<1>4. OnlyPartials' /\ NewerInv'
  BY <1>1 DEF CaptureInv, OnlyPartials, NewerInv
<1> QED BY <1>1, <1>2, <1>3, <1>4

(***************************************************************************)
(* Such a step of a live run that stays live keeps the whole invariant,    *)
(* when the run's own PartOK is kept.                                      *)
(***************************************************************************)
LEMMA LocalShrink ==
    ASSUME CaptureInv, TypeOK', NEW r \in Runs, Live(r),
           NEW stage \in Stages, NEW l, Go(r, stage, l),
           UNCHANGED lock, Shrinks, PartOK(r)'
    PROVE  CaptureInv'
<1>1. /\ \A s \in Runs : s # r => pc'[s] = pc[s] /\ loc'[s] = loc[s]
      /\ pc'[r] = stage
  BY DEF Go, CaptureInv, TypeOK
<1>2. \A s \in Runs : ((Live(s))' <=> Live(s)) /\ (pc'[s] = "idle" <=> pc[s] = "idle")
  BY <1>1 DEF Live, Stages
<1>3. PartInv'
  <2> SUFFICES ASSUME NEW s \in Runs, (Live(s))' PROVE PartOK(s)'
    BY DEF PartInv, PartOK
  <2>1. s = r
    BY <1>2, OnlyOneLive
  <2> QED BY <2>1
<1> QED
  BY <1>2, <1>3, ShrinkStep DEF CaptureInv

(***************************************************************************)
(* A step of a live run that writes no header is one.                      *)
(***************************************************************************)
LEMMA LocalStep ==
    ASSUME CaptureInv, TypeOK', NEW r \in Runs, Live(r),
           NEW stage \in Stages, NEW l, Go(r, stage, l),
           UNCHANGED <<lock, header>>, PartOK(r)'
    PROVE  CaptureInv'
<1>1. Shrinks
  BY DEF Shrinks
<1> QED BY <1>1, LocalShrink

(***************************************************************************)
(* A run that ends, or a crash that ends it, and touches no header.        *)
(***************************************************************************)
LEMMA EndStep ==
    ASSUME CaptureInv, TypeOK', NEW r \in Runs, Live(r),
           pc' \in [Runs -> {"done", "failed"} \cup Stages \cup {"idle"}],
           pc'[r] \in {"done", "failed"},
           \A s \in Runs : s # r => pc'[s] = pc[s],
           UNCHANGED header
    PROVE  CaptureInv'
<1>1. \A s \in Runs : ~(Live(s))'
  BY OnlyOneLive DEF Live, Stages
<1>2. \A s \in Runs : pc'[s] = "idle" <=> pc[s] = "idle"
  BY DEF Live, Stages
<1>3. Partials' = Partials /\ Completes' = Completes
  BY DEF Partials, Completes
<1> QED
  BY <1>1, <1>2, <1>3
  DEF CaptureInv, LockInv, OrderedUse, IdInv, OnlyPartials, PartInv, NewerInv

(***************************************************************************)
(* Of a non-empty set of runs, one is the last: the intervals from its     *)
(* members on are finite, and inclusion is well-founded on finite sets.    *)
(***************************************************************************)
LEMMA LastRun ==
    ASSUME NEW S \in SUBSET Runs, S # {}
    PROVE  \E i \in S : \A j \in S : j <= i
<1> DEFINE T == {i .. MaxRuns : i \in S}
<1>1. T \subseteq FiniteSubsetsOf(Nat)
  <2> SUFFICES ASSUME NEW i \in S PROVE i .. MaxRuns \in FiniteSubsetsOf(Nat)
    OBVIOUS
  <2>1. i \in Nat /\ MaxRuns \in Nat
    BY CaptureAssumption DEF Runs
  <2>2. IsFiniteSet(i .. MaxRuns) /\ i .. MaxRuns \subseteq Nat
    BY <2>1, FS_Interval
  <2> QED BY <2>2 DEF FiniteSubsetsOf
<1>2. T # {}
  OBVIOUS
<1>3. PICK t \in T : \A u \in T : <<u, t>> \notin StrictSubsetOrdering(Nat)
  <2> HIDE DEF T
  <2> QED BY <1>1, <1>2, FS_StrictSubsetOrderingWellFounded, WFMin
<1>4. PICK i \in S : t = i .. MaxRuns
  OBVIOUS
<1>5. ASSUME NEW j \in S, i < j PROVE FALSE
  <2>1. i \in 1 .. MaxRuns /\ j \in 1 .. MaxRuns /\ MaxRuns \in Nat
    BY CaptureAssumption DEF Runs
  <2>2. i \in i .. MaxRuns /\ i \notin j .. MaxRuns
    BY <1>5, <2>1
  <2>3. j .. MaxRuns \subseteq i .. MaxRuns /\ j .. MaxRuns \in SUBSET Nat
        /\ i .. MaxRuns \in SUBSET Nat
    BY <1>5, <2>1
  <2>4. <<j .. MaxRuns, i .. MaxRuns>> \in StrictSubsetOrdering(Nat)
    BY <2>2, <2>3 DEF StrictSubsetOrdering
  <2> QED BY <1>3, <1>4, <2>4
<1>6. \A j \in S : j <= i
  BY <1>5, CaptureAssumption DEF Runs
<1> QED BY <1>6

(***************************************************************************)
(* The newest partial is one of the partials.                              *)
(***************************************************************************)
LEMMA NewestIsOne ==
    ASSUME NEW ids \in SUBSET Ids, ids # {}
    PROVE  Newest(ids) \in ids
<1> DEFINE S == {i[1] : i \in ids}
<1>1. S \in SUBSET Runs /\ S # {}
  BY DEF Ids
<1>2. PICK n \in S : \A m \in S : m <= n
  <2> HIDE DEF S
  <2> QED BY <1>1, LastRun
<1>3. \E i \in ids : \A j \in ids : j[1] <= i[1]
  BY <1>2
<1> QED BY <1>3 DEF Newest

(***************************************************************************)
(* The steps of detectMainnetResume that leave the headers alone.          *)
(***************************************************************************)
LEMMA DetectSteps ==
    ASSUME CaptureInv, NEW r \in Runs,
           \/ DetectFresh(r) \/ DetectPartial(r) \/ DropOlderFacts(r)
           \/ DropNewestFacts(r) \/ Resume(r)
    PROVE  CaptureInv'
<1> USE DEF Stages
<1>0. TypeOK /\ loc[r] \in LocType
  BY DEF CaptureInv, TypeOK, LocType
<1>1. CASE DetectFresh(r)
  <2>1. Live(r) /\ PartOK(r)
    BY <1>1, PartOfLive DEF DetectFresh, Live
  <2>2. Go(r, "walk", loc[r]) /\ UNCHANGED <<lock, header>>
    BY <1>1 DEF DetectFresh
  <2>3. TypeOK'
    BY <1>0, <1>1, <2>2, GoType DEF DetectFresh, TypeOK, LocType
  <2>4. pc'[r] = "walk" /\ loc'[r] = loc[r] /\ Partials' = {}
    BY <1>0, <1>1 DEF DetectFresh, Go, TypeOK, Partials
  <2>5. PartOK(r)'
    BY <2>1, <2>4, <2>2, <1>1 DEF PartOK, DetectFresh, HasPart
  <2> QED BY <2>1, <2>2, <2>3, <2>5, LocalStep
<1>2. CASE DetectPartial(r)
  <2> DEFINE n == Newest(Partials)
             older == Partials \ {n}
             stage == IF older # {} THEN "dropOlder" ELSE NextOfDetect(header[n].cursor)
             l == [loc[r] EXCEPT !.part = n, !.older = older, !.cursor = header[n].cursor]
  <2>1. Live(r) /\ PartOK(r)
    BY <1>2, PartOfLive DEF DetectPartial, Live
  <2>2. Partials \in SUBSET Ids /\ Partials # {}
    BY <1>2 DEF DetectPartial, Partials
  <2>3. n \in Partials
    BY <2>2, NewestIsOne
  <2>4. n \in Ids /\ header[n].stage = "partial" /\ older \in SUBSET Ids
        /\ \A i \in older : header[i].stage # "complete"
    BY <2>3 DEF Partials
  <2>5. Go(r, stage, l) /\ UNCHANGED <<head, aged, lock, header, facts>>
    BY <1>2 DEF DetectPartial
  <2> HIDE DEF n, older
  <2>6. l \in LocType
    BY <1>0, <2>4 DEF LocType, TypeOK
  <2>7. /\ stage \in {"dropOlder", "dropNewest", "resume"} /\ stage \in Stages
        /\ stage # "dropOlder" => older = {}
    BY DEF NextOfDetect
  <2> HIDE DEF stage
  <2>8. TypeOK'
    <3> HIDE DEF l
    <3>1. header' \in HeaderType /\ facts' \in FactsType /\ UNCHANGED <<head, aged, lock>>
      BY <1>0, <2>5 DEF TypeOK, HeaderType, FactsType
    <3> QED BY <1>0, <2>5, <2>6, <2>7, <3>1, GoKeepsTypes
  <2>9. pc'[r] = stage /\ loc'[r] = l /\ Partials' = Partials
    BY <1>0, <2>5 DEF Go, TypeOK, Partials
  <2>10. l.part = n /\ l.older = older /\ l.carried = {}
    BY <1>0, <1>2, <2>1 DEF LocType, PartOK, DetectPartial, Early
  <2>11. Partials = {n} \cup older /\ n \notin older
    BY <2>3 DEF older
  <2>12. PartOK(r)'
    BY <2>4, <2>5, <2>7, <2>9, <2>10, <2>11 DEF PartOK, HasPart
  <2> HIDE DEF l
  <2> QED BY <2>1, <2>5, <2>6, <2>7, <2>8, <2>12, LocalStep
<1>3. CASE DropNewestFacts(r)
  <2> DEFINE l == [loc[r] EXCEPT !.part = None]
  <2>1. Live(r) /\ PartOK(r)
    BY <1>3, PartOfLive DEF DropNewestFacts, Live
  <2>2. Go(r, "walk", l) /\ UNCHANGED <<lock, header>> /\ l \in LocType
    BY <1>0, <1>3 DEF DropNewestFacts, LocType
  <2>3. facts' \in [Ids -> [Packages -> 0 .. MaxRuns]]
    BY <1>0, <1>3, NoFactsType DEF DropNewestFacts, TypeOK
  <2>4. TypeOK'
    BY <1>0, <1>3, <2>2, <2>3, GoType DEF DropNewestFacts, TypeOK, LocType
  <2>5. pc'[r] = "walk" /\ loc'[r].part = None /\ Partials' = {}
    BY <1>0, <1>3, <2>1, <2>2 DEF DropNewestFacts, Go, TypeOK, LocType, PartOK, Partials
  <2>6. loc'[r].carried = {}
    BY <1>0, <1>3, <2>1, <2>2 DEF DropNewestFacts, Go, TypeOK, LocType, PartOK, Early
  <2>7. PartOK(r)'
    BY <2>5, <2>6 DEF PartOK, HasPart
  <2> QED BY <2>1, <2>2, <2>4, <2>7, LocalStep
<1>4. CASE Resume(r)
  <2> DEFINE l == [loc[r] EXCEPT !.carried = Stored(loc[r].part)]
  <2>1. Live(r) /\ PartOK(r)
    BY <1>4, PartOfLive DEF Resume, Live
  <2>2. Go(r, "walk", l) /\ UNCHANGED <<lock, header>> /\ l \in LocType
    BY <1>0, <1>4 DEF Resume, LocType, Stored
  <2>3. TypeOK'
    BY <1>0, <1>4, <2>2, GoType DEF Resume, TypeOK, LocType
  <2>4. pc'[r] = "walk" /\ loc'[r].part = loc[r].part /\ Partials' = Partials
    BY <1>0, <2>2 DEF Go, TypeOK, LocType, Partials
  <2>5. PartOK(r)'
    BY <2>1, <2>2, <2>4, <1>4, CaptureAssumption DEF PartOK, HasPart, Early, Resume
  <2> QED BY <2>1, <2>2, <2>3, <2>5, LocalStep
<1>5. CASE DropOlderFacts(r)
  <2> DEFINE l == [loc[r] EXCEPT !.older = {}]
             stage == NextOfDetect(loc[r].cursor)
  <2>1. Live(r) /\ PartOK(r)
    BY <1>5, PartOfLive DEF DropOlderFacts, Live
  <2>2. /\ Go(r, stage, l) /\ UNCHANGED <<head, aged, lock, header>> /\ l \in LocType
        /\ pc[r] = "dropOlderFacts"
    BY <1>0, <1>5 DEF DropOlderFacts, LocType
  <2>3. stage \in {"dropNewest", "resume"}
    BY DEF NextOfDetect
  <2>4. facts' \in FactsType
    BY <1>0, <1>5, NoFactsType DEF DropOlderFacts, TypeOK, FactsType
  <2>5. header' \in HeaderType
    BY <1>0, <2>2 DEF TypeOK, HeaderType
  <2> HIDE DEF stage
  <2>6. TypeOK'
    <3> HIDE DEF l
    <3> QED BY <1>0, <2>2, <2>3, <2>4, <2>5, GoKeepsTypes
  <2>7. /\ pc'[r] = stage /\ loc'[r].part = loc[r].part /\ Partials' = Partials
        /\ loc'[r].carried = loc[r].carried
    BY <1>0, <2>2 DEF Go, TypeOK, LocType, Partials
  <2>8. PartOK(r)'
    BY <2>1, <2>2, <2>3, <2>7 DEF PartOK, HasPart, Early
  <2> HIDE DEF l
  <2> QED BY <2>1, <2>2, <2>3, <2>6, <2>8, LocalStep
<1> QED BY <1>1, <1>2, <1>3, <1>4, <1>5

(***************************************************************************)
(* The steps of the walk, the gap-closing and the fresh path that leave    *)
(* the headers and the run's partial alone.                                *)
(***************************************************************************)
LEMMA WalkStep ==
    ASSUME CaptureInv, NEW r \in Runs, pc[r] \in Past, NEW stage \in Past, NEW l \in LocType,
           Go(r, stage, l), l.part = loc[r].part, l.carried = loc[r].carried,
           UNCHANGED <<head, aged, lock, header>>, facts' \in FactsType,
           stage \in {"ckptFacts", "gapFacts"} => loc[r].part \in Ids,
           stage \in {"freshFacts", "freshHeader", "gapHeader"} => Partials = {},
           stage = "gapHeader" => loc[r].part = None
    PROVE  CaptureInv'
<1>1. Live(r) /\ stage \in Stages
  BY DEF Live, Past, Stages
<1>2. TypeOK' /\ TypeOK
  <2>1. header' \in HeaderType
    BY DEF CaptureInv, TypeOK, HeaderType
  <2> QED BY <2>1, <1>1, GoKeepsTypes DEF CaptureInv
<1>3. pc'[r] = stage /\ loc'[r] = l /\ Partials' = Partials
  BY <1>2 DEF Go, TypeOK, Partials
<1>4. PartOK(r)
  BY <1>1, PartOfLive
<1>5. PartOK(r)'
  BY <1>3, <1>4 DEF PartOK, Past, HasPart, Early
<1> QED BY <1>1, <1>2, <1>5, LocalStep

(***************************************************************************)
(* What a final list says of its packages are runs: those of the carried   *)
(* facts, which only a run with a partial has, or this one.                *)
(***************************************************************************)
LEMMA ProberType ==
    ASSUME CaptureInv, NEW r \in Runs, Live(r)
    PROVE  Prober(r) \in [Packages -> 0 .. MaxRuns]
<1> SUFFICES ASSUME NEW k \in Packages
             PROVE  (IF k \in loc[r].carried \ loc[r].gap
                     THEN facts[loc[r].part][k] ELSE r) \in 0 .. MaxRuns
  BY DEF Prober
<1>1. TypeOK /\ PartOK(r) /\ r \in 0 .. MaxRuns
  BY PartOfLive, CaptureAssumption DEF CaptureInv, Runs
<1>2. k \in loc[r].carried => loc[r].part \in Ids
  BY <1>1 DEF PartOK, TypeOK
<1>3. loc[r].part \in Ids => facts[loc[r].part][k] \in 0 .. MaxRuns
  BY <1>1 DEF TypeOK
<1> QED BY <1>1, <1>2, <1>3

(***************************************************************************)
(* Every step of the walk, the gap-closing and the fresh path is such a    *)
(* step.                                                                   *)
(***************************************************************************)
LEMMA WalkSteps ==
    ASSUME CaptureInv, NEW r \in Runs,
           \/ ProbePage(r) \/ Deadline(r) \/ FetchError(r) \/ CkptHeaderFails(r)
           \/ CkptFacts(r) \/ CkptFactsFails(r) \/ CloseGaps(r) \/ NoGaps(r)
           \/ GapFacts(r) \/ PublishFresh(r) \/ FreshFacts(r)
    PROVE  CaptureInv'
<1>0. /\ TypeOK /\ loc[r] \in LocType /\ facts \in FactsType
      /\ pc[r] \in Stages => PartOK(r)
  BY PartOfLive DEF CaptureInv, TypeOK, LocType, FactsType, Live
<1>1. CASE ProbePage(r)
  <2>1. PICK S \in SUBSET Probeable(loc[r].cursor) :
          LET oldest == StartCursor(loc[r].cursor)
              l == [loc[r] EXCEPT
                      !.probed = @ \cup S,
                      !.cursor = IF oldest = 1 THEN Null ELSE oldest,
                      !.end = IF oldest = 1 THEN "wrapped" ELSE "no"]
              due == Cardinality(l.probed \ l.flushed) >= CheckpointEveryN
          IN  Go(r, IF due THEN "ckptHeader" ELSE AfterPage(l), l)
    BY <1>1 DEF ProbePage
  <2> DEFINE oldest == StartCursor(loc[r].cursor)
             l == [loc[r] EXCEPT
                     !.probed = @ \cup S,
                     !.cursor = IF oldest = 1 THEN Null ELSE oldest,
                     !.end = IF oldest = 1 THEN "wrapped" ELSE "no"]
             stage == IF Cardinality(l.probed \ l.flushed) >= CheckpointEveryN
                      THEN "ckptHeader" ELSE AfterPage(l)
  <2>2. S \in SUBSET Packages /\ oldest \in 0 .. MaxPkg
    BY <1>0, PageType DEF LocType
  <2>3. l \in LocType /\ l.part = loc[r].part /\ l.carried = loc[r].carried
    <3>1. (IF oldest = 1 THEN Null ELSE oldest) \in 0 .. MaxPkg
      BY <2>2, CaptureAssumption DEF Null
    <3>2. loc[r].probed \cup S \in SUBSET Packages
      BY <1>0, <2>2 DEF LocType
    <3> HIDE DEF oldest
    <3> QED BY <1>0, <3>1, <3>2 DEF LocType
  <2>4. stage \in {"ckptHeader", "walk", "gap"} /\ stage \in Past
    BY DEF AfterPage, Past
  <2>5. Go(r, stage, l)
    BY <2>1
  <2>6. pc[r] \in Past /\ UNCHANGED <<head, aged, lock, header>> /\ facts' \in FactsType
    BY <1>0, <1>1 DEF ProbePage, Past
  <2> HIDE DEF l, stage
  <2> QED BY <2>3, <2>4, <2>5, <2>6, WalkStep
<1>2. CASE Deadline(r)
  <2>1. PICK S \in SUBSET Probeable(loc[r].cursor) :
          Go(r, "gap", [loc[r] EXCEPT !.probed = @ \cup S, !.end = "deadline"])
    BY <1>2 DEF Deadline
  <2>2. S \in SUBSET Packages
    BY <1>0, PageType DEF LocType
  <2> DEFINE l == [loc[r] EXCEPT !.probed = @ \cup S, !.end = "deadline"]
  <2>3. l \in LocType /\ l.part = loc[r].part /\ l.carried = loc[r].carried
    BY <1>0, <2>2 DEF LocType
  <2>4. pc[r] \in Past /\ UNCHANGED <<head, aged, lock, header>> /\ facts' \in FactsType
    BY <1>0, <1>2 DEF Deadline, Past
  <2>5. Go(r, "gap", l)
    BY <2>1
  <2> HIDE DEF l
  <2> QED BY <2>3, <2>4, <2>5, WalkStep DEF Past
<1>3. CASE FetchError(r) \/ CkptHeaderFails(r) \/ CkptFactsFails(r)
  <2> DEFINE l == [loc[r] EXCEPT !.end = "error"]
  <2>1. l \in LocType /\ l.part = loc[r].part /\ l.carried = loc[r].carried
    BY <1>0 DEF LocType
  <2>2. facts' \in FactsType
    <3>1. CASE UNCHANGED facts
      BY <1>0, <3>1
    <3>2. CASE \E T \in SUBSET Batch(r) : Insert(r, loc[r].part, T)
      BY <1>0, <3>2, InsertType DEF FactsType
    <3> QED BY <1>3, <3>1, <3>2 DEF FetchError, CkptHeaderFails, CkptFactsFails
  <2>3. pc[r] \in Past /\ UNCHANGED <<head, aged, lock, header>> /\ Go(r, "gap", l)
    BY <1>3 DEF FetchError, CkptHeaderFails, CkptFactsFails, Past
  <2> HIDE DEF l
  <2> QED BY <2>1, <2>2, <2>3, WalkStep DEF Past
<1>4. CASE CkptFacts(r)
  <2> DEFINE l == [loc[r] EXCEPT !.flushed = loc[r].probed]
  <2>1. l \in LocType /\ l.part = loc[r].part /\ l.carried = loc[r].carried
    BY <1>0 DEF LocType
  <2>2. facts' \in FactsType
    BY <1>0, <1>4, InsertType DEF CkptFacts, FactsType
  <2>3. /\ pc[r] \in Past /\ UNCHANGED <<head, aged, lock, header>>
        /\ Go(r, AfterPage(loc[r]), l)
    BY <1>4 DEF CkptFacts, Past
  <2>4. AfterPage(loc[r]) \in {"walk", "gap"} /\ AfterPage(loc[r]) \in Past
    BY DEF AfterPage, Past
  <2> HIDE DEF l
  <2> QED BY <2>1, <2>2, <2>3, <2>4, WalkStep
<1>5. CASE CloseGaps(r)
  <2>1. PICK S \in (SUBSET Stale) \ {{}} :
          Go(r, IF loc[r].part = None THEN "gapHeader" ELSE "gapFacts",
             [loc[r] EXCEPT !.gap = S])
    BY <1>5 DEF CloseGaps
  <2> DEFINE l == [loc[r] EXCEPT !.gap = S]
             stage == IF loc[r].part = None THEN "gapHeader" ELSE "gapFacts"
  <2>2. l \in LocType /\ l.part = loc[r].part /\ l.carried = loc[r].carried
    BY <1>0 DEF LocType, Stale
  <2>3. pc[r] = "gap" /\ UNCHANGED <<head, aged, lock, header>> /\ facts' \in FactsType
    BY <1>0, <1>5 DEF CloseGaps
  <2>4. Partials \subseteq {loc[r].part}
    BY <1>0, <2>3 DEF PartOK, Stages
  <2>5. stage = "gapHeader" => loc[r].part = None /\ Partials = {}
    BY <2>4, CaptureAssumption DEF Partials
  <2>6. stage = "gapFacts" => loc[r].part \in Ids
    BY <1>0 DEF LocType
  <2>7. stage \in {"gapHeader", "gapFacts"} /\ stage \in Past /\ pc[r] \in Past
    BY <2>3 DEF Past
  <2>8. Go(r, stage, l)
    BY <2>1
  <2> HIDE DEF l, stage
  <2> QED BY <2>2, <2>3, <2>5, <2>6, <2>7, <2>8, WalkStep
<1>6. CASE NoGaps(r) \/ GapFacts(r)
  <2>1. facts' \in FactsType
    BY <1>0, <1>6, InsertType DEF NoGaps, GapFacts, FactsType
  <2>2. pc[r] \in Past /\ UNCHANGED <<head, aged, lock, header>> /\ Go(r, "publish", loc[r])
    BY <1>6 DEF NoGaps, GapFacts, Past
  <2> QED BY <1>0, <2>1, <2>2, WalkStep DEF Past
<1>7. CASE PublishFresh(r)
  <2>1. /\ pc[r] = "publish" /\ UNCHANGED <<head, aged, lock, header>>
        /\ facts' \in FactsType /\ Go(r, "freshFacts", loc[r])
    BY <1>0, <1>7 DEF PublishFresh
  <2>2. Partials \subseteq {loc[r].part}
    BY <1>0, <2>1 DEF PartOK, Stages
  <2>3. Partials = {}
    BY <2>2, <1>7, CaptureAssumption DEF PublishFresh, PartialExists, Partials
  <2> QED BY <1>0, <2>1, <2>3, WalkStep DEF Past
<1>8. CASE FreshFacts(r)
  <2>1. facts' \in FactsType
    BY <1>0, <1>8, ProberType, InsertAsType DEF FreshFacts, FactsType, Live, Stages
  <2>2. /\ pc[r] = "freshFacts" /\ UNCHANGED <<head, aged, lock, header>>
        /\ Go(r, "freshHeader", loc[r])
    BY <1>8 DEF FreshFacts
  <2>3. Partials = {}
    BY <1>0, <2>2 DEF PartOK, Stages
  <2> QED BY <1>0, <2>1, <2>2, <2>3, WalkStep DEF Past
<1> QED BY <1>1, <1>2, <1>3, <1>4, <1>5, <1>6, <1>7, <1>8

(***************************************************************************)
(* The steps that write a header: a partial is created, advanced, dropped  *)
(* or published.                                                           *)
(***************************************************************************)
(***************************************************************************)
(* The headers keep their type when one is replaced by a well-typed one.   *)
(***************************************************************************)
LEMMA HeaderTyped ==
    ASSUME TypeOK, NEW r \in Runs, NEW i, NEW c \in 0 .. MaxPkg, CreatePartial(r, i, c)
    PROVE  header' \in HeaderType
BY DEF TypeOK, HeaderType, CreatePartial

(***************************************************************************)
(* Creating a partial: the run has none, so there is none at all, and the  *)
(* run is newer than everything published.                                 *)
(***************************************************************************)
LEMMA CreateStep ==
    ASSUME CaptureInv, TypeOK', NEW r \in Runs, pc[r] \in {"ckptHeader", "gapHeader"},
           loc[r].part = None, NEW c \in 0 .. MaxPkg,
           CreatePartial(r, <<r, "partial">>, c),
           NEW stage \in {"ckptFacts", "gapFacts"},
           Go(r, stage, [loc[r] EXCEPT !.part = <<r, "partial">>]), UNCHANGED lock
    PROVE  CaptureInv'
<1> DEFINE i == <<r, "partial">>
<1>1. TypeOK /\ Live(r) /\ PartOK(r) /\ i \in Ids
  BY PartOfLive DEF CaptureInv, Live, Stages, Ids
<1>2. Partials = {}
  BY <1>1, CaptureAssumption DEF PartOK, Partials
<1>3. Partials' = {i}
  <2>1. header'[i].stage = "partial"
    BY <1>1 DEF CreatePartial, TypeOK
  <2>2. \A j \in Ids : j # i => header'[j] = header[j]
    BY <1>1 DEF CreatePartial, TypeOK
  <2> HIDE DEF i
  <2> QED BY <1>1, <1>2, <2>1, <2>2 DEF Partials
<1>4. header[i].stage # "complete"
  BY <1>1 DEF CaptureInv, IdInv
<1>5. Completes' = Completes
  BY <1>1, <1>4 DEF CreatePartial, Completes, TypeOK
<1>6. /\ \A s \in Runs : s # r => pc'[s] = pc[s] /\ loc'[s] = loc[s]
      /\ pc'[r] = stage /\ loc'[r].part = i
  BY <1>1 DEF Go, TypeOK
<1>7. (\A s \in Runs : (Live(s))' <=> Live(s)) /\ pc[r] # "idle" /\ pc'[r] # "idle"
  BY <1>6 DEF Live, Stages
<1>8. LockInv' /\ OrderedUse'
  BY <1>6, <1>7 DEF CaptureInv, LockInv, OrderedUse
<1>9. \A s \in Runs, x \in {"partial", "fresh"} :
         <<s, x>> # i => header'[<<s, x>>] = header[<<s, x>>]
  BY <1>1 DEF CreatePartial, TypeOK, Ids
<1>10. IdInv'
  <2> SUFFICES ASSUME NEW s \in Runs
               PROVE  /\ pc'[s] = "idle" => header'[<<s, "partial">>] = Absent
                                            /\ header'[<<s, "fresh">>] = Absent
                      /\ (Live(s))' => /\ header'[<<s, "partial">>].stage # "complete"
                                       /\ header'[<<s, "fresh">>].stage = "absent"
    BY DEF IdInv, Absent
  <2>1. header'[<<s, "fresh">>] = header[<<s, "fresh">>]
    BY <1>9
  <2>2. CASE s = r
    BY <2>1, <2>2, <1>1, <1>3, <1>7 DEF CaptureInv, IdInv, Partials
  <2>3. CASE s # r
    BY <2>1, <2>3, <1>6, <1>7, <1>9 DEF CaptureInv, IdInv
  <2> QED BY <2>2, <2>3
<1>11. OnlyPartials'
  BY <1>3 DEF OnlyPartials
<1>12. PartOK(r)'
  BY <1>1, <1>3, <1>6, CaptureAssumption DEF PartOK, HasPart, Early, Partials
<1>13. PartInv'
  <2> SUFFICES ASSUME NEW s \in Runs, (Live(s))' PROVE PartOK(s)'
    BY DEF PartInv, PartOK
  <2>1. s = r
    BY <1>1, <1>7, OnlyOneLive
  <2> QED BY <2>1, <1>12
<1>14. \A j \in Completes : j[1] < r
  BY <1>1, OlderRuns
<1>15. NewerInv'
  BY <1>3, <1>5, <1>14 DEF NewerInv
<1> QED
  BY <1>8, <1>10, <1>11, <1>13, <1>15 DEF CaptureInv

(***************************************************************************)
(* Advancing the cursor of the run's partial, and dropping a partial that  *)
(* cannot be resumed.                                                      *)
(***************************************************************************)
LEMMA CkptHeaderStep ==
    ASSUME CaptureInv, NEW r \in Runs, CkptHeader(r)
    PROVE  CaptureInv'
<1>0. /\ TypeOK /\ loc[r] \in LocType /\ Live(r) /\ PartOK(r)
      /\ header \in HeaderType /\ facts \in FactsType /\ loc[r].cursor \in 0 .. MaxPkg
  BY PartOfLive DEF CkptHeader, CaptureInv, TypeOK, LocType, Live, Stages, HeaderType, FactsType
<1>1. CASE loc[r].part = None
  <2> DEFINE l == [loc[r] EXCEPT !.part = <<r, "partial">>]
  <2>1. /\ CreatePartial(r, <<r, "partial">>, loc[r].cursor) /\ Go(r, "ckptFacts", l)
        /\ UNCHANGED <<head, aged, lock, facts>> /\ pc[r] = "ckptHeader"
    BY <1>1 DEF CkptHeader
  <2>2. header' \in HeaderType
    BY <2>1, <1>0, HeaderTyped
  <2>3. l \in LocType
    BY <1>0 DEF LocType, Ids
  <2>4. TypeOK'
    <3> HIDE DEF l
    <3> QED BY <2>1, <2>2, <2>3, <1>0, GoKeepsTypes DEF Stages
  <2> QED BY <1>0, <1>1, <2>1, <2>4, CreateStep
<1>2. CASE loc[r].part # None
  <2> DEFINE i == loc[r].part
             l == [loc[r] EXCEPT !.part = i]
  <2>1. /\ header' = IF header[i].stage = "absent" THEN header
                     ELSE [header EXCEPT ![i].cursor = loc[r].cursor]
        /\ Go(r, "ckptFacts", l) /\ UNCHANGED <<head, aged, lock, facts>>
        /\ pc[r] = "ckptHeader"
    BY <1>2 DEF CkptHeader
  <2>2. i \in Ids /\ l \in LocType /\ l.part = i
    BY <1>0, <1>2 DEF LocType
  <2>3. header' \in HeaderType /\ \A j \in Ids : header'[j].stage = header[j].stage
    BY <1>0, <2>1, <2>2 DEF HeaderType
  <2>4. \A j \in Ids : header[j] = Absent => header'[j] = Absent
    BY <1>0, <2>1, <2>2 DEF HeaderType, Absent
  <2>5. Shrinks
    BY <2>3, <2>4 DEF Shrinks
  <2> HIDE DEF l
  <2>6. TypeOK'
    BY <2>1, <2>2, <2>3, <1>0, GoKeepsTypes DEF Stages
  <2>7. pc'[r] = "ckptFacts" /\ loc'[r].part = i
    BY <1>0, <2>1, <2>2 DEF Go, TypeOK
  <2>8. Partials' = Partials
    BY <2>3 DEF Partials
  <2>9. PartOK(r)'
    BY <1>0, <2>1, <2>2, <2>3, <2>7, <2>8, CaptureAssumption DEF PartOK, HasPart, Early
  <2> QED BY <1>0, <2>1, <2>5, <2>6, <2>9, LocalShrink DEF Stages
<1> QED BY <1>1, <1>2

(***************************************************************************)
(* The partial of gap-closing is created by a run that owns none.          *)
(***************************************************************************)
LEMMA GapHeaderStep ==
    ASSUME CaptureInv, NEW r \in Runs, GapHeader(r)
    PROVE  CaptureInv'
<1> DEFINE l == [loc[r] EXCEPT !.part = <<r, "partial">>]
<1>0. /\ TypeOK /\ loc[r] \in LocType /\ facts \in FactsType /\ PartOK(r)
      /\ pc[r] = "gapHeader" /\ Null \in 0 .. MaxPkg
  BY PartOfLive, CaptureAssumption
  DEF GapHeader, CaptureInv, TypeOK, LocType, FactsType, Live, Stages, Null
<1>1. /\ CreatePartial(r, <<r, "partial">>, Null) /\ Go(r, "gapFacts", l)
      /\ UNCHANGED <<head, aged, lock, facts>>
  BY DEF GapHeader
<1>2. header' \in HeaderType
  BY <1>0, <1>1, HeaderTyped
<1>3. l \in LocType
  BY <1>0 DEF LocType, Ids
<1>4. TypeOK'
  <2> HIDE DEF l
  <2> QED BY <1>0, <1>1, <1>2, <1>3, GoKeepsTypes DEF Stages
<1>5. loc[r].part = None
  BY <1>0 DEF PartOK
<1> QED BY <1>0, <1>1, <1>4, <1>5, CreateStep

(***************************************************************************)
(* Dropping the newest partial because it cannot be resumed leaves none.   *)
(***************************************************************************)
LEMMA DropNewestStep ==
    ASSUME CaptureInv, NEW r \in Runs, DropNewest(r)
    PROVE  CaptureInv'
<1>0. /\ TypeOK /\ loc[r] \in LocType /\ facts \in FactsType /\ header \in HeaderType
      /\ Live(r) /\ PartOK(r) /\ pc[r] = "dropNewest"
  BY PartOfLive
  DEF DropNewest, CaptureInv, TypeOK, LocType, FactsType, HeaderType, Live, Stages
<1> DEFINE i == loc[r].part
<1>1. /\ header' = [header EXCEPT ![i] = Absent] /\ Go(r, "dropNewestFacts", loc[r])
      /\ UNCHANGED <<head, aged, lock, facts>>
  BY DEF DropNewest
<1>2. i \in Ids /\ header[i].stage # "complete" /\ i # None
  BY <1>0, CaptureAssumption DEF PartOK, HasPart
<1>3. Absent \in [stage : {"absent", "partial", "complete"}, cursor : 0 .. MaxPkg, total : Nat]
      /\ Absent.stage = "absent"
  BY CaptureAssumption DEF Absent, Null
<1>4. header' \in HeaderType
  BY <1>0, <1>1, <1>3 DEF HeaderType
<1>5. \A j \in Ids : header'[j] = IF j = i THEN Absent ELSE header[j]
  BY <1>0, <1>1 DEF HeaderType
<1>6. Shrinks
  BY <1>2, <1>3, <1>5 DEF Shrinks
<1>7. TypeOK'
  BY <1>0, <1>1, <1>4, GoKeepsTypes DEF Stages
<1>8. pc'[r] = "dropNewestFacts" /\ loc'[r] = loc[r]
  BY <1>0, <1>1 DEF Go, TypeOK
<1>9. Partials \subseteq {i}
  BY <1>0 DEF PartOK
<1>10. Partials' = {}
  BY <1>3, <1>5, <1>9 DEF Partials
<1>11. PartOK(r)'
  BY <1>0, <1>1, <1>2, <1>3, <1>5, <1>8, <1>10 DEF PartOK, HasPart, Early
<1> QED BY <1>0, <1>1, <1>6, <1>7, <1>11, LocalShrink DEF Stages

(***************************************************************************)
(* Publishing: the run ends, no partial is left, and the id that becomes   *)
(* complete belongs to no run that has yet to begin.                       *)
(***************************************************************************)
LEMMA PublishStep ==
    ASSUME CaptureInv, NEW r \in Runs, NEW i \in Ids, Live(r), Complete(r, i),
           Partials \subseteq {i}, UNCHANGED <<head, aged, facts>>,
           \A s \in Runs : pc[s] = "idle" => i # <<s, "partial">> /\ i # <<s, "fresh">>
    PROVE  /\ CaptureInv'
           /\ Completes' = Completes \cup {i} /\ Partials' = {}
           /\ \A j \in Ids : j # i => header'[j] = header[j]
<1> DEFINE h == [stage |-> "complete", cursor |-> Null, total |-> Total(loc[r])]
<1>1. TypeOK /\ header \in HeaderType
  BY DEF CaptureInv, TypeOK, HeaderType
<1>2. h \in [stage : {"absent", "partial", "complete"}, cursor : 0 .. MaxPkg, total : Nat]
      /\ h.stage = "complete"
  BY <1>1, TotalIsNat, CaptureAssumption DEF Null
<1>3. header' = [header EXCEPT ![i] = h] /\ End(r, "done")
  BY DEF Complete
<1> HIDE DEF h
<1>4. header' \in HeaderType /\ \A j \in Ids : header'[j] = IF j = i THEN h ELSE header[j]
  BY <1>1, <1>2, <1>3 DEF HeaderType
<1>5. TypeOK'
  <2>1. /\ pc' \in [Runs -> Stages \cup {"idle", "done", "failed"}]
        /\ loc' \in [Runs -> LocType] /\ lock' \in Runs \cup {None}
    BY <1>1, <1>3, EndTyped
  <2> QED BY <1>1, <1>4, <2>1 DEF TypeOK, HeaderType, LocType
<1>6. pc'[r] = "done" /\ \A s \in Runs : s # r => pc'[s] = pc[s]
  BY <1>1, <1>3 DEF End, Go, TypeOK
<1>7. \A s \in Runs : ~(Live(s))' /\ (pc'[s] = "idle" <=> pc[s] = "idle")
  BY <1>6, OnlyOneLive DEF Live, Stages
<1>8. Completes' = Completes \cup {i} /\ Partials' = {}
  BY <1>2, <1>4 DEF Completes, Partials
<1>9. LockInv' /\ OrderedUse' /\ PartInv' /\ OnlyPartials' /\ NewerInv'
  BY <1>7, <1>8
  DEF CaptureInv, LockInv, OrderedUse, PartInv, OnlyPartials, NewerInv
<1>10. IdInv'
  <2> SUFFICES ASSUME NEW s \in Runs, pc'[s] = "idle"
               PROVE  header'[<<s, "partial">>] = Absent /\ header'[<<s, "fresh">>] = Absent
    BY <1>7 DEF IdInv, Absent
  <2>1. <<s, "partial">> \in Ids /\ <<s, "fresh">> \in Ids /\ pc[s] = "idle"
    BY <1>7 DEF Ids
  <2>2. header[<<s, "partial">>] = Absent /\ header[<<s, "fresh">>] = Absent
    BY <2>1 DEF CaptureInv, IdInv
  <2> QED BY <1>4, <2>1, <2>2
<1> QED BY <1>4, <1>5, <1>8, <1>9, <1>10 DEF CaptureInv

(***************************************************************************)
(* The id of a publication: the run's partial, or its fresh id.            *)
(***************************************************************************)
Publishes(r, i) ==
    \/ Promote(r) /\ i = loc[r].part
    \/ FreshHeader(r) /\ i = <<r, "fresh">>

(***************************************************************************)
(* Promote and FreshHeader are the two ways to publish.                    *)
(***************************************************************************)
LEMMA PublishSteps ==
    ASSUME CaptureInv, NEW r \in Runs, NEW i, Publishes(r, i)
    PROVE  /\ CaptureInv' /\ i \in Ids /\ i \notin Completes /\ UNCHANGED facts
           /\ Completes' = Completes \cup {i}
           /\ \A j \in Ids : j # i => header'[j] = header[j]
           /\ \A j \in Completes : j[1] < i[1]
<1>1. Live(r) /\ PartOK(r) /\ TypeOK
  BY PartOfLive DEF Publishes, Promote, FreshHeader, Live, Stages, CaptureInv
<1>2. CASE Promote(r) /\ i = loc[r].part
  <2>1. pc[r] = "publish" /\ i # None /\ header[i].stage # "absent" /\ Complete(r, i)
        /\ UNCHANGED <<head, aged, facts>>
    BY <1>2 DEF Promote, PartialExists
  <2>2. i \in Ids /\ header[i].stage = "partial"
    BY <1>1, <1>2, <2>1 DEF PartOK, TypeOK
  <2>3. i \in Partials /\ Partials \subseteq {i} /\ i \notin Completes
    BY <1>1, <1>2, <2>1, <2>2 DEF PartOK, Partials, Completes
  <2>4. \A s \in Runs : pc[s] = "idle" => i # <<s, "partial">> /\ i # <<s, "fresh">>
    <3>1. header[i] # Absent
      BY <2>2 DEF Absent
    <3> QED BY <3>1 DEF CaptureInv, IdInv
  <2>5. \A j \in Completes : j[1] < i[1]
    BY <2>3 DEF CaptureInv, NewerInv
  <2> QED BY <1>1, <2>1, <2>2, <2>3, <2>4, <2>5, PublishStep
<1>3. CASE FreshHeader(r) /\ i = <<r, "fresh">>
  <2>1. pc[r] = "freshHeader" /\ Complete(r, i) /\ UNCHANGED <<head, aged, facts>>
    BY <1>3 DEF FreshHeader
  <2>2. i \in Ids /\ header[i].stage = "absent"
    BY <1>1, <1>3 DEF CaptureInv, IdInv, Ids
  <2>3. Partials = {} /\ i \notin Completes
    BY <1>1, <2>1, <2>2 DEF PartOK, Completes
  <2>4. \A s \in Runs : pc[s] = "idle" => i # <<s, "partial">> /\ i # <<s, "fresh">>
    BY <1>3, <2>1
  <2>5. \A j \in Completes : j[1] < r
    BY <1>1, OlderRuns
  <2> QED BY <1>1, <1>3, <2>1, <2>2, <2>3, <2>4, <2>5, PublishStep
<1> QED BY <1>2, <1>3 DEF Publishes

(***************************************************************************)
(* The steps that end a run without publishing.                            *)
(***************************************************************************)
LEMMA EndingSteps ==
    ASSUME CaptureInv, NEW r \in Runs,
           GapFactsFails(r) \/ FreshFactsFails(r) \/ Throws(r)
    PROVE  CaptureInv'
<1>1. Live(r) /\ TypeOK
  BY DEF GapFactsFails, FreshFactsFails, Throws, Fallible, Live, Stages, CaptureInv
<1>2. End(r, "failed") /\ UNCHANGED <<head, aged, header>>
  BY DEF GapFactsFails, FreshFactsFails, Throws
<1>3. facts' \in FactsType
  <2>1. CASE UNCHANGED facts
    BY <1>1, <2>1 DEF TypeOK, FactsType
  <2>2. CASE \E i, T : Insert(r, i, T)
    BY <1>1, <2>2, InsertType DEF FactsType
  <2>3. CASE \E i, T : InsertAs(i, T, Prober(r))
    BY <1>1, <2>3, ProberType, InsertAsType DEF FactsType
  <2> QED BY <2>1, <2>2, <2>3 DEF GapFactsFails, FreshFactsFails, Throws
<1>4. /\ pc' \in [Runs -> Stages \cup {"idle", "done", "failed"}]
      /\ loc' \in [Runs -> LocType] /\ lock' \in Runs \cup {None}
  BY <1>1, <1>2, EndTyped
<1>5. TypeOK'
  BY <1>1, <1>2, <1>3, <1>4 DEF TypeOK, LocType, FactsType
<1>6. pc'[r] = "failed" /\ \A s \in Runs : s # r => pc'[s] = pc[s]
  BY <1>1, <1>2 DEF End, Go, TypeOK
<1> QED BY <1>1, <1>2, <1>4, <1>5, <1>6, EndStep

(***************************************************************************)
(* Begin: nothing else is live, and every run before this one is over.     *)
(***************************************************************************)
LEMMA BeginStep ==
    ASSUME CaptureInv, NEW r \in Runs, Begin(r)
    PROVE  CaptureInv'
<1>1. /\ TypeOK /\ pc[r] = "idle" /\ lock = None /\ lock' = r
      /\ (\A q \in Runs : q < r => pc[q] # "idle")
      /\ Go(r, "detect", Blank) /\ UNCHANGED <<head, aged, header, facts>>
  BY DEF Begin, CaptureInv
<1>2. \A s \in Runs : ~Live(s)
  BY <1>1, CaptureAssumption DEF CaptureInv, LockInv
<1>3. TypeOK'
  <2>1. /\ pc' \in [Runs -> Stages \cup {"idle", "done", "failed"}]
        /\ loc' \in [Runs -> LocType]
    BY <1>1, BlankType, GoType DEF Stages
  <2> QED BY <1>1, <2>1 DEF TypeOK, LocType
<1>4. /\ pc'[r] = "detect" /\ loc'[r] = Blank
      /\ \A s \in Runs : s # r => pc'[s] = pc[s]
  BY <1>1 DEF Go, TypeOK
<1>5. \A s \in Runs : (Live(s))' => s = r
  BY <1>2, <1>4 DEF Live
<1>6. Partials' = Partials /\ Completes' = Completes
  BY <1>1 DEF Partials, Completes
<1>7. LockInv'
  BY <1>1, <1>5 DEF LockInv
<1>8. OrderedUse'
  <2> SUFFICES ASSUME NEW q \in Runs, NEW s \in Runs, q < s,
                      (Live(q))' \/ pc'[q] = "idle"
               PROVE  pc'[s] = "idle"
    BY DEF OrderedUse
  <2>1. CASE q = r
    BY <2>1, <1>1, <1>4 DEF CaptureInv, OrderedUse, Runs
  <2>2. CASE q # r
    <3>1. pc[q] = "idle"
      BY <2>2, <1>4, <1>5
    <3>2. ~(q < r)
      BY <1>1, <3>1
    <3>3. s # r
      BY <3>2
    <3> QED BY <3>1, <3>3, <1>4 DEF CaptureInv, OrderedUse
  <2> QED BY <2>1, <2>2
<1>9. IdInv'
  <2>1. header[<<r, "partial">>] = Absent /\ header[<<r, "fresh">>] = Absent
    BY <1>1 DEF CaptureInv, IdInv
  <2>2. Absent.stage = "absent"
    BY DEF Absent
  <2> SUFFICES ASSUME NEW s \in Runs
               PROVE  /\ pc'[s] = "idle" => header[<<s, "partial">>] = Absent
                                            /\ header[<<s, "fresh">>] = Absent
                      /\ (Live(s))' => /\ header[<<s, "partial">>].stage # "complete"
                                       /\ header[<<s, "fresh">>].stage = "absent"
    BY <1>1 DEF IdInv, Absent
  <2> QED BY <1>4, <1>5, <2>1, <2>2 DEF CaptureInv, IdInv
<1>10. PartInv'
  <2>1. loc'[r].part = None /\ loc'[r].carried = {}
    BY <1>4 DEF Blank
  <2> QED BY <1>4, <1>5, <2>1 DEF PartInv, HasPart
<1> QED
  BY <1>3, <1>6, <1>7, <1>8, <1>9, <1>10
  DEF CaptureInv, OnlyPartials, NewerInv

(***************************************************************************)
(* Dropping the older partials leaves the run's own.                       *)
(***************************************************************************)
LEMMA DropOlderStep ==
    ASSUME CaptureInv, NEW r \in Runs, DropOlder(r)
    PROVE  CaptureInv'
<1>0. /\ TypeOK /\ loc[r] \in LocType /\ facts \in FactsType /\ header \in HeaderType
      /\ Live(r) /\ PartOK(r) /\ pc[r] = "dropOlder"
  BY PartOfLive
  DEF DropOlder, CaptureInv, TypeOK, LocType, FactsType, HeaderType, Live, Stages
<1>1. /\ header' = [i \in Ids |-> IF i \in loc[r].older THEN Absent ELSE header[i]]
      /\ Go(r, "dropOlderFacts", loc[r]) /\ UNCHANGED <<head, aged, lock, facts>>
  BY DEF DropOlder
<1>2. /\ loc[r].part \in Ids /\ loc[r].part \notin loc[r].older
      /\ header[loc[r].part].stage # "complete"
      /\ \A i \in loc[r].older : header[i].stage # "complete"
      /\ Partials \subseteq {loc[r].part} \cup loc[r].older
  BY <1>0, CaptureAssumption DEF PartOK, HasPart
<1>3. Absent \in [stage : {"absent", "partial", "complete"}, cursor : 0 .. MaxPkg, total : Nat]
      /\ Absent.stage = "absent"
  BY CaptureAssumption DEF Absent, Null
<1>4. header' \in HeaderType
  BY <1>0, <1>1, <1>3 DEF HeaderType
<1>5. \A j \in Ids : header'[j] = IF j \in loc[r].older THEN Absent ELSE header[j]
  BY <1>1
<1>6. Shrinks
  BY <1>2, <1>3, <1>5 DEF Shrinks
<1>7. TypeOK'
  BY <1>0, <1>1, <1>4, GoKeepsTypes DEF Stages
<1>8. pc'[r] = "dropOlderFacts" /\ loc'[r] = loc[r]
  BY <1>0, <1>1 DEF Go, TypeOK
<1>9. Partials' \subseteq {loc[r].part}
  BY <1>2, <1>3, <1>5 DEF Partials
<1>10. \A i \in loc[r].older : header'[i].stage # "complete"
  BY <1>0, <1>3, <1>5 DEF LocType
<1>11. PartOK(r)'
  BY <1>0, <1>1, <1>2, <1>5, <1>8, <1>9, <1>10 DEF PartOK, HasPart, Early
<1> QED BY <1>0, <1>1, <1>6, <1>7, <1>11, LocalShrink DEF Stages

(***************************************************************************)
(* Crash and environment.                                                  *)
(***************************************************************************)
LEMMA CrashStep ==
    ASSUME CaptureInv, Crash
    PROVE  CaptureInv'
<1>1. PICK r \in Runs : Live(r)
  BY DEF Crash
<1>2. /\ TypeOK /\ lock' = None /\ UNCHANGED <<head, aged, header, facts>>
      /\ pc' = [s \in Runs |-> IF Live(s) THEN "failed" ELSE pc[s]]
      /\ loc' = [s \in Runs |-> Blank]
  BY DEF Crash, CaptureInv
<1>3. pc' \in [Runs -> Stages \cup {"idle", "done", "failed"}] /\ loc' \in [Runs -> LocType]
  BY <1>2, BlankType DEF TypeOK
<1>4. TypeOK'
  BY <1>2, <1>3 DEF TypeOK, LocType
<1>5. pc'[r] = "failed" /\ \A s \in Runs : s # r => pc'[s] = pc[s]
  BY <1>1, <1>2, OnlyOneLive
<1> QED BY <1>1, <1>2, <1>3, <1>4, <1>5, EndStep

(***************************************************************************)
(* A vanished partial, a new package and a new day change no run's part.   *)
(***************************************************************************)
LEMMA EnvironmentSteps ==
    ASSUME CaptureInv, PartialVanishes \/ PublishPackage \/ DayPasses \/ UNCHANGED vars
    PROVE  CaptureInv'
<1>0. TypeOK /\ header \in HeaderType
  BY DEF CaptureInv, TypeOK, HeaderType
<1>1. CASE PartialVanishes
  <2>1. PICK i \in Partials : header' = [header EXCEPT ![i] = Absent]
    BY <1>1 DEF PartialVanishes
  <2>2. UNCHANGED <<head, aged, lock, pc, loc, facts>>
    BY <1>1 DEF PartialVanishes
  <2>3. Absent \in [stage : {"absent", "partial", "complete"}, cursor : 0 .. MaxPkg, total : Nat]
        /\ Absent.stage = "absent"
    BY CaptureAssumption DEF Absent, Null
  <2>4. \A j \in Ids : header'[j] = IF j = i THEN Absent ELSE header[j]
    BY <1>0, <2>1 DEF HeaderType
  <2>5. header' \in HeaderType
    BY <1>0, <2>1, <2>3 DEF HeaderType
  <2>6. TypeOK'
    BY <1>0, <2>2, <2>5 DEF TypeOK, HeaderType
  <2>7. Shrinks
    BY <2>3, <2>4 DEF Shrinks, Partials
  <2>8. \A s \in Runs : ((Live(s))' <=> Live(s)) /\ (pc'[s] = "idle" <=> pc[s] = "idle")
    BY <2>2 DEF Live
  <2>9. /\ LockInv' /\ OrderedUse' /\ IdInv' /\ OnlyPartials' /\ NewerInv'
        /\ Completes' = Completes /\ Partials' \subseteq Partials
    BY <2>2, <2>7, <2>8, ShrinkStep
  <2>10. PartInv'
    <3> SUFFICES ASSUME NEW s \in Runs, (Live(s))' PROVE PartOK(s)'
      BY DEF PartInv, PartOK
    <3>1. PartOK(s) /\ pc'[s] = pc[s] /\ loc'[s] = loc[s]
      BY <2>2, <2>8, PartOfLive
    <3>2. loc[s].part # None => loc[s].part \in Ids
      BY <1>0 DEF TypeOK
    <3>3. loc[s].part # None => header'[loc[s].part].stage # "complete"
      BY <3>1, <3>2, <2>3, <2>4 DEF PartOK
    <3>4. loc[s].older \subseteq Ids
      BY <1>0 DEF TypeOK
    <3>5. \A j \in Ids : header[j].stage # "complete" => header'[j].stage # "complete"
      BY <2>3, <2>4
    <3> QED BY <3>1, <3>3, <3>4, <3>5, <2>9 DEF PartOK
  <2> QED BY <2>6, <2>9, <2>10 DEF CaptureInv
<1>2. CASE PublishPackage \/ DayPasses \/ UNCHANGED vars
  <2>1. UNCHANGED <<lock, pc, loc, header, facts>>
    BY <1>2 DEF PublishPackage, DayPasses, vars
  <2>2. head' \in 0 .. MaxPkg /\ aged' \in 0 .. MaxRuns
    BY <1>0, <1>2, CaptureAssumption DEF PublishPackage, DayPasses, vars, TypeOK
  <2>3. TypeOK'
    BY <1>0, <2>1, <2>2 DEF TypeOK
  <2>4. Partials' = Partials /\ Completes' = Completes
    BY <2>1 DEF Partials, Completes
  <2>5. LockInv' /\ OrderedUse' /\ IdInv'
    BY <2>1 DEF CaptureInv, LockInv, OrderedUse, IdInv, Live
  <2>6. OnlyPartials' /\ NewerInv'
    BY <2>4 DEF CaptureInv, OnlyPartials, NewerInv
  <2>7. PartInv'
    BY <2>1, <2>4 DEF CaptureInv, PartInv, Live
  <2> QED BY <2>3, <2>5, <2>6, <2>7 DEF CaptureInv
<1> QED BY <1>1, <1>2

(***************************************************************************)
(* Every step keeps the invariant.                                         *)
(***************************************************************************)
LEMMA NextInv ==
    ASSUME CaptureInv, [Next]_vars
    PROVE  CaptureInv'
<1>1. ASSUME NEW r \in Runs, RunStep(r) PROVE CaptureInv'
  <2>1. CASE \/ DetectFresh(r) \/ DetectPartial(r) \/ DropOlderFacts(r)
             \/ DropNewestFacts(r) \/ Resume(r)
    BY <2>1, DetectSteps
  <2>2. CASE \/ ProbePage(r) \/ Deadline(r) \/ FetchError(r) \/ CkptHeaderFails(r)
             \/ CkptFacts(r) \/ CkptFactsFails(r) \/ CloseGaps(r) \/ NoGaps(r)
             \/ GapFacts(r) \/ PublishFresh(r) \/ FreshFacts(r)
    BY <2>2, WalkSteps
  <2>3. CASE CkptHeader(r)
    BY <2>3, CkptHeaderStep
  <2>4. CASE GapHeader(r)
    BY <2>4, GapHeaderStep
  <2>5. CASE DropNewest(r)
    BY <2>5, DropNewestStep
  <2>6. CASE Promote(r) \/ FreshHeader(r)
    <3>1. \E i : Publishes(r, i)
      BY <2>6 DEF Publishes
    <3> QED BY <3>1, PublishSteps
  <2>7. CASE GapFactsFails(r) \/ FreshFactsFails(r) \/ Throws(r)
    BY <2>7, EndingSteps
  <2>8. CASE Begin(r)
    BY <2>8, BeginStep
  <2>9. CASE DropOlder(r)
    BY <2>9, DropOlderStep
  <2> QED
    BY <1>1, <2>1, <2>2, <2>3, <2>4, <2>5, <2>6, <2>7, <2>8, <2>9 DEF RunStep
<1> QED BY <1>1, CrashStep, EnvironmentSteps DEF Next

(***************************************************************************)
(* The invariant holds in every reachable state, from a clean start and    *)
(* from one with partials left behind.  It has to say more than the        *)
(* property it is for: that a run past the detection owns the only partial *)
(* is kept at a creation only because a run that creates one has none      *)
(* (PartInv), because nobody else is live (LockInv) and because the ids a  *)
(* run creates are its own and unused (IdInv, OrderedUse).                 *)
(***************************************************************************)
THEOREM CaptureInvariant == Spec \/ LeftoverSpec => []CaptureInv
<1>1. LeftoverInit => CaptureInv
  BY InitInv
<1>2. CaptureInv /\ [Next]_vars => CaptureInv'
  BY NextInv
<1> QED BY <1>1, <1>2, CleanStart, PTL DEF Spec, LeftoverSpec

(***************************************************************************)
(* Type correctness of a capture: headers, facts and the locals of every   *)
(* run stay in their types over every history of runs and crashes.         *)
(***************************************************************************)
THEOREM TypeCorrect == Spec \/ LeftoverSpec => []TypeOK
<1>1. CaptureInv => TypeOK
  BY DEF CaptureInv
<1> QED BY <1>1, CaptureInvariant, PTL

(***************************************************************************)
(* A run past detectMainnetResume owns the only partial there is, however  *)
(* many were left behind, whatever crashes, failed writes and vanished     *)
(* partials came before it.                                                *)
(***************************************************************************)
THEOREM OnlyPartialOwned == Spec \/ LeftoverSpec => []OwnsTheOnlyPartial
<1>1. CaptureInv => OwnsTheOnlyPartial
  BY DEF CaptureInv, PartInv, OwnsTheOnlyPartial, Past, Live, Stages
<1> QED BY <1>1, CaptureInvariant, PTL

(***************************************************************************)
(* A step that publishes nothing leaves what is published alone.           *)
(***************************************************************************)
Quiet ==
    /\ Completes' = Completes
    /\ \A i \in Completes : header'[i] = header[i] /\ facts'[i] = facts[i]

(***************************************************************************)
(* Writing the header of an id that is not complete, before and after,     *)
(* leaves what is published alone.                                         *)
(***************************************************************************)
LEMMA HeaderWriteQuiet ==
    ASSUME TypeOK, NEW i \in Ids, i \notin Completes, header'[i].stage # "complete",
           \A j \in Ids : j # i => header'[j] = header[j], UNCHANGED facts
    PROVE  Quiet
<1>1. Completes' = Completes
  BY DEF Completes
<1> QED BY <1>1 DEF Quiet, Completes

(***************************************************************************)
(* Inserting facts of an id that is not complete leaves what is published  *)
(* alone.                                                                  *)
(***************************************************************************)
LEMMA InsertQuiet ==
    ASSUME TypeOK, NEW i, NEW S, i \notin Completes, NEW w, InsertAs(i, S, w), UNCHANGED header
    PROVE  Quiet
<1>1. Completes' = Completes
  BY DEF Completes
<1>2. \A j \in Completes : facts'[j] = facts[j]
  BY DEF InsertAs, Completes, TypeOK
<1> QED BY <1>1, <1>2 DEF Quiet

(***************************************************************************)
(* So does writing nothing.                                                *)
(***************************************************************************)
LEMMA NoWriteQuiet ==
    ASSUME UNCHANGED <<header, facts>>
    PROVE  Quiet
BY DEF Quiet, Completes

(***************************************************************************)
(* The steps that insert or drop facts leave what is published alone.      *)
(***************************************************************************)
LEMMA FactsSteps ==
    ASSUME CaptureInv, NEW r \in Runs,
           \/ CkptFacts(r) \/ CkptFactsFails(r) \/ GapFacts(r) \/ GapFactsFails(r)
           \/ FreshFacts(r) \/ FreshFactsFails(r) \/ DropNewestFacts(r) \/ DropOlderFacts(r)
    PROVE  Quiet
<1>0. /\ TypeOK /\ Live(r) /\ PartOK(r) /\ UNCHANGED header
  BY PartOfLive
  DEF CaptureInv, Live, Stages, CkptFacts, CkptFactsFails, GapFacts, GapFactsFails,
      FreshFacts, FreshFactsFails, DropNewestFacts, DropOlderFacts
<1>1. pc[r] \in HasPart => loc[r].part \in Ids \ Completes
  BY <1>0, CaptureAssumption DEF PartOK, Completes
<1>2. <<r, "fresh">> \notin Completes
  BY <1>0 DEF CaptureInv, IdInv, Completes
<1>3. CASE DropNewestFacts(r)
  <2>1. loc[r].part \in Ids \ Completes /\ facts' = [facts EXCEPT ![loc[r].part] = NoFacts]
    BY <1>1, <1>3 DEF DropNewestFacts, HasPart
  <2>2. Completes' = Completes
    BY <1>0 DEF Completes
  <2>3. \A j \in Completes : facts'[j] = facts[j]
    BY <1>0, <2>1 DEF Completes, TypeOK
  <2> QED BY <1>0, <2>2, <2>3 DEF Quiet
<1>4. CASE CkptFacts(r) \/ CkptFactsFails(r) \/ GapFacts(r) \/ GapFactsFails(r)
  <2>1. pc[r] \in HasPart /\ \E T, w : InsertAs(loc[r].part, T, w)
    BY <1>4 DEF CkptFacts, CkptFactsFails, GapFacts, GapFactsFails, HasPart, Insert
  <2> QED BY <1>0, <1>1, <2>1, InsertQuiet
<1>5. CASE FreshFacts(r) \/ FreshFactsFails(r)
  <2>1. \E T : InsertAs(<<r, "fresh">>, T, Prober(r))
    BY <1>5 DEF FreshFacts, FreshFactsFails
  <2> QED BY <1>0, <1>2, <2>1, InsertQuiet
<1>6. CASE DropOlderFacts(r)
  <2>1. /\ \A i \in loc[r].older : i \notin Completes
        /\ facts' = [i \in Ids |-> IF i \in loc[r].older THEN NoFacts ELSE facts[i]]
    BY <1>0, <1>6 DEF DropOlderFacts, PartOK, Completes
  <2>2. Completes' = Completes
    BY <1>0 DEF Completes
  <2>3. \A j \in Completes : facts'[j] = facts[j]
    BY <2>1 DEF Completes
  <2> QED BY <1>0, <2>2, <2>3 DEF Quiet
<1> QED BY <1>3, <1>4, <1>5, <1>6

(***************************************************************************)
(* So do the steps that write a header without publishing it.              *)
(***************************************************************************)
LEMMA HeaderSteps ==
    ASSUME CaptureInv, NEW r \in Runs,
           CkptHeader(r) \/ GapHeader(r) \/ DropNewest(r) \/ DropOlder(r)
    PROVE  Quiet
<1>0. /\ TypeOK /\ Live(r) /\ PartOK(r) /\ UNCHANGED facts
      /\ header \in [Ids -> [stage : {"absent", "partial", "complete"},
                             cursor : 0 .. MaxPkg, total : Nat]]
  BY PartOfLive DEF CaptureInv, Live, Stages, CkptHeader, GapHeader, DropNewest, DropOlder, TypeOK
<1>1. <<r, "partial">> \in Ids \ Completes
  BY <1>0 DEF CaptureInv, IdInv, Completes, Ids
<1>2. loc[r].part # None => loc[r].part \in Ids \ Completes
  BY <1>0 DEF PartOK, Completes, TypeOK
<1>3. ASSUME NEW c, CreatePartial(r, <<r, "partial">>, c) PROVE Quiet
  <2>1. \A j \in Ids : header'[j] = IF j = <<r, "partial">>
            THEN [stage |-> "partial", cursor |-> c, total |-> 0] ELSE header[j]
    BY <1>0, <1>3 DEF CreatePartial
  <2> QED BY <1>0, <1>1, <2>1, HeaderWriteQuiet
<1>4. CASE CkptHeader(r) /\ loc[r].part # None
  <2>1. header' = IF header[loc[r].part].stage = "absent" THEN header
                  ELSE [header EXCEPT ![loc[r].part].cursor = loc[r].cursor]
    BY <1>4 DEF CkptHeader
  <2>2. header'[loc[r].part].stage = header[loc[r].part].stage
        /\ \A j \in Ids : j # loc[r].part => header'[j] = header[j]
    BY <1>0, <1>2, <1>4, <2>1
  <2>3. header'[loc[r].part].stage # "complete"
    BY <1>2, <1>4, <2>2 DEF Completes
  <2> QED BY <1>0, <1>2, <1>4, <2>2, <2>3, HeaderWriteQuiet
<1>5. CASE DropNewest(r)
  <2>1. pc[r] = "dropNewest" /\ header' = [header EXCEPT ![loc[r].part] = Absent]
    BY <1>5 DEF DropNewest
  <2>2. loc[r].part \in Ids \ Completes
    BY <1>0, <1>2, <2>1, CaptureAssumption DEF PartOK, HasPart
  <2>3. \A j \in Ids : header'[j] = IF j = loc[r].part THEN Absent ELSE header[j]
    BY <1>0, <2>1
  <2>4. Absent.stage # "complete"
    BY DEF Absent
  <2> QED BY <1>0, <2>2, <2>3, <2>4, HeaderWriteQuiet
<1>6. CASE DropOlder(r)
  <2>1. /\ header' = [i \in Ids |-> IF i \in loc[r].older THEN Absent ELSE header[i]]
        /\ \A i \in loc[r].older : i \notin Completes
    BY <1>0, <1>6 DEF DropOlder, PartOK, Completes
  <2>2. Absent.stage # "complete"
    BY DEF Absent
  <2>3. Completes' = Completes
    BY <2>1, <2>2 DEF Completes
  <2> QED BY <1>0, <2>1, <2>3 DEF Quiet, Completes
<1> QED BY <1>3, <1>4, <1>5, <1>6 DEF CkptHeader, GapHeader

(***************************************************************************)
(* Every step but the two that publish leaves what is published alone.     *)
(***************************************************************************)
LEMMA QuietSteps ==
    ASSUME CaptureInv, [Next]_vars, \A r \in Runs : ~Promote(r) /\ ~FreshHeader(r)
    PROVE  Quiet
<1>1. ASSUME NEW r \in Runs, RunStep(r) PROVE Quiet
  <2>1. CASE \/ CkptFacts(r) \/ CkptFactsFails(r) \/ GapFacts(r) \/ GapFactsFails(r)
             \/ FreshFacts(r) \/ FreshFactsFails(r) \/ DropNewestFacts(r) \/ DropOlderFacts(r)
    BY <2>1, FactsSteps
  <2>2. CASE CkptHeader(r) \/ GapHeader(r) \/ DropNewest(r) \/ DropOlder(r)
    BY <2>2, HeaderSteps
  <2>3. CASE \/ Begin(r) \/ DetectFresh(r) \/ DetectPartial(r) \/ Resume(r)
             \/ ProbePage(r) \/ Deadline(r) \/ FetchError(r) \/ CkptHeaderFails(r)
             \/ CloseGaps(r) \/ NoGaps(r) \/ PublishFresh(r) \/ Throws(r)
    <3>1. UNCHANGED <<header, facts>>
      BY <2>3
      DEF Begin, DetectFresh, DetectPartial, Resume, ProbePage, Deadline, FetchError,
          CkptHeaderFails, CloseGaps, NoGaps, PublishFresh, Throws
    <3> QED BY <3>1, NoWriteQuiet
  <2> QED BY <1>1, <2>1, <2>2, <2>3 DEF RunStep
<1>2. CASE PartialVanishes
  <2>1. PICK i \in Partials : header' = [header EXCEPT ![i] = Absent]
    BY <1>2 DEF PartialVanishes
  <2>2. TypeOK /\ UNCHANGED facts /\ i \in Ids /\ i \notin Completes
    BY <1>2 DEF PartialVanishes, CaptureInv, Partials, Completes
  <2>3. \A j \in Ids : header'[j] = IF j = i THEN Absent ELSE header[j]
    BY <2>1, <2>2 DEF TypeOK
  <2>4. Absent.stage # "complete"
    BY DEF Absent
  <2> QED BY <2>2, <2>3, <2>4, HeaderWriteQuiet
<1>3. CASE Crash \/ PublishPackage \/ DayPasses \/ UNCHANGED vars
  BY <1>3, NoWriteQuiet DEF Crash, PublishPackage, DayPasses, vars
<1> QED BY <1>1, <1>2, <1>3 DEF Next

(***************************************************************************)
(* The initial collections map to the initial store.                       *)
(***************************************************************************)
LEMMA StoreInit == LeftoverInit => Store!Init
<1> SUFFICES ASSUME LeftoverInit PROVE Store!Init
  OBVIOUS
<1>1. Completes = {}
  BY DEF LeftoverInit, Leftover, Completes, Absent
<1>2. [i \in Completes |-> <<header[i].total, facts[i]>>] = [i \in {} |-> {}]
  BY <1>1
<1> QED BY <1>1, <1>2 DEF Store!Init

(***************************************************************************)
(* Every step maps to a publication of the store or to a stutter.          *)
(***************************************************************************)
LEMMA StoreStep ==
    ASSUME CaptureInv, [Next]_vars
    PROVE  [Store!Next]_<<[i \in Completes |-> <<header[i].total, facts[i]>>],
                          IF Completes = {} THEN None ELSE Newest(Completes)>>
<1>1. CASE \E r \in Runs : Promote(r) \/ FreshHeader(r)
  <2>0. PICK r \in Runs : Promote(r) \/ FreshHeader(r)
    BY <1>1
  <2>1. PICK i : Publishes(r, i)
    BY <2>0 DEF Publishes
  <2>2. /\ i \in Ids /\ i \notin Completes /\ UNCHANGED facts
        /\ Completes' = Completes \cup {i}
        /\ \A j \in Ids : j # i => header'[j] = header[j]
        /\ \A j \in Completes : j[1] < i[1]
    BY <2>1, PublishSteps
  <2>3. Newest(Completes') = i
    <3>1. i[1] \in Nat /\ \A j \in Completes : j[1] \in Nat
      BY <2>2, CaptureAssumption DEF Completes, Ids, Runs
    <3>2. i \in Completes' /\ \A j \in Completes' : j[1] <= i[1]
      BY <2>2, <3>1
    <3>3. \A k \in Completes' : (\A j \in Completes' : j[1] <= k[1]) => k = i
      BY <2>2, <3>1
    <3> QED BY <3>2, <3>3 DEF Newest
  <2>4. \A j \in Completes : header'[j] = header[j] /\ facts'[j] = facts[j]
    BY <2>2 DEF Completes
  <2>5. Store!Publish(i)
    BY <2>2, <2>3, <2>4 DEF Store!Publish
  <2> QED BY <2>2, <2>5 DEF Store!Next
<1>2. CASE \A r \in Runs : ~Promote(r) /\ ~FreshHeader(r)
  <2>1. Completes' = Completes
        /\ \A i \in Completes : header'[i] = header[i] /\ facts'[i] = facts[i]
    BY <1>2, QuietSteps DEF Quiet
  <2>2. Newest(Completes)' = Newest(Completes)
    BY <2>1 DEF Newest
  <2> QED BY <2>1, <2>2
<1> QED BY <1>1, <1>2

(***************************************************************************)
(* The collections implement the append-only store: what is published      *)
(* never changes, never disappears, and the latest snapshot only moves to  *)
(* the one published last.                                                 *)
(***************************************************************************)
THEOREM AppendOnly == Spec \/ LeftoverSpec => PublishedOnce
<1>1. LeftoverInit => Store!Init
  BY StoreInit
<1>2. CaptureInv /\ [Next]_vars =>
        [Store!Next]_<<[i \in Completes |-> <<header[i].total, facts[i]>>],
                       IF Completes = {} THEN None ELSE Newest(Completes)>>
  BY StoreStep
<1> QED BY <1>1, <1>2, CaptureInvariant, CleanStart, PTL
DEF Spec, LeftoverSpec, PublishedOnce, Store!Spec

(***************************************************************************)
(* What is stored against what is counted.                                 *)
(*                                                                         *)
(* Kept is what a run knows to be stored under its partial: the facts it   *)
(* carried forward and the batches it flushed, which are disjoint.  While  *)
(* the run walks, nothing else is stored there.  A checkpoint that failed  *)
(* stored some of one more batch; gap-closing stored addresses that were   *)
(* not there.  A batch is shorter than a checkpoint window when a page     *)
(* starts, and a page adds at most PageSize to it.                         *)
(***************************************************************************)
Kept(l) == l.carried \cup l.flushed
Unflushed(l) == l.probed \ l.flushed

Walking == {"walk", "ckptHeader", "ckptFacts"}

CountsAt(r, stage, l) ==
    /\ stage \in Early =>
          l.carried = {} /\ l.probed = {} /\ l.flushed = {} /\ l.end = "no"
    /\ stage \in Early \cup Walking \cup {"gap"} => l.gap = {}
    /\ l.flushed \subseteq l.probed /\ l.carried \cap l.flushed = {}
    /\ stage = "walk" => Cardinality(Unflushed(l)) < CheckpointEveryN /\ l.end = "no"
    /\ Cardinality(Unflushed(l)) < CheckpointEveryN + PageSize
    /\ stage \notin Early /\ l.part = None => Kept(l) = {}
    /\ stage \in Walking /\ l.part # None => Stored(l.part) = Kept(l)
    /\ stage \in {"gap", "gapFacts"} /\ l.part # None =>
          /\ Kept(l) \subseteq Stored(l.part)
          /\ Stored(l.part) \subseteq l.carried \cup l.probed
    /\ stage = "publish" /\ l.part # None =>
          /\ Kept(l) \subseteq Stored(l.part) \ l.gap
          /\ l.gap \subseteq Stored(l.part)
          /\ Stored(l.part) \ l.gap \subseteq l.carried \cup l.probed
    /\ stage = "freshFacts" /\ l.part # None => l.carried \subseteq Stored(l.part)
    /\ stage = "freshHeader" =>
          /\ Stored(<<r, "fresh">>) = Listed(l)
          /\ Total(l) = Cardinality(Listed(l))

(***************************************************************************)
(* The locals of a run that is not live are blank.  The partial of a live  *)
(* run was created as a partial, by a run that has begun.  The ids that a  *)
(* run has not written to hold no facts.                                   *)
(***************************************************************************)
BlankInv == \A r \in Runs : ~Live(r) => loc[r] = Blank

KindInv ==
    \A r \in Runs : Live(r) /\ loc[r].part # None =>
        loc[r].part[2] = "partial" /\ pc[loc[r].part[1]] # "idle"

UnusedPartial(r) == pc[r] = "idle" \/ (Live(r) /\ loc[r].part # <<r, "partial">>)
UnusedFresh(r) == pc[r] = "idle" \/ (Live(r) /\ pc[r] # "freshHeader")

UnusedInv ==
    \A r \in Runs :
        /\ UnusedPartial(r) => facts[<<r, "partial">>] = NoFacts
        /\ UnusedFresh(r) => facts[<<r, "fresh">>] = NoFacts

RunCounts ==
    /\ BlankInv /\ KindInv /\ UnusedInv
    /\ \A r \in Runs : Live(r) => CountsAt(r, pc[r], loc[r])

WindowLoss ==
    \A i \in Ids : header[i].stage = "complete" =>
        header[i].total - Cardinality(Stored(i)) \in 0 .. (CheckpointEveryN + PageSize - 1)

ExactFresh ==
    \A r \in Runs : header[<<r, "fresh">>].stage = "complete" =>
        header[<<r, "fresh">>].total = Cardinality(Stored(<<r, "fresh">>))

CountInv == RunCounts /\ WindowLoss /\ ExactFresh

(***************************************************************************)
(* Counting sets of packages.                                              *)
(***************************************************************************)
LEMMA PackagesFinite ==
    ASSUME NEW S \in SUBSET Packages
    PROVE  IsFiniteSet(S) /\ Cardinality(S) \in Nat
<1>1. IsFiniteSet(Packages)
  BY FS_Interval, CaptureAssumption DEF Packages
<1> QED BY <1>1, FS_Subset, CountsAreNat

(***************************************************************************)
(* Disjoint parts add up; a part counts no more than the whole; a set and  *)
(* what is added to it count no less than their union.                     *)
(***************************************************************************)
LEMMA CountParts ==
    ASSUME NEW S \in SUBSET Packages, NEW T \in SUBSET Packages
    PROVE  /\ Cardinality(S \cup T) <= Cardinality(S) + Cardinality(T)
           /\ S \cap T = {} => Cardinality(S \cup T) = Cardinality(S) + Cardinality(T)
           /\ S \subseteq T => /\ Cardinality(S) <= Cardinality(T)
                               /\ Cardinality(T \ S) = Cardinality(T) - Cardinality(S)
<1>1. /\ IsFiniteSet(S) /\ IsFiniteSet(T)
      /\ Cardinality(S) \in Nat /\ Cardinality(T) \in Nat
      /\ S \cap T \in SUBSET Packages
  BY PackagesFinite
<1>2. Cardinality(S \cap T) \in Nat
  BY <1>1, PackagesFinite
<1>3. Cardinality(S \cup T) = Cardinality(S) + Cardinality(T) - Cardinality(S \cap T)
  BY <1>1, FS_Union
<1>4. Cardinality(S \cup T) <= Cardinality(S) + Cardinality(T)
  BY <1>1, <1>2, <1>3
<1>5. S \cap T = {} => Cardinality(S \cup T) = Cardinality(S) + Cardinality(T)
  <2>1. S \cap T = {} => Cardinality(S \cap T) = 0
    BY FS_EmptySet
  <2> QED BY <1>1, <1>3, <2>1
<1>6. ASSUME S \subseteq T
      PROVE  /\ Cardinality(S) <= Cardinality(T)
             /\ Cardinality(T \ S) = Cardinality(T) - Cardinality(S)
  <2>1. Cardinality(S) <= Cardinality(T)
    BY <1>1, <1>6, FS_Subset
  <2>2. Cardinality(T \ S) = Cardinality(T) - Cardinality(T \cap S)
    BY <1>1, FS_Difference
  <2>3. T \cap S = S
    BY <1>6
  <2> QED BY <2>1, <2>2, <2>3
<1> QED BY <1>4, <1>5, <1>6

(***************************************************************************)
(* A page holds at most PageSize packages to probe.                        *)
(***************************************************************************)
LEMMA PageCount ==
    ASSUME TypeOK, NEW c \in 0 .. MaxPkg, NEW S \in SUBSET Probeable(c)
    PROVE  S \in SUBSET Packages /\ Cardinality(S) <= PageSize
<1>1. S \in SUBSET Packages
  BY PageType
<1>2. Top(c) \in Int /\ StartCursor(c) \in Int /\ PageSize \in Nat \ {0}
      /\ (Top(c) > PageSize => StartCursor(c) = Top(c) - PageSize + 1)
      /\ (~(Top(c) > PageSize) => StartCursor(c) = 1)
  BY CaptureAssumption DEF TypeOK, Top, StartCursor, Null
<1>3. IsFiniteSet(Page(c)) /\ Cardinality(Page(c)) <= PageSize
  <2>1. /\ IsFiniteSet(Page(c))
        /\ Cardinality(Page(c)) = IF StartCursor(c) > Top(c) THEN 0
                                  ELSE Top(c) - StartCursor(c) + 1
    BY <1>2, FS_Interval DEF Page
  <2> QED BY <1>2, <2>1
<1>4. S \in SUBSET Page(c)
  BY DEF Probeable
<1>5. Cardinality(S) <= Cardinality(Page(c)) /\ Cardinality(S) \in Nat
  BY <1>1, <1>3, <1>4, FS_Subset, PackagesFinite
<1>6. Cardinality(Page(c)) \in Nat
  BY <1>3, FS_CardinalityType
<1> QED BY <1>1, <1>2, <1>3, <1>5, <1>6

(***************************************************************************)
(* The difference between what a run publishes and what is stored under    *)
(* its partial: at most what it probed and did not flush.                  *)
(***************************************************************************)
LEMMA PublishedLoss ==
    ASSUME NEW l \in LocType, NEW stored \in SUBSET Packages,
           l.flushed \subseteq l.probed, l.carried \cap l.flushed = {},
           Kept(l) \subseteq stored \ l.gap, l.gap \subseteq stored,
           stored \ l.gap \subseteq l.carried \cup l.probed,
           Cardinality(Unflushed(l)) < CheckpointEveryN + PageSize
    PROVE  Total(l) - Cardinality(stored) \in 0 .. (CheckpointEveryN + PageSize - 1)
<1> DEFINE kept == stored \ l.gap
<1>1. /\ l.carried \in SUBSET Packages /\ l.probed \in SUBSET Packages
      /\ l.flushed \in SUBSET Packages /\ l.gap \in SUBSET Packages
      /\ kept \in SUBSET Packages
  BY DEF LocType
<1>2. l.carried \ l.gap = l.carried
  BY DEF Kept
<1>3. Cardinality(stored) = Cardinality(kept) + Cardinality(l.gap)
  <2>1. kept \cup l.gap = stored /\ kept \cap l.gap = {}
    OBVIOUS
  <2> QED BY <1>1, <2>1, CountParts
<1>4. Cardinality(kept) <= Cardinality(l.carried) + Cardinality(l.probed)
  <2>1. Cardinality(kept) <= Cardinality(l.carried \cup l.probed)
    BY <1>1, CountParts
  <2>2. Cardinality(l.carried \cup l.probed) <= Cardinality(l.carried) + Cardinality(l.probed)
    BY <1>1, CountParts
  <2>3. /\ Cardinality(kept) \in Nat /\ Cardinality(l.carried \cup l.probed) \in Nat
        /\ Cardinality(l.carried) \in Nat /\ Cardinality(l.probed) \in Nat
    BY <1>1, PackagesFinite
  <2> QED BY <2>1, <2>2, <2>3
<1>5. Cardinality(l.carried) + Cardinality(l.flushed) <= Cardinality(kept)
  <2>1. Cardinality(Kept(l)) = Cardinality(l.carried) + Cardinality(l.flushed)
    BY <1>1, CountParts DEF Kept
  <2>2. Cardinality(Kept(l)) <= Cardinality(kept)
    <3>1. Kept(l) \in SUBSET Packages /\ Kept(l) \subseteq kept
      BY <1>1 DEF Kept
    <3> QED BY <1>1, <3>1, CountParts
  <2> QED BY <2>1, <2>2
<1>6. Cardinality(Unflushed(l)) = Cardinality(l.probed) - Cardinality(l.flushed)
  BY <1>1, CountParts DEF Unflushed
<1>7. /\ Cardinality(l.carried) \in Nat /\ Cardinality(l.probed) \in Nat
      /\ Cardinality(l.flushed) \in Nat /\ Cardinality(l.gap) \in Nat
      /\ Cardinality(kept) \in Nat
  BY <1>1, PackagesFinite
<1>8. Total(l) = Cardinality(l.carried) + Cardinality(l.probed) + Cardinality(l.gap)
  BY <1>2 DEF Total
<1> DEFINE c == Cardinality(l.carried)
           p == Cardinality(l.probed)
           f == Cardinality(l.flushed)
           g == Cardinality(l.gap)
           k == Cardinality(kept)
           t == Total(l)
           d == Cardinality(stored)
<1>9. t = c + p + g /\ d = k + g /\ c + f <= k /\ k <= c + p
  BY <1>3, <1>4, <1>5, <1>8
<1>10. p - f < CheckpointEveryN + PageSize
  BY <1>6
<1>11. c \in Nat /\ p \in Nat /\ f \in Nat /\ g \in Nat /\ k \in Nat
  BY <1>7
<1> SUFFICES t - d \in 0 .. (CheckpointEveryN + PageSize - 1)
  OBVIOUS
<1> HIDE DEF c, p, f, g, k, t, d
<1> QED BY <1>9, <1>10, <1>11, CaptureAssumption

(***************************************************************************)
(* What is stored under an id after an insertion, and under the others.    *)
(***************************************************************************)
LEMMA InsertAsStores ==
    ASSUME TypeOK, NEW i \in Ids, NEW S \in SUBSET Packages, NEW w, InsertAs(i, S, w),
           \A k \in S : w[k] # 0
    PROVE  /\ Stored(i)' = Stored(i) \cup S
           /\ \A j \in Ids : j # i => facts'[j] = facts[j]
<1>1. facts'[i] = [k \in Packages |-> IF k \in S /\ facts[i][k] = 0
                                      THEN w[k] ELSE facts[i][k]]
      /\ \A j \in Ids : j # i => facts'[j] = facts[j]
  BY DEF InsertAs, TypeOK
<1> QED BY <1>1 DEF Stored

(***************************************************************************)
(* So do the packages that a run inserts as its own.                       *)
(***************************************************************************)
LEMMA InsertStores ==
    ASSUME TypeOK, NEW r \in Runs, NEW i \in Ids, NEW S \in SUBSET Packages, Insert(r, i, S)
    PROVE  /\ Stored(i)' = Stored(i) \cup S
           /\ \A j \in Ids : j # i => facts'[j] = facts[j]
<1>1. \A k \in S : [p \in Packages |-> r][k] # 0
  BY CaptureAssumption DEF Runs
<1> QED BY <1>1, InsertAsStores DEF Insert

(***************************************************************************)
(* Nothing is stored under an id without facts.                            *)
(***************************************************************************)
LEMMA NoneStored == \A i : facts[i] = NoFacts => Stored(i) = {}
BY DEF NoFacts, Stored


(***************************************************************************)
(* Quiet steps keep what is known of published snapshots.                  *)
(***************************************************************************)
LEMMA QuietKeepsLoss ==
    ASSUME Quiet, WindowLoss, ExactFresh
    PROVE  WindowLoss' /\ ExactFresh'
<1>1. \A i \in Ids : header'[i].stage = "complete" <=> header[i].stage = "complete"
  BY DEF Quiet, Completes
<1>2. \A i \in Ids : header[i].stage = "complete" =>
        header'[i] = header[i] /\ Stored(i)' = Stored(i)
  BY DEF Quiet, Completes, Stored
<1>3. WindowLoss'
  BY <1>1, <1>2 DEF WindowLoss
<1>4. \A r \in Runs : <<r, "fresh">> \in Ids
  BY DEF Ids
<1>5. ExactFresh'
  BY <1>1, <1>2, <1>4 DEF ExactFresh
<1> QED BY <1>3, <1>5

(***************************************************************************)
(* The frame of a step of a live run: it leaves the other runs alone, what *)
(* it takes for its partial was there or is its own, it writes facts only  *)
(* there and under its own fresh id, and nothing follows the header that   *)
(* is written last.                                                        *)
(***************************************************************************)
WritesOwn(r, stage, l) ==
    /\ l.part \in {None, loc[r].part, <<r, "partial">>} \cup Partials
    /\ \A i \in Ids : \/ facts'[i] = facts[i] \/ facts'[i] = NoFacts
                      \/ i = loc[r].part
                      \/ i = <<r, "fresh">> /\ stage \in {"freshHeader", "failed"}
    /\ loc[r].part = <<r, "partial">> /\ l.part # loc[r].part /\ stage \in Stages =>
          facts'[<<r, "partial">>] = NoFacts
    /\ pc[r] = "freshHeader" => stage \notin Stages

(***************************************************************************)
(* Such a step keeps the counts when it keeps those of the run itself.     *)
(***************************************************************************)
LEMMA FrameStep ==
    ASSUME CaptureInv, RunCounts, NEW r \in Runs, Live(r),
           NEW stage \in Stages \cup {"done", "failed"}, NEW l \in LocType,
           Go(r, stage, l), WritesOwn(r, stage, l),
           stage \notin Stages => l = Blank,
           stage \in Stages => CountsAt(r, stage, l)'
    PROVE  RunCounts'
<1>1. /\ pc'[r] = stage /\ loc'[r] = l
      /\ \A s \in Runs : s # r => pc'[s] = pc[s] /\ loc'[s] = loc[s]
  BY DEF CaptureInv, TypeOK, Go
<1>2. \A s \in Runs : s # r => ~Live(s) /\ ~(Live(s))'
  BY <1>1, OnlyOneLive DEF Live
<1>3. (Live(r))' <=> stage \in Stages
  BY <1>1 DEF Live
<1>4. \A s \in Runs : pc'[s] = "idle" <=> pc[s] = "idle"
  BY <1>1 DEF Live, Stages
<1>5. BlankInv'
  BY <1>1, <1>2, <1>3 DEF BlankInv, RunCounts
<1>6. KindInv'
  <2> SUFFICES ASSUME stage \in Stages, l.part # None
               PROVE  l.part[2] = "partial" /\ pc[l.part[1]] # "idle" /\ l.part[1] \in Runs
    BY <1>1, <1>2, <1>3, <1>4 DEF KindInv
  <2>1. CASE l.part = loc[r].part
    <3>1. l.part \in Ids
      BY DEF LocType
    <3> QED BY <2>1, <3>1 DEF RunCounts, KindInv, Ids
  <2>2. CASE l.part = <<r, "partial">>
    BY <2>2 DEF Live, Stages
  <2>3. CASE l.part \in Partials
    <3>1. PICK q \in Runs, x \in {"partial", "fresh"} : l.part = <<q, x>>
      BY <2>3 DEF Partials, Ids
    <3>2. x = "partial"
      BY <2>3, <3>1 DEF CaptureInv, OnlyPartials
    <3>3. header[<<q, "partial">>] # Absent
      BY <2>3, <3>1, <3>2 DEF Partials, Absent
    <3>4. pc[q] # "idle"
      BY <3>3 DEF CaptureInv, IdInv
    <3>5. l.part[1] = q /\ l.part[2] = x
      BY <3>1
    <3> QED BY <3>2, <3>4, <3>5
  <2> QED BY <2>1, <2>2, <2>3 DEF WritesOwn
<1>7. UnusedInv'
  <2> SUFFICES ASSUME NEW s \in Runs
               PROVE  /\ (UnusedPartial(s))' => facts'[<<s, "partial">>] = NoFacts
                      /\ (UnusedFresh(s))' => facts'[<<s, "fresh">>] = NoFacts
    BY DEF UnusedInv
  <2>1. <<s, "partial">> \in Ids /\ <<s, "fresh">> \in Ids
    BY DEF Ids
  <2>2. loc[r].part # None => loc[r].part[2] = "partial" /\ pc[loc[r].part[1]] # "idle"
    BY DEF RunCounts, KindInv
  <2>3. None # <<s, "partial">> /\ None # <<s, "fresh">>
    BY <2>1, CaptureAssumption
  <2>4. ASSUME (UnusedFresh(s))' PROVE facts'[<<s, "fresh">>] = NoFacts
    <3>1. loc[r].part # <<s, "fresh">>
      BY <2>2, <2>3
    <3>2. CASE s # r
      <4>1. pc[s] = "idle"
        BY <1>2, <1>4, <2>4, <3>2 DEF UnusedFresh
      <4>2. facts[<<s, "fresh">>] = NoFacts
        BY <4>1 DEF RunCounts, UnusedInv, UnusedFresh
      <4> QED BY <2>1, <3>1, <3>2, <4>2 DEF WritesOwn
    <3>3. CASE s = r
      <4>1. stage \in Stages \ {"freshHeader"}
        BY <1>1, <1>3, <2>4, <3>3 DEF UnusedFresh, Stages
      <4>2. stage \notin {"freshHeader", "failed"}
        BY <4>1 DEF Stages
      <4>3. CASE facts[<<r, "fresh">>] = NoFacts
        BY <2>1, <3>1, <3>3, <4>2, <4>3 DEF WritesOwn
      <4>4. CASE pc[r] = "freshHeader"
        BY <4>1, <4>4 DEF WritesOwn
      <4> QED BY <4>3, <4>4 DEF RunCounts, UnusedInv, UnusedFresh
    <3> QED BY <3>2, <3>3
  <2>5. ASSUME (UnusedPartial(s))' PROVE facts'[<<s, "partial">>] = NoFacts
    <3>1. CASE s # r
      <4>1. pc[s] = "idle"
        BY <1>2, <1>4, <2>5, <3>1 DEF UnusedPartial
      <4>2. facts[<<s, "partial">>] = NoFacts
        BY <4>1 DEF RunCounts, UnusedInv, UnusedPartial
      <4>3. <<s, "partial">> # loc[r].part
        BY <2>2, <2>3, <4>1
      <4> QED BY <2>1, <4>2, <4>3 DEF WritesOwn
    <3>2. CASE s = r
      <4>1. stage \in Stages /\ l.part # <<r, "partial">>
        BY <1>1, <1>3, <2>5, <3>2 DEF UnusedPartial, Live, Stages
      <4>2. CASE loc[r].part = <<r, "partial">>
        BY <3>2, <4>1, <4>2 DEF WritesOwn
      <4>3. CASE loc[r].part # <<r, "partial">>
        <5>1. facts[<<r, "partial">>] = NoFacts
          BY <4>3 DEF RunCounts, UnusedInv, UnusedPartial
        <5> QED BY <2>1, <3>2, <4>3, <5>1 DEF WritesOwn
      <4> QED BY <4>2, <4>3
    <3> QED BY <3>1, <3>2
  <2> QED BY <2>4, <2>5
<1>8. \A s \in Runs : (Live(s))' => CountsAt(s, pc[s], loc[s])'
  BY <1>1, <1>2, <1>3 DEF CountsAt
<1> QED BY <1>5, <1>6, <1>7, <1>8 DEF RunCounts

(***************************************************************************)
(* A live run's own counts.                                                *)
(***************************************************************************)
LEMMA CountsOfLive ==
    ASSUME CaptureInv, RunCounts, NEW r \in Runs, Live(r)
    PROVE  /\ TypeOK /\ loc[r] \in LocType /\ PartOK(r)
           /\ CountsAt(r, pc[r], loc[r])
           /\ loc[r].part # None => loc[r].part \in Ids /\ loc[r].part[2] = "partial"
BY PartOfLive DEF CaptureInv, RunCounts, TypeOK, LocType, KindInv

(***************************************************************************)
(* A run that has collected nothing, during the detection or at the start  *)
(* of a fresh walk.                                                        *)
(***************************************************************************)
LEMMA NothingCounted ==
    ASSUME NEW r \in Runs, NEW stage \in Early \cup {"walk"}, NEW l \in LocType,
           l.carried = {}, l.probed = {}, l.flushed = {}, l.gap = {}, l.end = "no",
           stage = "walk" => l.part = None
    PROVE  CountsAt(r, stage, l)'
<1>1. Unflushed(l) = {} /\ Kept(l) = {}
  BY DEF Unflushed, Kept
<1>2. Cardinality(Unflushed(l)) = 0
  BY <1>1, FS_EmptySet
<1>3. 0 < CheckpointEveryN /\ 0 < CheckpointEveryN + PageSize
  BY CaptureAssumption
<1> QED BY <1>1, <1>2, <1>3 DEF CountsAt, Early, Walking

(***************************************************************************)
(* The steps of detectMainnetResume: nothing is counted until the resumed  *)
(* run carries forward what is stored.                                     *)
(***************************************************************************)
LEMMA DetectCounts ==
    ASSUME CaptureInv, RunCounts, NEW r \in Runs,
           \/ DetectFresh(r) \/ DetectPartial(r) \/ DropOlder(r) \/ DropOlderFacts(r)
           \/ DropNewest(r) \/ DropNewestFacts(r)
    PROVE  RunCounts'
<1>0. pc[r] \in Early /\ Live(r) /\ pc[r] # "freshHeader"
  BY DEF Early, Live, Stages, DetectFresh, DetectPartial, DropOlder, DropOlderFacts,
         DropNewest, DropNewestFacts
<1>1. /\ TypeOK /\ loc[r] \in LocType /\ PartOK(r)
      /\ loc[r].carried = {} /\ loc[r].probed = {} /\ loc[r].flushed = {}
      /\ loc[r].gap = {} /\ loc[r].end = "no"
  BY <1>0, CountsOfLive DEF CountsAt
<1>2. ASSUME NEW stage \in Early \cup {"walk"}, NEW l \in LocType, Go(r, stage, l),
             l.carried = {}, l.probed = {}, l.flushed = {}, l.gap = {}, l.end = "no",
             stage = "walk" => l.part = None, WritesOwn(r, stage, l)
      PROVE  RunCounts'
  <2>1. stage \in Stages
    BY DEF Early, Stages
  <2>2. CountsAt(r, stage, l)'
    BY <1>2, NothingCounted
  <2> QED BY <1>0, <1>2, <2>1, <2>2, FrameStep
<1>3. CASE DetectFresh(r)
  <2>1. Go(r, "walk", loc[r]) /\ loc[r].part = None /\ UNCHANGED facts
    BY <1>1, <1>3 DEF DetectFresh, PartOK
  <2>2. WritesOwn(r, "walk", loc[r])
    BY <1>0, <2>1 DEF WritesOwn
  <2> QED BY <1>1, <1>2, <2>1, <2>2
<1>4. CASE DetectPartial(r)
  <2> DEFINE n == Newest(Partials)
             older == Partials \ {n}
             stage == IF older # {} THEN "dropOlder" ELSE NextOfDetect(header[n].cursor)
             l == [loc[r] EXCEPT !.part = n, !.older = older, !.cursor = header[n].cursor]
  <2>1. Partials \in SUBSET Ids /\ Partials # {}
    BY <1>4 DEF DetectPartial, Partials
  <2>2. n \in Partials
    BY <2>1, NewestIsOne
  <2>3. n \in Ids /\ older \in SUBSET Ids
    BY <2>2 DEF Partials
  <2>4. Go(r, stage, l) /\ UNCHANGED facts /\ pc[r] = "detect"
    BY <1>4 DEF DetectPartial
  <2>5. loc[r].part = None
    BY <1>1, <2>4 DEF PartOK
  <2> HIDE DEF n, older
  <2>6. stage \in Early
    BY DEF Early, NextOfDetect
  <2> HIDE DEF stage
  <2>7. /\ l \in LocType /\ l.part = n
        /\ l.carried = {} /\ l.probed = {} /\ l.flushed = {} /\ l.gap = {} /\ l.end = "no"
    BY <1>1, <2>3 DEF LocType, TypeOK
  <2> HIDE DEF l
  <2>8. WritesOwn(r, stage, l)
    <3>1. loc[r].part # <<r, "partial">>
      BY <2>5, CaptureAssumption DEF Ids
    <3> QED BY <2>2, <2>4, <2>7, <3>1 DEF WritesOwn
  <2>9. stage # "walk"
    BY <2>6 DEF Early
  <2> QED BY <1>2, <2>4, <2>6, <2>7, <2>8, <2>9
<1>5. CASE DropOlder(r) \/ DropNewest(r)
  <2>1. PICK stage \in {"dropOlderFacts", "dropNewestFacts"} :
          Go(r, stage, loc[r]) /\ UNCHANGED facts
    BY <1>5 DEF DropOlder, DropNewest
  <2>2. WritesOwn(r, stage, loc[r])
    BY <1>0, <2>1 DEF WritesOwn
  <2>3. stage \in Early /\ stage # "walk"
    BY DEF Early
  <2> QED BY <1>1, <1>2, <2>1, <2>2, <2>3
<1>6. CASE DropOlderFacts(r)
  <2> DEFINE l == [loc[r] EXCEPT !.older = {}]
             stage == NextOfDetect(loc[r].cursor)
  <2>1. /\ Go(r, stage, l)
        /\ facts' = [i \in Ids |-> IF i \in loc[r].older THEN NoFacts ELSE facts[i]]
    BY <1>6 DEF DropOlderFacts
  <2>2. stage \in Early /\ stage # "walk"
    BY DEF NextOfDetect, Early
  <2> HIDE DEF stage
  <2>3. /\ l \in LocType /\ l.part = loc[r].part
        /\ l.carried = {} /\ l.probed = {} /\ l.flushed = {} /\ l.gap = {} /\ l.end = "no"
    BY <1>1 DEF LocType
  <2> HIDE DEF l
  <2>4. WritesOwn(r, stage, l)
    BY <1>0, <2>1, <2>3 DEF WritesOwn
  <2> QED BY <1>2, <2>1, <2>2, <2>3, <2>4
<1>7. CASE DropNewestFacts(r)
  <2> DEFINE l == [loc[r] EXCEPT !.part = None]
  <2>1. Go(r, "walk", l) /\ facts' = [facts EXCEPT ![loc[r].part] = NoFacts]
    BY <1>7 DEF DropNewestFacts
  <2>2. \A i \in Ids : facts'[i] = IF i = loc[r].part THEN NoFacts ELSE facts[i]
    BY <1>1, <2>1 DEF TypeOK
  <2>3. /\ l \in LocType /\ l.part = None
        /\ l.carried = {} /\ l.probed = {} /\ l.flushed = {} /\ l.gap = {} /\ l.end = "no"
    BY <1>1 DEF LocType
  <2> HIDE DEF l
  <2>4. <<r, "partial">> \in Ids
    BY DEF Ids
  <2>5. WritesOwn(r, "walk", l)
    BY <1>0, <2>2, <2>3, <2>4 DEF WritesOwn
  <2> QED BY <1>2, <2>1, <2>3, <2>5
<1> QED BY <1>3, <1>4, <1>5, <1>6, <1>7

(***************************************************************************)
(* The resumed run carries forward exactly what is stored.                 *)
(***************************************************************************)
LEMMA ResumeCounts ==
    ASSUME CaptureInv, RunCounts, NEW r \in Runs, Resume(r)
    PROVE  RunCounts'
<1>1. PICK l : l = [loc[r] EXCEPT !.carried = Stored(loc[r].part)]
  OBVIOUS
<1>2. pc[r] = "resume" /\ Live(r) /\ Go(r, "walk", l) /\ UNCHANGED facts
  BY <1>1 DEF Live, Stages, Resume
<1>3. /\ TypeOK /\ loc[r] \in LocType /\ loc[r].part \in Ids
      /\ loc[r].probed = {} /\ loc[r].flushed = {} /\ loc[r].gap = {} /\ loc[r].end = "no"
  BY <1>2, CountsOfLive DEF CountsAt, Early, PartOK, HasPart
<1>4. /\ l \in LocType /\ l.part = loc[r].part /\ l.carried = Stored(loc[r].part)
      /\ l.probed = {} /\ l.flushed = {} /\ l.gap = {} /\ l.end = "no"
  BY <1>1, <1>3 DEF LocType, Stored
<1>5. Cardinality(Unflushed(l)) = 0
  BY <1>4, FS_EmptySet DEF Unflushed
<1>6. Stored(l.part)' = Kept(l)
  BY <1>2, <1>4 DEF Stored, Kept
<1>7. 0 < CheckpointEveryN /\ 0 < CheckpointEveryN + PageSize /\ l.part # None
  BY <1>3, <1>4, CaptureAssumption
<1>8. CountsAt(r, "walk", l)'
  BY <1>4, <1>5, <1>6, <1>7 DEF CountsAt, Early, Walking
<1>9. WritesOwn(r, "walk", l)
  BY <1>2, <1>4 DEF WritesOwn
<1>10. "walk" \in Stages
  BY DEF Stages
<1> QED BY <1>2, <1>4, <1>8, <1>9, <1>10, FrameStep

(***************************************************************************)
(* A page adds at most PageSize packages to the batch.                     *)
(***************************************************************************)
LEMMA BatchGrows ==
    ASSUME TypeOK, NEW l \in LocType, Cardinality(Unflushed(l)) < CheckpointEveryN,
           NEW S \in SUBSET Probeable(l.cursor), NEW m \in LocType,
           m.probed = l.probed \cup S, m.flushed = l.flushed
    PROVE  Cardinality(Unflushed(m)) < CheckpointEveryN + PageSize
<1>1. S \in SUBSET Packages /\ Cardinality(S) <= PageSize
  BY PageCount DEF LocType
<1>2. Unflushed(l) \in SUBSET Packages /\ Unflushed(m) \in SUBSET Packages
      /\ Unflushed(l) \cup S \in SUBSET Packages /\ Unflushed(m) \subseteq Unflushed(l) \cup S
  BY <1>1 DEF LocType, Unflushed
<1>3. /\ Cardinality(Unflushed(l)) \in Nat /\ Cardinality(Unflushed(m)) \in Nat
      /\ Cardinality(Unflushed(l) \cup S) \in Nat /\ Cardinality(S) \in Nat
  BY <1>1, <1>2, PackagesFinite
<1>4. Cardinality(Unflushed(m)) <= Cardinality(Unflushed(l) \cup S)
  BY <1>2, CountParts
<1>5. Cardinality(Unflushed(l) \cup S) <= Cardinality(Unflushed(l)) + Cardinality(S)
  BY <1>1, <1>2, CountParts
<1> QED BY <1>1, <1>3, <1>4, <1>5, CaptureAssumption

(***************************************************************************)
(* Probing a page, whether it ends in a checkpoint, in the next page or in *)
(* the end of the walk; and the ends of a walk that write nothing.         *)
(***************************************************************************)
LEMMA PageCounts ==
    ASSUME CaptureInv, RunCounts, NEW r \in Runs,
           ProbePage(r) \/ Deadline(r) \/ FetchError(r) \/ CkptHeaderFails(r)
    PROVE  RunCounts'
<1>0. /\ pc[r] \in {"walk", "ckptHeader"} /\ pc[r] \in Walking /\ Live(r)
      /\ UNCHANGED facts
  BY DEF Live, Stages, Walking, ProbePage, Deadline, FetchError, CkptHeaderFails
<1>1. /\ TypeOK /\ loc[r] \in LocType /\ CountsAt(r, pc[r], loc[r]) /\ loc[r].gap = {}
      /\ loc[r].flushed \subseteq loc[r].probed /\ loc[r].carried \cap loc[r].flushed = {}
      /\ loc[r].part = None => Kept(loc[r]) = {}
      /\ loc[r].part # None => Stored(loc[r].part) = Kept(loc[r])
  BY <1>0, CountsOfLive DEF CountsAt, Early, Walking
<1>2. ASSUME NEW stage \in {"walk", "ckptHeader", "gap"}, NEW l \in LocType, Go(r, stage, l),
             l.part = loc[r].part, l.carried = loc[r].carried, l.gap = loc[r].gap,
             l.flushed = loc[r].flushed, loc[r].probed \subseteq l.probed,
             stage = "walk" => Cardinality(Unflushed(l)) < CheckpointEveryN /\ l.end = "no",
             Cardinality(Unflushed(l)) < CheckpointEveryN + PageSize
      PROVE  RunCounts'
  <2>1. /\ l.gap = {} /\ l.flushed \subseteq l.probed /\ l.carried \cap l.flushed = {}
        /\ Kept(l) = Kept(loc[r]) /\ Kept(l) \subseteq l.carried \cup l.probed
    BY <1>1, <1>2 DEF Kept
  <2>2. Stored(l.part)' = Stored(loc[r].part)
    BY <1>0, <1>2 DEF Stored
  <2>3. CountsAt(r, stage, l)'
    BY <1>1, <1>2, <2>1, <2>2 DEF CountsAt, Early, Walking
  <2>4. WritesOwn(r, stage, l)
    BY <1>0, <1>2 DEF WritesOwn
  <2>5. stage \in Stages
    BY DEF Stages
  <2> QED BY <1>0, <1>2, <2>3, <2>4, <2>5, FrameStep
<1>3. CASE ProbePage(r)
  <2>1. PICK S, l, stage :
          /\ S \in SUBSET Probeable(loc[r].cursor)
          /\ Go(r, stage, l)
          /\ \E c, e : l = [loc[r] EXCEPT !.probed = @ \cup S, !.cursor = c, !.end = e]
                       /\ c \in 0 .. MaxPkg /\ e \in {"no", "wrapped"}
          /\ stage = IF Cardinality(Unflushed(l)) >= CheckpointEveryN
                     THEN "ckptHeader" ELSE AfterPage(l)
    <3>1. PICK S \in SUBSET Probeable(loc[r].cursor) :
            LET oldest == StartCursor(loc[r].cursor)
                l == [loc[r] EXCEPT
                        !.probed = @ \cup S,
                        !.cursor = IF oldest = 1 THEN Null ELSE oldest,
                        !.end = IF oldest = 1 THEN "wrapped" ELSE "no"]
                due == Cardinality(l.probed \ l.flushed) >= CheckpointEveryN
            IN  Go(r, IF due THEN "ckptHeader" ELSE AfterPage(l), l)
      BY <1>3 DEF ProbePage
    <3> DEFINE oldest == StartCursor(loc[r].cursor)
               c == IF oldest = 1 THEN Null ELSE oldest
               e == IF oldest = 1 THEN "wrapped" ELSE "no"
    <3>2. c \in 0 .. MaxPkg /\ e \in {"no", "wrapped"}
      BY <1>1, PageType, CaptureAssumption DEF LocType, Null
    <3> HIDE DEF c, e
    <3> QED BY <3>1, <3>2 DEF Unflushed, c, e
  <2>2. PICK c \in 0 .. MaxPkg, e \in {"no", "wrapped"} :
          l = [loc[r] EXCEPT !.probed = @ \cup S, !.cursor = c, !.end = e]
    BY <2>1
  <2>3. S \in SUBSET Packages
    BY <1>1, <2>1, PageType DEF LocType
  <2>4. /\ l \in LocType /\ l.part = loc[r].part /\ l.carried = loc[r].carried
        /\ l.gap = loc[r].gap /\ l.flushed = loc[r].flushed
        /\ l.probed = loc[r].probed \cup S
    BY <1>1, <2>2, <2>3 DEF LocType
  <2>5. Cardinality(Unflushed(loc[r])) < CheckpointEveryN
    BY <1>1, <1>3 DEF CountsAt, ProbePage
  <2>6. Cardinality(Unflushed(l)) < CheckpointEveryN + PageSize
    BY <1>1, <2>1, <2>4, <2>5, BatchGrows
  <2>7. stage \in {"walk", "ckptHeader", "gap"}
        /\ (stage = "walk" => ~(Cardinality(Unflushed(l)) >= CheckpointEveryN) /\ l.end = "no")
    BY <2>1 DEF AfterPage
  <2>8. Cardinality(Unflushed(l)) \in Nat
    <3>1. Unflushed(l) \in SUBSET Packages
      BY <2>4 DEF LocType, Unflushed
    <3> QED BY <3>1, PackagesFinite
  <2>9. stage = "walk" => Cardinality(Unflushed(l)) < CheckpointEveryN /\ l.end = "no"
    BY <2>7, <2>8, CaptureAssumption
  <2> QED BY <1>2, <2>1, <2>4, <2>6, <2>7, <2>9
<1>4. CASE Deadline(r)
  <2>1. PICK S, l :
          /\ S \in SUBSET Probeable(loc[r].cursor)
          /\ Go(r, "gap", l)
          /\ l = [loc[r] EXCEPT !.probed = @ \cup S, !.end = "deadline"]
    BY <1>4 DEF Deadline
  <2>2. S \in SUBSET Packages
    BY <1>1, <2>1, PageType DEF LocType
  <2>3. /\ l \in LocType /\ l.part = loc[r].part /\ l.carried = loc[r].carried
        /\ l.gap = loc[r].gap /\ l.flushed = loc[r].flushed
        /\ l.probed = loc[r].probed \cup S
    BY <1>1, <2>1, <2>2 DEF LocType
  <2>4. Cardinality(Unflushed(loc[r])) < CheckpointEveryN
    BY <1>1, <1>4 DEF CountsAt, Deadline
  <2>5. Cardinality(Unflushed(l)) < CheckpointEveryN + PageSize
    BY <1>1, <2>1, <2>3, <2>4, BatchGrows
  <2> QED BY <1>2, <2>1, <2>3, <2>5
<1>5. CASE FetchError(r) \/ CkptHeaderFails(r)
  <2>1. PICK l : Go(r, "gap", l) /\ l = [loc[r] EXCEPT !.end = "error"]
    BY <1>5 DEF FetchError, CkptHeaderFails
  <2>2. /\ l \in LocType /\ l.part = loc[r].part /\ l.carried = loc[r].carried
        /\ l.gap = loc[r].gap /\ l.flushed = loc[r].flushed /\ l.probed = loc[r].probed
    BY <1>1, <2>1 DEF LocType
  <2>3. Cardinality(Unflushed(l)) < CheckpointEveryN + PageSize
    BY <1>1, <2>2 DEF CountsAt, Unflushed
  <2> QED BY <1>2, <2>1, <2>2, <2>3
<1> QED BY <1>3, <1>4, <1>5

(***************************************************************************)
(* What a live run counts past the detection, read off its stage.          *)
(***************************************************************************)
LEMMA CountsPast ==
    ASSUME CaptureInv, RunCounts, NEW r \in Runs, Live(r), pc[r] \notin Early
    PROVE  /\ TypeOK /\ loc[r] \in LocType /\ PartOK(r) /\ CountsAt(r, pc[r], loc[r])
           /\ loc[r].part # None => loc[r].part \in Ids /\ loc[r].part # <<r, "fresh">>
           /\ loc[r].flushed \subseteq loc[r].probed
           /\ loc[r].carried \cap loc[r].flushed = {}
           /\ Cardinality(Unflushed(loc[r])) < CheckpointEveryN + PageSize
           /\ loc[r].part = None => Kept(loc[r]) = {}
           /\ pc[r] \in Walking \cup {"gap"} => loc[r].gap = {}
           /\ pc[r] \in Walking /\ loc[r].part # None => Stored(loc[r].part) = Kept(loc[r])
<1>1. CountsAt(r, pc[r], loc[r])
  BY CountsOfLive
<1>2. TypeOK /\ loc[r] \in LocType /\ PartOK(r)
      /\ (loc[r].part # None => loc[r].part \in Ids /\ loc[r].part[2] = "partial")
  BY CountsOfLive
<1>3. loc[r].part # None => loc[r].part # <<r, "fresh">>
  BY <1>2
<1> QED BY <1>1, <1>2, <1>3 DEF CountsAt

(***************************************************************************)
(* The ids a live run has yet to use hold no facts.                        *)
(***************************************************************************)
LEMMA UnusedOfLive ==
    ASSUME RunCounts, NEW r \in Runs, Live(r)
    PROVE  /\ <<r, "partial">> \in Ids /\ <<r, "fresh">> \in Ids
           /\ loc[r].part = None => Stored(<<r, "partial">>) = {}
           /\ pc[r] # "freshHeader" => Stored(<<r, "fresh">>) = {}
<1>1. <<r, "partial">> \in Ids /\ <<r, "fresh">> \in Ids
  BY DEF Ids
<1>2. loc[r].part = None => loc[r].part # <<r, "partial">>
  BY <1>1, CaptureAssumption
<1>3. /\ loc[r].part = None => facts[<<r, "partial">>] = NoFacts
      /\ pc[r] # "freshHeader" => facts[<<r, "fresh">>] = NoFacts
  BY <1>2 DEF RunCounts, UnusedInv, UnusedPartial, UnusedFresh
<1> QED BY <1>1, <1>3, NoneStored

(***************************************************************************)
(* A checkpoint writes the header, then exactly the batch; or, when the    *)
(* insertion fails, some of it, and the walk is over.                      *)
(***************************************************************************)
LEMMA CkptCounts ==
    ASSUME CaptureInv, RunCounts, NEW r \in Runs,
           CkptHeader(r) \/ CkptFacts(r) \/ CkptFactsFails(r)
    PROVE  RunCounts'
<1>0. pc[r] \in {"ckptHeader", "ckptFacts"} /\ pc[r] \in Walking /\ pc[r] \notin Early /\ Live(r)
  BY DEF Live, Stages, Walking, Early, CkptHeader, CkptFacts, CkptFactsFails
<1>1. /\ TypeOK /\ loc[r] \in LocType /\ PartOK(r)
      /\ loc[r].part # None => loc[r].part \in Ids /\ loc[r].part # <<r, "fresh">>
      /\ loc[r].flushed \subseteq loc[r].probed /\ loc[r].carried \cap loc[r].flushed = {}
      /\ Cardinality(Unflushed(loc[r])) < CheckpointEveryN + PageSize
      /\ loc[r].part = None => Kept(loc[r]) = {}
      /\ loc[r].part # None => Stored(loc[r].part) = Kept(loc[r])
      /\ loc[r].gap = {}
  BY <1>0, CountsPast
<1>2. /\ "ckptFacts" \in Stages /\ "walk" \in Stages /\ "gap" \in Stages
  BY DEF Stages
<1>3. CASE CkptHeader(r)
  <2>1. PICK l : l = [loc[r] EXCEPT !.part = IF loc[r].part = None THEN <<r, "partial">>
                                             ELSE loc[r].part]
    OBVIOUS
  <2>2. Go(r, "ckptFacts", l) /\ UNCHANGED facts
    BY <1>3, <2>1 DEF CkptHeader
  <2>3. /\ <<r, "partial">> \in Ids
        /\ loc[r].part = None => Stored(<<r, "partial">>) = {}
    BY <1>0, UnusedOfLive
  <2>4. /\ l \in LocType /\ l.carried = loc[r].carried /\ l.probed = loc[r].probed
        /\ l.flushed = loc[r].flushed /\ l.gap = loc[r].gap
        /\ l.part = IF loc[r].part = None THEN <<r, "partial">> ELSE loc[r].part
    BY <1>1, <2>1, <2>3 DEF LocType
  <2>5. Kept(l) = Kept(loc[r]) /\ Unflushed(l) = Unflushed(loc[r])
    BY <2>4 DEF Kept, Unflushed
  <2>6. Stored(l.part)' = Kept(l) /\ l.part # None
    <3>1. Stored(l.part)' = Stored(l.part)
      BY <2>2 DEF Stored
    <3> QED BY <1>1, <2>3, <2>4, <2>5, <3>1, CaptureAssumption
  <2>7. CountsAt(r, "ckptFacts", l)'
    BY <1>1, <2>4, <2>5, <2>6 DEF CountsAt, Early, Walking
  <2>8. WritesOwn(r, "ckptFacts", l)
    <3>1. <<r, "partial">> # None
      BY <2>3, CaptureAssumption
    <3> QED BY <1>0, <2>2, <2>4, <3>1 DEF WritesOwn
  <2> QED BY <1>0, <1>2, <2>2, <2>4, <2>7, <2>8, FrameStep
<1>4. ASSUME pc[r] = "ckptFacts", NEW T \in SUBSET Batch(r), Insert(r, loc[r].part, T),
             NEW stage \in {"walk", "gap"}, NEW l \in LocType, Go(r, stage, l),
             l.part = loc[r].part, l.carried = loc[r].carried, l.probed = loc[r].probed,
             l.gap = {}, l.flushed \subseteq l.probed, l.carried \cap l.flushed = {},
             Kept(l) \subseteq Kept(loc[r]) \cup T,
             Cardinality(Unflushed(l)) < CheckpointEveryN + PageSize,
             stage = "walk" => /\ Kept(l) = Kept(loc[r]) \cup T /\ l.end = "no"
                               /\ Cardinality(Unflushed(l)) < CheckpointEveryN
      PROVE  RunCounts'
  <2>1. loc[r].part \in Ids /\ loc[r].part # None
    BY <1>1, <1>4, CaptureAssumption DEF PartOK, HasPart
  <2>2. T \in SUBSET Packages
    BY <1>1 DEF Batch, LocType
  <2>3. Stored(l.part)' = Kept(loc[r]) \cup T
    BY <1>1, <1>4, <2>1, <2>2, InsertStores
  <2>4. Stored(l.part)' \subseteq l.carried \cup l.probed
    BY <1>1, <1>4, <2>3 DEF Kept, Batch
  <2>5. CountsAt(r, stage, l)'
    BY <1>4, <2>1, <2>3, <2>4 DEF CountsAt, Early, Walking
  <2>6. WritesOwn(r, stage, l)
    BY <1>1, <1>4, <2>1, <2>2, InsertStores DEF WritesOwn
  <2> QED BY <1>0, <1>2, <1>4, <2>5, <2>6, FrameStep
<1>5. CASE CkptFacts(r)
  <2>1. PICK l, stage : /\ l = [loc[r] EXCEPT !.flushed = loc[r].probed]
                        /\ stage = AfterPage(loc[r])
    OBVIOUS
  <2>2. /\ pc[r] = "ckptFacts" /\ ~Collides(loc[r].part, Batch(r))
        /\ Insert(r, loc[r].part, Batch(r)) /\ Go(r, stage, l)
    BY <1>5, <2>1 DEF CkptFacts
  <2>3. /\ l \in LocType /\ l.part = loc[r].part /\ l.carried = loc[r].carried
        /\ l.probed = loc[r].probed /\ l.flushed = loc[r].probed /\ l.gap = {}
        /\ l.end = loc[r].end
    BY <1>1, <2>1 DEF LocType
  <2>4. loc[r].part # None
    BY <1>1, <2>2, CaptureAssumption DEF PartOK, HasPart
  <2>5. Kept(loc[r]) \cap Batch(r) = {}
    BY <1>1, <2>2, <2>4 DEF Collides
  <2>6. l.carried \cap l.flushed = {} /\ Kept(l) = Kept(loc[r]) \cup Batch(r)
    BY <1>1, <2>3, <2>5 DEF Kept, Batch
  <2>7. Cardinality(Unflushed(l)) = 0
    BY <2>3, FS_EmptySet DEF Unflushed
  <2>8. 0 < CheckpointEveryN /\ 0 < CheckpointEveryN + PageSize
    BY CaptureAssumption
  <2>9. stage \in {"walk", "gap"} /\ (stage = "walk" => l.end = "no")
    BY <2>1, <2>3 DEF AfterPage
  <2>10. Cardinality(Unflushed(l)) < CheckpointEveryN
         /\ Cardinality(Unflushed(l)) < CheckpointEveryN + PageSize
    BY <2>7, <2>8
  <2> QED BY <1>4, <2>2, <2>3, <2>6, <2>9, <2>10
<1>6. CASE CkptFactsFails(r)
  <2>1. PICK l : l = [loc[r] EXCEPT !.end = "error"]
    OBVIOUS
  <2>2. PICK T \in SUBSET Batch(r) : Insert(r, loc[r].part, T)
    BY <1>6 DEF CkptFactsFails
  <2>3. pc[r] = "ckptFacts" /\ Go(r, "gap", l)
    BY <1>6, <2>1 DEF CkptFactsFails
  <2>4. /\ l \in LocType /\ l.part = loc[r].part /\ l.carried = loc[r].carried
        /\ l.probed = loc[r].probed /\ l.flushed = loc[r].flushed /\ l.gap = {}
    BY <1>1, <2>1 DEF LocType
  <2>5. Kept(l) = Kept(loc[r]) /\ Unflushed(l) = Unflushed(loc[r])
    BY <2>4 DEF Kept, Unflushed
  <2> QED BY <1>1, <1>4, <2>2, <2>3, <2>4, <2>5
<1> QED BY <1>3, <1>5, <1>6

(***************************************************************************)
(* Gap-closing stores addresses that were not stored, and the publication  *)
(* starts from there; the fresh path stores exactly the final list, which  *)
(* has no package twice.                                                   *)
(***************************************************************************)
LEMMA GapCounts ==
    ASSUME CaptureInv, RunCounts, NEW r \in Runs,
           \/ CloseGaps(r) \/ NoGaps(r) \/ GapHeader(r) \/ GapFacts(r)
           \/ PublishFresh(r) \/ FreshFacts(r)
    PROVE  RunCounts'
<1>0. /\ pc[r] \in {"gap", "gapHeader", "gapFacts", "publish", "freshFacts"}
      /\ pc[r] \notin Early /\ pc[r] \notin Walking /\ pc[r] # "freshHeader" /\ Live(r)
  BY DEF Live, Stages, Walking, Early, CloseGaps, NoGaps, GapHeader, GapFacts,
         PublishFresh, FreshFacts
<1>1. /\ TypeOK /\ loc[r] \in LocType /\ PartOK(r) /\ CountsAt(r, pc[r], loc[r])
      /\ loc[r].part # None => loc[r].part \in Ids /\ loc[r].part # <<r, "fresh">>
      /\ loc[r].flushed \subseteq loc[r].probed /\ loc[r].carried \cap loc[r].flushed = {}
      /\ Cardinality(Unflushed(loc[r])) < CheckpointEveryN + PageSize
      /\ loc[r].part = None => Kept(loc[r]) = {}
      /\ pc[r] = "gap" => loc[r].gap = {}
  BY <1>0, CountsPast
<1>2. /\ pc[r] \in {"gap", "gapFacts"} /\ loc[r].part # None =>
            /\ Kept(loc[r]) \subseteq Stored(loc[r].part)
            /\ Stored(loc[r].part) \subseteq loc[r].carried \cup loc[r].probed
  BY <1>1 DEF CountsAt
<1>3. /\ <<r, "partial">> \in Ids /\ <<r, "fresh">> \in Ids
      /\ loc[r].part = None => Stored(<<r, "partial">>) = {}
      /\ Stored(<<r, "fresh">>) = {}
  BY <1>0, UnusedOfLive
<1>4. /\ "gapHeader" \in Stages /\ "gapFacts" \in Stages /\ "publish" \in Stages
      /\ "freshFacts" \in Stages /\ "freshHeader" \in Stages
  BY DEF Stages
<1>5. CASE CloseGaps(r)
  <2>1. PICK S, l, stage :
          /\ S \in SUBSET Stale
          /\ l = [loc[r] EXCEPT !.gap = S] /\ Go(r, stage, l) /\ UNCHANGED facts
          /\ stage = IF loc[r].part = None THEN "gapHeader" ELSE "gapFacts"
    BY <1>5 DEF CloseGaps
  <2>2. /\ l \in LocType /\ l.part = loc[r].part /\ l.carried = loc[r].carried
        /\ l.probed = loc[r].probed /\ l.flushed = loc[r].flushed
    BY <1>1, <2>1 DEF LocType, Stale
  <2>3. Kept(l) = Kept(loc[r]) /\ Unflushed(l) = Unflushed(loc[r])
    BY <2>2 DEF Kept, Unflushed
  <2>4. Stored(l.part)' = Stored(loc[r].part)
    BY <2>1, <2>2 DEF Stored
  <2>5. pc[r] = "gap" /\ stage \in {"gapHeader", "gapFacts"}
        /\ (stage = "gapFacts" => l.part # None)
    BY <1>5, <2>1, <2>2 DEF CloseGaps
  <2>6. CountsAt(r, stage, l)'
    BY <1>1, <1>2, <2>2, <2>3, <2>4, <2>5 DEF CountsAt, Early, Walking
  <2>7. WritesOwn(r, stage, l)
    BY <1>0, <2>1, <2>2 DEF WritesOwn
  <2> QED BY <1>0, <1>4, <2>1, <2>2, <2>5, <2>6, <2>7, FrameStep
<1>6. CASE NoGaps(r)
  <2>1. pc[r] = "gap" /\ Go(r, "publish", loc[r]) /\ UNCHANGED facts
    BY <1>6 DEF NoGaps
  <2>2. PICK l : l = loc[r]
    OBVIOUS
  <2>3. Stored(l.part)' = Stored(loc[r].part)
    BY <2>1, <2>2 DEF Stored
  <2>4. CountsAt(r, "publish", l)'
    BY <1>1, <1>2, <2>1, <2>2, <2>3 DEF CountsAt, Early, Walking
  <2>5. WritesOwn(r, "publish", l)
    BY <1>0, <2>1, <2>2 DEF WritesOwn
  <2> QED BY <1>0, <1>1, <1>4, <2>1, <2>2, <2>4, <2>5, FrameStep
<1>7. CASE GapHeader(r)
  <2>1. PICK l : l = [loc[r] EXCEPT !.part = <<r, "partial">>]
    OBVIOUS
  <2>2. pc[r] = "gapHeader" /\ Go(r, "gapFacts", l) /\ UNCHANGED facts
    BY <1>7, <2>1 DEF GapHeader
  <2>3. loc[r].part = None
    BY <1>1, <2>2 DEF PartOK
  <2>4. /\ l \in LocType /\ l.part = <<r, "partial">> /\ l.carried = loc[r].carried
        /\ l.probed = loc[r].probed /\ l.flushed = loc[r].flushed
    BY <1>1, <1>3, <2>1 DEF LocType
  <2>5. Kept(l) = {} /\ Unflushed(l) = Unflushed(loc[r]) /\ l.part # None
    BY <1>1, <1>3, <2>3, <2>4, CaptureAssumption DEF Kept, Unflushed
  <2>6. Stored(l.part)' = {}
    BY <1>3, <2>2, <2>3, <2>4 DEF Stored
  <2>7. CountsAt(r, "gapFacts", l)'
    BY <1>1, <2>4, <2>5, <2>6 DEF CountsAt, Early, Walking
  <2>8. WritesOwn(r, "gapFacts", l)
    <3>1. loc[r].part # <<r, "partial">>
      BY <2>3, <1>3, CaptureAssumption
    <3> QED BY <1>0, <2>2, <2>4, <3>1 DEF WritesOwn
  <2> QED BY <1>0, <1>4, <2>2, <2>4, <2>7, <2>8, FrameStep
<1>8. CASE GapFacts(r)
  <2>1. /\ pc[r] = "gapFacts" /\ ~Collides(loc[r].part, loc[r].gap)
        /\ Insert(r, loc[r].part, loc[r].gap) /\ Go(r, "publish", loc[r])
    BY <1>8 DEF GapFacts
  <2>2. PICK l : l = loc[r]
    OBVIOUS
  <2>3. l.part \in Ids /\ l.part # None /\ l.gap \in SUBSET Packages
    BY <1>1, <2>1, <2>2, CaptureAssumption DEF PartOK, HasPart, LocType
  <2>4. PICK old : old = Stored(l.part)
    OBVIOUS
  <2>5. Stored(l.part)' = old \cup l.gap /\ l.gap \cap old = {}
    BY <1>1, <2>1, <2>2, <2>3, <2>4, InsertStores DEF Collides
  <2>6. Kept(l) \subseteq old /\ old \subseteq l.carried \cup l.probed
    BY <1>2, <2>1, <2>2, <2>3, <2>4
  <2>7. /\ Kept(l) \subseteq Stored(l.part)' \ l.gap
        /\ l.gap \subseteq Stored(l.part)'
        /\ Stored(l.part)' \ l.gap \subseteq l.carried \cup l.probed
    BY <2>5, <2>6
  <2>8. CountsAt(r, "publish", l)'
    BY <1>1, <2>2, <2>3, <2>7 DEF CountsAt, Early, Walking
  <2>9. WritesOwn(r, "publish", l)
    BY <1>0, <1>1, <2>1, <2>2, <2>3, InsertStores DEF WritesOwn
  <2> QED BY <1>0, <1>1, <1>4, <2>1, <2>2, <2>8, <2>9, FrameStep
<1>9. CASE PublishFresh(r)
  <2>1. Go(r, "freshFacts", loc[r]) /\ UNCHANGED facts
    BY <1>9 DEF PublishFresh
  <2>2. PICK l : l = loc[r]
    OBVIOUS
  <2>3. CountsAt(r, "freshFacts", l)'
    <3>1. l.part # None => l.carried \subseteq Stored(l.part)
      BY <1>1, <1>9, <2>2 DEF PublishFresh, CountsAt, Kept
    <3>2. Stored(l.part)' = Stored(l.part)
      BY <2>1 DEF Stored
    <3> QED BY <1>1, <2>2, <3>1, <3>2 DEF CountsAt, Early, Walking
  <2>4. WritesOwn(r, "freshFacts", l)
    BY <1>0, <2>1, <2>2 DEF WritesOwn
  <2> QED BY <1>0, <1>1, <1>4, <2>1, <2>2, <2>3, <2>4, FrameStep
<1>10. CASE FreshFacts(r)
  <2>1. /\ Total(loc[r]) = Cardinality(Listed(loc[r]))
        /\ InsertAs(<<r, "fresh">>, Listed(loc[r]), Prober(r)) /\ Go(r, "freshHeader", loc[r])
    BY <1>10 DEF FreshFacts
  <2>2. PICK l : l = loc[r]
    OBVIOUS
  <2>3. Listed(l) \in SUBSET Packages
    BY <1>1, <2>2 DEF Listed, LocType
  <2>4. /\ Stored(<<r, "fresh">>)' = Listed(l)
        /\ \A j \in Ids : j # <<r, "fresh">> => facts'[j] = facts[j]
    <3>1. \A k \in Listed(l) : Prober(r)[k] # 0
      <4> SUFFICES ASSUME NEW k \in Listed(l) PROVE Prober(r)[k] # 0
        OBVIOUS
      <4>1. k \in l.carried => l.part # None /\ l.carried \subseteq Stored(l.part)
        BY <1>0, <1>1, <1>2, <1>10, <2>2 DEF FreshFacts, CountsAt, PartOK
      <4>2. k \in Packages /\ r # 0
        BY <2>3, CaptureAssumption DEF Runs
      <4> QED BY <2>2, <4>1, <4>2 DEF Prober, Stored
    <3> QED BY <1>0, <1>1, <1>3, <2>1, <2>2, <2>3, <3>1, InsertAsStores
  <2>5. CountsAt(r, "freshHeader", l)'
    BY <1>1, <2>1, <2>2, <2>4 DEF CountsAt, Early, Walking
  <2>6. WritesOwn(r, "freshHeader", l)
    BY <1>0, <1>1, <1>3, <2>1, <2>2, <2>4 DEF WritesOwn
  <2> QED BY <1>0, <1>1, <1>4, <2>1, <2>2, <2>5, <2>6, FrameStep
<1> QED BY <1>5, <1>6, <1>7, <1>8, <1>9, <1>10

(***************************************************************************)
(* A run that ends, with or without a publication, after some of a failed  *)
(* insertion under its partial or its fresh id.                            *)
(***************************************************************************)
LEMMA EndCounts ==
    ASSUME CaptureInv, RunCounts, NEW r \in Runs,
           \/ GapFactsFails(r) \/ FreshFactsFails(r) \/ Throws(r)
           \/ Promote(r) \/ FreshHeader(r)
    PROVE  RunCounts'
<1>0. Live(r) /\ TypeOK /\ PartOK(r) /\ loc[r] \in LocType
      /\ <<r, "fresh">> \in Ids
  <2>1. Live(r)
    BY DEF Live, Stages, Fallible, GapFactsFails, FreshFactsFails, Throws, Promote, FreshHeader
  <2> QED BY <2>1, CountsOfLive DEF Ids
<1>1. PICK stage \in {"done", "failed"} : Go(r, stage, Blank) /\ (stage = "done" => UNCHANGED facts)
  BY DEF End, Complete, GapFactsFails, FreshFactsFails, Throws, Promote, FreshHeader
<1>2. stage \notin Stages /\ Blank \in LocType /\ Blank.part = None
  BY BlankType DEF Stages, Blank
<1>3. \A i \in Ids : \/ facts'[i] = facts[i] \/ i = loc[r].part
                     \/ i = <<r, "fresh">> /\ stage = "failed"
  <2>1. CASE UNCHANGED facts
    BY <2>1
  <2>2. CASE GapFactsFails(r)
    <3>1. PICK T \in SUBSET loc[r].gap : Insert(r, loc[r].part, T)
      BY <2>2 DEF GapFactsFails
    <3>2. loc[r].part \in Ids /\ T \in SUBSET Packages
      BY <1>0, <2>2 DEF GapFactsFails, PartOK, HasPart, LocType
    <3> QED BY <1>0, <3>1, <3>2, InsertStores
  <2>3. CASE FreshFactsFails(r)
    <3>1. PICK T \in SUBSET Listed(loc[r]) : InsertAs(<<r, "fresh">>, T, Prober(r))
      BY <2>3 DEF FreshFactsFails
    <3>2. T \in SUBSET Packages
      BY <1>0 DEF Listed, LocType
    <3>3. stage = "failed" \/ UNCHANGED facts
      BY <1>1
    <3>4. \A j \in Ids : j # <<r, "fresh">> => facts'[j] = facts[j]
      BY <1>0, <3>1 DEF InsertAs, TypeOK
    <3> QED BY <1>0, <3>3, <3>4
  <2> QED BY <2>1, <2>2, <2>3 DEF Throws, Promote, FreshHeader
<1>4. WritesOwn(r, stage, Blank)
  BY <1>2, <1>3 DEF WritesOwn
<1> QED BY <1>0, <1>1, <1>2, <1>4, FrameStep

(***************************************************************************)
(* A run begins with nothing counted; a crash blanks every run; and what   *)
(* the environment does concerns no run's locals and no facts.             *)
(***************************************************************************)
LEMMA BeginCounts ==
    ASSUME CaptureInv, RunCounts, NEW r \in Runs, Begin(r)
    PROVE  RunCounts'
<1>1. /\ TypeOK /\ pc[r] = "idle" /\ lock = None
      /\ Go(r, "detect", Blank) /\ UNCHANGED facts
  BY DEF Begin, CaptureInv
<1>2. \A s \in Runs : ~Live(s)
  BY <1>1, CaptureAssumption DEF CaptureInv, LockInv
<1>3. /\ pc'[r] = "detect" /\ loc'[r] = Blank
      /\ \A s \in Runs : s # r => pc'[s] = pc[s] /\ loc'[s] = loc[s]
  BY <1>1 DEF Go, TypeOK
<1>4. \A s \in Runs : (Live(s))' => s = r
  BY <1>2, <1>3 DEF Live
<1>5. /\ Blank.carried = {} /\ Blank.probed = {} /\ Blank.flushed = {} /\ Blank.gap = {}
      /\ Blank.end = "no" /\ Blank.part = None /\ Blank \in LocType
  BY BlankType DEF Blank
<1>6. \A s \in Runs : (Live(s))' => CountsAt(s, pc[s], loc[s])'
  <2>1. PICK l : l = Blank
    OBVIOUS
  <2>2. "detect" \in Early
    BY DEF Early
  <2>3. CountsAt(r, "detect", l)'
    BY <1>5, <2>1, <2>2, NothingCounted
  <2> QED BY <1>3, <1>4, <2>1, <2>3 DEF CountsAt
<1>7. BlankInv'
  BY <1>2, <1>3, <1>4 DEF RunCounts, BlankInv, Live
<1>8. KindInv'
  BY <1>3, <1>4, <1>5 DEF KindInv
<1>9. UnusedInv'
  <2> SUFFICES ASSUME NEW s \in Runs
               PROVE  /\ (UnusedPartial(s))' => facts[<<s, "partial">>] = NoFacts
                      /\ (UnusedFresh(s))' => facts[<<s, "fresh">>] = NoFacts
    BY <1>1 DEF UnusedInv
  <2>1. ((UnusedPartial(s))' \/ (UnusedFresh(s))') => pc[s] = "idle"
    BY <1>1, <1>3, <1>4 DEF UnusedPartial, UnusedFresh
  <2> QED BY <2>1 DEF RunCounts, UnusedInv, UnusedPartial, UnusedFresh
<1> QED BY <1>6, <1>7, <1>8, <1>9 DEF RunCounts

(***************************************************************************)
(* Steps that are not a run's.                                             *)
(***************************************************************************)
LEMMA OtherCounts ==
    ASSUME CaptureInv, RunCounts,
           \/ Crash \/ PartialVanishes \/ PublishPackage \/ DayPasses \/ UNCHANGED vars
    PROVE  RunCounts'
<1>1. CASE Crash
  <2>1. UNCHANGED facts /\ TypeOK
    BY <1>1 DEF Crash, CaptureInv
  <2>2. \A s \in Runs : /\ ~(Live(s))' /\ loc'[s] = Blank
                        /\ (pc'[s] = "idle" => pc[s] = "idle")
    BY <1>1 DEF Crash, Live, Stages
  <2>3. BlankInv' /\ KindInv'
    BY <2>2 DEF BlankInv, KindInv
  <2>4. UnusedInv'
    BY <2>1, <2>2 DEF RunCounts, UnusedInv, UnusedPartial, UnusedFresh
  <2> QED BY <2>2, <2>3, <2>4 DEF RunCounts
<1>2. CASE PartialVanishes \/ PublishPackage \/ DayPasses \/ UNCHANGED vars
  <2>1. UNCHANGED <<pc, loc, facts>>
    BY <1>2 DEF PartialVanishes, PublishPackage, DayPasses, vars
  <2>2. /\ BlankInv' <=> BlankInv
        /\ KindInv' <=> KindInv
    BY <2>1 DEF BlankInv, KindInv, Live
  <2>3. UnusedInv' <=> UnusedInv
    BY <2>1 DEF UnusedInv, UnusedPartial, UnusedFresh, Live
  <2>4. \A s \in Runs : (Live(s))' => CountsAt(s, pc[s], loc[s])'
    BY <2>1 DEF RunCounts, CountsAt, Live, Stored
  <2> QED BY <2>2, <2>3, <2>4 DEF RunCounts
<1> QED BY <1>1, <1>2

(***************************************************************************)
(* Every step keeps the counts of the runs.                                *)
(***************************************************************************)
LEMMA NextCounts ==
    ASSUME CaptureInv, RunCounts, [Next]_vars
    PROVE  RunCounts'
<1>1. ASSUME NEW r \in Runs, RunStep(r) PROVE RunCounts'
  <2>1. CASE \/ DetectFresh(r) \/ DetectPartial(r) \/ DropOlder(r) \/ DropOlderFacts(r)
             \/ DropNewest(r) \/ DropNewestFacts(r)
    BY <2>1, DetectCounts
  <2>2. CASE Resume(r)
    BY <2>2, ResumeCounts
  <2>3. CASE ProbePage(r) \/ Deadline(r) \/ FetchError(r) \/ CkptHeaderFails(r)
    BY <2>3, PageCounts
  <2>4. CASE CkptHeader(r) \/ CkptFacts(r) \/ CkptFactsFails(r)
    BY <2>4, CkptCounts
  <2>5. CASE \/ CloseGaps(r) \/ NoGaps(r) \/ GapHeader(r) \/ GapFacts(r)
             \/ PublishFresh(r) \/ FreshFacts(r)
    BY <2>5, GapCounts
  <2>6. CASE \/ GapFactsFails(r) \/ FreshFactsFails(r) \/ Throws(r)
             \/ Promote(r) \/ FreshHeader(r)
    BY <2>6, EndCounts
  <2>7. CASE Begin(r)
    BY <2>7, BeginCounts
  <2> QED BY <1>1, <2>1, <2>2, <2>3, <2>4, <2>5, <2>6, <2>7 DEF RunStep
<1> QED BY <1>1, OtherCounts DEF Next

(***************************************************************************)
(* What a publication counts against what is stored under its id: the      *)
(* difference that PublishedLoss bounds for a promoted partial, none for a *)
(* fresh id.                                                               *)
(***************************************************************************)
LEMMA PublishedCount ==
    ASSUME CaptureInv, RunCounts, NEW r \in Runs, NEW i, Publishes(r, i)
    PROVE  /\ header'[i].total - Cardinality(Stored(i)')
                 \in 0 .. (CheckpointEveryN + PageSize - 1)
           /\ i[2] = "fresh" => header'[i].total = Cardinality(Stored(i)')
<1>1. i \in Ids /\ UNCHANGED facts
  BY PublishSteps
<1>2. pc[r] \in {"publish", "freshHeader"} /\ Live(r) /\ pc[r] \notin Early
  BY DEF Publishes, Promote, FreshHeader, Live, Stages, Early
<1>3. /\ TypeOK /\ loc[r] \in LocType /\ CountsAt(r, pc[r], loc[r])
      /\ loc[r].flushed \subseteq loc[r].probed /\ loc[r].carried \cap loc[r].flushed = {}
      /\ Cardinality(Unflushed(loc[r])) < CheckpointEveryN + PageSize
      /\ loc[r].part # None => loc[r].part[2] = "partial"
  BY <1>2, CountsPast, CountsOfLive
<1>4. header'[i].total = Total(loc[r])
  <2>1. header' = [header EXCEPT ![i] = [stage |-> "complete", cursor |-> Null,
                                         total |-> Total(loc[r])]]
    BY DEF Publishes, Promote, FreshHeader, Complete
  <2> QED BY <1>1, <1>3, <2>1 DEF TypeOK
<1>5. Stored(i)' = Stored(i) /\ Stored(i) \in SUBSET Packages
  BY <1>1 DEF Stored
<1>6. CASE Promote(r) /\ i = loc[r].part
  <2>1. pc[r] = "publish" /\ i # None
    BY <1>6 DEF Promote, PartialExists
  <2>2. /\ Kept(loc[r]) \subseteq Stored(i) \ loc[r].gap
        /\ loc[r].gap \subseteq Stored(i)
        /\ Stored(i) \ loc[r].gap \subseteq loc[r].carried \cup loc[r].probed
    BY <1>3, <1>6, <2>1 DEF CountsAt
  <2>3. Total(loc[r]) - Cardinality(Stored(i)) \in 0 .. (CheckpointEveryN + PageSize - 1)
    BY <1>3, <1>5, <2>2, PublishedLoss
  <2> QED BY <1>3, <1>4, <1>5, <1>6, <2>1, <2>3
<1>7. CASE FreshHeader(r) /\ i = <<r, "fresh">>
  <2>1. Stored(i) = Listed(loc[r]) /\ Total(loc[r]) = Cardinality(Listed(loc[r]))
    BY <1>3, <1>7 DEF CountsAt, FreshHeader
  <2>2. Cardinality(Stored(i)) \in Nat /\ 0 \in 0 .. (CheckpointEveryN + PageSize - 1)
    BY <1>5, PackagesFinite, CaptureAssumption
  <2>3. header'[i].total = Cardinality(Stored(i)')
    BY <1>4, <1>5, <2>1
  <2>4. header'[i].total - Cardinality(Stored(i)') = 0
    BY <1>5, <2>2, <2>3
  <2> QED BY <2>2, <2>3, <2>4
<1> QED BY <1>6, <1>7 DEF Publishes

(***************************************************************************)
(* A publication keeps what is known of the published snapshots.           *)
(***************************************************************************)
LEMMA PublishingKeepsLoss ==
    ASSUME CaptureInv, CountInv, NEW r \in Runs, NEW i, Publishes(r, i)
    PROVE  WindowLoss' /\ ExactFresh'
<1>1. /\ i \in Ids /\ Completes' = Completes \cup {i} /\ UNCHANGED facts
      /\ \A j \in Ids : j # i => header'[j] = header[j]
  BY PublishSteps
<1>2. /\ header'[i].total - Cardinality(Stored(i)')
            \in 0 .. (CheckpointEveryN + PageSize - 1)
      /\ i[2] = "fresh" => header'[i].total = Cardinality(Stored(i)')
  BY PublishedCount DEF CountInv
<1>3. \A j \in Ids : Stored(j)' = Stored(j)
  BY <1>1 DEF Stored
<1>4. WindowLoss'
  <2> SUFFICES ASSUME NEW j \in Ids, header'[j].stage = "complete", j # i
               PROVE  header'[j].total - Cardinality(Stored(j)')
                        \in 0 .. (CheckpointEveryN + PageSize - 1)
    BY <1>2 DEF WindowLoss
  <2> QED BY <1>1, <1>3 DEF CountInv, WindowLoss
<1>5. ExactFresh'
  <2> SUFFICES ASSUME NEW s \in Runs, header'[<<s, "fresh">>].stage = "complete"
               PROVE  header'[<<s, "fresh">>].total = Cardinality(Stored(<<s, "fresh">>)')
    BY DEF ExactFresh
  <2>1. <<s, "fresh">> \in Ids /\ <<s, "fresh">>[2] = "fresh"
    BY DEF Ids
  <2>2. CASE <<s, "fresh">> = i
    BY <1>2, <2>1, <2>2
  <2>3. CASE <<s, "fresh">> # i
    BY <1>1, <1>3, <2>1, <2>3 DEF CountInv, ExactFresh
  <2> QED BY <2>2, <2>3
<1> QED BY <1>4, <1>5

(***************************************************************************)
(* The counts at the start: no run is live and nothing is published.       *)
(***************************************************************************)
LEMMA InitCounts == LeftoverInit => CountInv
<1> SUFFICES ASSUME LeftoverInit PROVE CountInv
  OBVIOUS
<1>1. PICK n \in 0 .. MaxRuns :
        /\ pc = [r \in Runs |-> IF r <= n THEN "failed" ELSE "idle"]
        /\ \A i \in Ids : header[i] # Absent => i[1] <= n /\ Leftover(i)
        /\ \A i \in Ids : i[1] > n => facts[i] = NoFacts
  BY DEF LeftoverInit
<1>2. \A r \in Runs : ~Live(r) /\ loc[r] = Blank /\ (pc[r] = "idle" => r > n)
  BY <1>1, CaptureAssumption DEF LeftoverInit, Live, Stages, Runs
<1>3. BlankInv /\ KindInv
  BY <1>2 DEF BlankInv, KindInv
<1>4. UnusedInv
  <2> SUFFICES ASSUME NEW r \in Runs, pc[r] = "idle"
               PROVE  facts[<<r, "partial">>] = NoFacts /\ facts[<<r, "fresh">>] = NoFacts
    BY <1>2 DEF UnusedInv, UnusedPartial, UnusedFresh
  <2>1. <<r, "partial">> \in Ids /\ <<r, "fresh">> \in Ids /\ r > n
    BY <1>2 DEF Ids
  <2> QED BY <1>1, <2>1
<1>5. \A i \in Ids : header[i].stage # "complete"
  BY <1>1 DEF Leftover, Absent
<1>6. WindowLoss /\ ExactFresh
  <2>1. \A r \in Runs : <<r, "fresh">> \in Ids
    BY DEF Ids
  <2> QED BY <1>5, <2>1 DEF WindowLoss, ExactFresh
<1> QED BY <1>2, <1>3, <1>4, <1>6 DEF CountInv, RunCounts

(***************************************************************************)
(* The counts are an invariant: what a live run holds in its locals says,  *)
(* at every stage, which facts are stored under its partial, so that a     *)
(* header published at any of them is off by a bounded number.             *)
(***************************************************************************)
THEOREM CountInvariant == Spec \/ LeftoverSpec => []CountInv
<1>1. LeftoverInit => CountInv
  BY InitCounts
<1>2. CaptureInv /\ CountInv /\ [Next]_vars => CountInv'
  <2> SUFFICES ASSUME CaptureInv, CountInv, [Next]_vars PROVE CountInv'
    OBVIOUS
  <2>1. RunCounts'
    BY NextCounts DEF CountInv
  <2>2. CASE \E r \in Runs : Promote(r) \/ FreshHeader(r)
    <3>1. PICK r, i : r \in Runs /\ Publishes(r, i)
      BY <2>2 DEF Publishes
    <3> QED BY <2>1, <3>1, PublishingKeepsLoss DEF CountInv
  <2>3. CASE \A r \in Runs : ~Promote(r) /\ ~FreshHeader(r)
    BY <2>1, <2>3, QuietSteps, QuietKeepsLoss DEF CountInv
  <2> QED BY <2>2, <2>3
<1> QED BY <1>1, <1>2, CaptureInvariant, CleanStart, PTL DEF Spec, LeftoverSpec

(***************************************************************************)
(* The total of a published header never falls short of the facts stored   *)
(* under it, and exceeds them by less than one checkpoint window and one   *)
(* page, whatever failed, crashed or vanished on the way; a snapshot       *)
(* published through the fresh path counts exactly its facts.              *)
(***************************************************************************)
THEOREM LossIsBounded == Spec \/ LeftoverSpec => []LossBounded
<1>1. CaptureInv /\ CountInv => LossBounded
  <2> SUFFICES ASSUME WindowLoss, ExactFresh, TypeOK,
                      NEW i \in Ids, header[i].stage = "complete"
               PROVE  header[i].total - Cardinality(Stored(i)) \in 0 .. LossAllowed(i)
    BY DEF CaptureInv, CountInv, LossBounded
  <2>1. CASE i[2] = "fresh"
    <3>1. i = <<i[1], "fresh">> /\ i[1] \in Runs
      BY <2>1 DEF Ids
    <3>2. header[i].total = Cardinality(Stored(i)) /\ header[i].total \in Nat
      BY <3>1 DEF ExactFresh, TypeOK
    <3> QED BY <2>1, <3>2 DEF LossAllowed
  <2>2. CASE i[2] # "fresh"
    BY <2>2 DEF LossAllowed, WindowLoss
  <2> QED BY <2>1, <2>2
<1> QED BY <1>1, CountInvariant, CaptureInvariant, PTL

(***************************************************************************)
(* The first day.                                                          *)
(*                                                                         *)
(* As long as gap-closing has nothing to do, everything stored under a     *)
(* partial lies at or above the partial's cursor, and everything a run     *)
(* collected lies at or above its own: the walk goes down.  The two        *)
(* cursors meet at a checkpoint, which advances the header before it       *)
(* writes the facts, so this also holds of a partial left by a crash       *)
(* between the two writes or by a failed insertion.                        *)
(***************************************************************************)
Above(c) == c .. MaxPkg

StoredAbove ==
    \A i \in Partials :
        header[i].cursor # Null => Stored(i) \subseteq Above(header[i].cursor)

DayAt(stage, l) ==
    /\ l.gap = {} /\ stage \notin {"gapHeader", "gapFacts"}
    /\ l.carried \cap l.probed = {}
    /\ stage \in {"dropOlder", "dropOlderFacts", "resume"} /\ l.cursor # Null =>
          Stored(l.part) \subseteq Above(l.cursor)
    /\ stage = "resume" => l.cursor # Null
    /\ stage \in Walking /\ l.end = "no" /\ l.cursor = Null =>
          l.carried = {} /\ l.probed = {}
    /\ stage \in Walking /\ l.cursor # Null =>
          l.carried \cup l.probed \subseteq Above(l.cursor)
    /\ stage = "ckptFacts" /\ header[l.part].stage = "partial" =>
          header[l.part].cursor = l.cursor

DayOne ==
    aged = 0 => StoredAbove /\ \A r \in Runs : Live(r) => DayAt(pc[r], loc[r])

(***************************************************************************)
(* Partials keep what is known of them when none appears or changes its    *)
(* header, and facts are only dropped.                                     *)
(***************************************************************************)
LEMMA AboveKept ==
    ASSUME StoredAbove,
           \A i \in Partials' : /\ i \in Partials /\ header'[i] = header[i]
                                /\ facts'[i] = facts[i] \/ facts'[i] = NoFacts
    PROVE  StoredAbove'
<1> SUFFICES ASSUME NEW i \in Partials', header'[i].cursor # Null
             PROVE  Stored(i)' \subseteq Above(header'[i].cursor)
  BY DEF StoredAbove, Above
<1>1. Stored(i) \subseteq Above(header[i].cursor) /\ header'[i] = header[i]
  BY DEF StoredAbove
<1>2. Stored(i)' \subseteq Stored(i)
  BY DEF Stored, NoFacts
<1> QED BY <1>1, <1>2

(***************************************************************************)
(* A step of a live run keeps the first day's invariant when it keeps what *)
(* is known of partials and of the run itself.                             *)
(***************************************************************************)
LEMMA DayStep ==
    ASSUME CaptureInv, NEW r \in Runs, Live(r), UNCHANGED aged,
           NEW stage \in Stages \cup {"done", "failed"}, NEW l, Go(r, stage, l),
           aged = 0 => StoredAbove',
           aged = 0 /\ stage \in Stages => DayAt(stage, l)'
    PROVE  DayOne'
<1>1. /\ pc'[r] = stage /\ loc'[r] = l
      /\ \A s \in Runs : s # r => pc'[s] = pc[s] /\ loc'[s] = loc[s]
  BY DEF CaptureInv, TypeOK, Go
<1>2. \A s \in Runs : s # r => ~(Live(s))'
  BY <1>1, OnlyOneLive DEF Live
<1>3. (Live(r))' => stage \in Stages
  BY <1>1 DEF Live
<1> SUFFICES ASSUME aged' = 0, NEW s \in Runs, (Live(s))' PROVE DayAt(pc[s], loc[s])'
  BY DEF DayOne
<1> QED BY <1>1, <1>2, <1>3 DEF DayAt

(***************************************************************************)
(* What the first day's invariant says of a live run.                      *)
(***************************************************************************)
LEMMA DayOfLive ==
    ASSUME DayOne, aged = 0, NEW r \in Runs, Live(r)
    PROVE  StoredAbove /\ DayAt(pc[r], loc[r])
BY DEF DayOne

(***************************************************************************)
(* The detection takes the partial's cursor over with the partial.         *)
(***************************************************************************)
LEMMA DetectDay ==
    ASSUME CaptureInv, RunCounts, DayOne, NEW r \in Runs,
           \/ DetectFresh(r) \/ DetectPartial(r) \/ DropOlder(r) \/ DropOlderFacts(r)
           \/ DropNewest(r) \/ DropNewestFacts(r) \/ Resume(r)
    PROVE  DayOne'
<1>0. pc[r] \in Early /\ Live(r) /\ UNCHANGED aged
  BY DEF Early, Live, Stages, DetectFresh, DetectPartial, DropOlder, DropOlderFacts,
         DropNewest, DropNewestFacts, Resume
<1>1. /\ TypeOK /\ loc[r] \in LocType /\ PartOK(r)
      /\ loc[r].carried = {} /\ loc[r].probed = {} /\ loc[r].flushed = {}
      /\ loc[r].gap = {} /\ loc[r].end = "no"
  BY <1>0, CountsOfLive DEF CountsAt
<1>2. aged = 0 => StoredAbove /\ DayAt(pc[r], loc[r])
  BY <1>0, DayOfLive
<1>3. aged = 0 => StoredAbove'
  <2> SUFFICES ASSUME aged = 0 PROVE StoredAbove'
    OBVIOUS
  <2>1. StoredAbove
    BY <1>2
  <2>2. Absent.stage # "partial"
    BY DEF Absent
  <2>3. \A i \in Partials' : i \in Partials /\ header'[i] = header[i]
    <3>1. CASE UNCHANGED header
      BY <3>1 DEF Partials
    <3>2. CASE DropOlder(r)
      BY <1>1, <2>2, <3>2 DEF DropOlder, Partials
    <3>3. CASE DropNewest(r)
      <4>1. \A i \in Ids : header'[i] = IF i = loc[r].part THEN Absent ELSE header[i]
        BY <1>1, <3>3 DEF DropNewest, TypeOK
      <4> QED BY <2>2, <4>1 DEF Partials
    <3> QED BY <3>1, <3>2, <3>3
         DEF DetectFresh, DetectPartial, DropOlderFacts, DropNewestFacts, Resume
  <2>4. \A i \in Ids : facts'[i] = facts[i] \/ facts'[i] = NoFacts
    BY <1>1 DEF DetectFresh, DetectPartial, DropOlder, DropOlderFacts, DropNewest,
                DropNewestFacts, Resume, TypeOK
  <2> QED BY <2>1, <2>3, <2>4, AboveKept DEF Partials
<1>4. CASE DetectFresh(r)
  <2>1. PICK l : l = loc[r]
    OBVIOUS
  <2>2. DayAt("walk", l)'
    BY <1>1, <2>1 DEF DayAt, Walking
  <2>3. Go(r, "walk", l) /\ "walk" \in Stages
    BY <1>4, <2>1 DEF DetectFresh, Stages
  <2> QED BY <1>0, <1>3, <2>2, <2>3, DayStep
<1>5. CASE DetectPartial(r)
  <2>1. PICK n, older, stage, l :
          /\ n = Newest(Partials) /\ older = Partials \ {n}
          /\ stage = IF older # {} THEN "dropOlder" ELSE NextOfDetect(header[n].cursor)
          /\ l = [loc[r] EXCEPT !.part = n, !.older = older, !.cursor = header[n].cursor]
    OBVIOUS
  <2>2. Go(r, stage, l) /\ UNCHANGED facts
    BY <1>5, <2>1 DEF DetectPartial
  <2>3. n \in Partials
    BY <1>5, <2>1, NewestIsOne DEF DetectPartial, Partials
  <2>4. stage \in {"dropOlder", "dropNewest", "resume"}
        /\ (stage = "resume" => header[n].cursor # Null)
    BY <2>1 DEF NextOfDetect
  <2>5. /\ l.part = n /\ l.cursor = header[n].cursor
        /\ l.gap = {} /\ l.carried = {} /\ l.probed = {}
    BY <1>1, <2>1 DEF LocType
  <2>6. aged = 0 /\ l.cursor # Null => Stored(l.part)' \subseteq Above(l.cursor)
    BY <1>2, <2>2, <2>3, <2>5 DEF StoredAbove, Stored
  <2>7. aged = 0 => DayAt(stage, l)'
    BY <2>4, <2>5, <2>6 DEF DayAt, Walking, Above
  <2>8. stage \in Stages
    BY <2>4 DEF Stages
  <2> QED BY <1>0, <1>3, <2>2, <2>7, <2>8, DayStep
<1>6. CASE DropOlder(r) \/ DropOlderFacts(r)
  <2>1. PICK l, stage :
          /\ Go(r, stage, l) /\ l \in {loc[r], [loc[r] EXCEPT !.older = {}]}
          /\ stage \in {"dropOlderFacts", "dropNewest", "resume"}
          /\ stage = "resume" => loc[r].cursor # Null
    BY <1>6 DEF DropOlder, DropOlderFacts, NextOfDetect
  <2>2. /\ l.part = loc[r].part /\ l.cursor = loc[r].cursor
        /\ l.gap = {} /\ l.carried = {} /\ l.probed = {}
    BY <1>1, <2>1 DEF LocType
  <2>3. pc[r] \in {"dropOlder", "dropOlderFacts"} /\ loc[r].part \in Ids
        /\ loc[r].part \notin loc[r].older
    BY <1>1, <1>6 DEF DropOlder, DropOlderFacts, PartOK, HasPart
  <2>4. facts'[loc[r].part] = facts[loc[r].part]
    BY <1>6, <2>3 DEF DropOlder, DropOlderFacts
  <2>5. aged = 0 /\ l.cursor # Null => Stored(l.part)' \subseteq Above(l.cursor)
    BY <1>2, <2>2, <2>3, <2>4 DEF DayAt, Stored
  <2>6. aged = 0 => DayAt(stage, l)'
    BY <2>1, <2>2, <2>5 DEF DayAt, Walking, Above
  <2>7. stage \in Stages
    BY <2>1 DEF Stages
  <2> QED BY <1>0, <1>3, <2>1, <2>6, <2>7, DayStep
<1>7. CASE DropNewest(r) \/ DropNewestFacts(r)
  <2>1. PICK l, stage :
          /\ Go(r, stage, l) /\ l \in {loc[r], [loc[r] EXCEPT !.part = None]}
          /\ stage \in {"dropNewestFacts", "walk"}
    BY <1>7 DEF DropNewest, DropNewestFacts
  <2>2. l.gap = {} /\ l.carried = {} /\ l.probed = {}
    BY <1>1, <2>1 DEF LocType
  <2>3. DayAt(stage, l)'
    BY <2>1, <2>2 DEF DayAt
  <2>4. stage \in Stages
    BY <2>1 DEF Stages
  <2> QED BY <1>0, <1>3, <2>1, <2>3, <2>4, DayStep
<1>8. CASE Resume(r)
  <2>1. PICK l : l = [loc[r] EXCEPT !.carried = Stored(loc[r].part)]
    OBVIOUS
  <2>2. Go(r, "walk", l) /\ pc[r] = "resume"
    BY <1>8, <2>1 DEF Resume
  <2>3. /\ l.carried = Stored(loc[r].part) /\ l.probed = {} /\ l.gap = {}
        /\ l.cursor = loc[r].cursor
    BY <1>1, <2>1 DEF LocType
  <2>4. aged = 0 => l.cursor # Null /\ l.carried \subseteq Above(l.cursor)
    BY <1>2, <2>2, <2>3 DEF DayAt
  <2>5. aged = 0 => DayAt("walk", l)'
    BY <2>3, <2>4 DEF DayAt, Walking, Above
  <2>6. "walk" \in Stages
    BY DEF Stages
  <2> QED BY <1>0, <1>3, <2>2, <2>5, <2>6, DayStep
<1> QED BY <1>4, <1>5, <1>6, <1>7, <1>8

(***************************************************************************)
(* A page lies below the cursor it was asked for, and at or above the next *)
(* cursor, which is not above the last.                                    *)
(***************************************************************************)
LEMMA PageBelow ==
    ASSUME TypeOK, NEW c \in 0 .. MaxPkg, NEW S \in SUBSET Probeable(c)
    PROVE  /\ S \subseteq Above(StartCursor(c))
           /\ c # Null => S \cap Above(c) = {} /\ Above(c) \subseteq Above(StartCursor(c))
<1>1. /\ head \in 0 .. MaxPkg /\ MaxPkg \in Nat /\ PageSize \in Nat \ {0}
      /\ Top(c) \in Int /\ Top(c) <= MaxPkg
      /\ c # Null => Top(c) = c - 1 /\ 1 <= c
  BY CaptureAssumption DEF TypeOK, Top, Null
<1>2. StartCursor(c) \in Int /\ 1 <= StartCursor(c)
      /\ (Top(c) > PageSize => StartCursor(c) = Top(c) - PageSize + 1)
      /\ (~(Top(c) > PageSize) => StartCursor(c) = 1)
  BY <1>1 DEF StartCursor
<1>3. \A k \in S : k \in Int /\ StartCursor(c) <= k /\ k <= Top(c)
  BY <1>1, <1>2 DEF Probeable, Page
<1>4. S \subseteq Above(StartCursor(c))
  BY <1>1, <1>2, <1>3 DEF Above
<1>5. ASSUME c # Null
      PROVE  S \cap Above(c) = {} /\ Above(c) \subseteq Above(StartCursor(c))
  <2>1. StartCursor(c) <= c
    BY <1>1, <1>2, <1>5
  <2>2. \A k \in S : ~(c <= k)
    BY <1>1, <1>3, <1>5
  <2> QED BY <1>1, <1>2, <2>1, <2>2 DEF Above
<1> QED BY <1>4, <1>5

(***************************************************************************)
(* The walk goes down from the cursor, so that a page adds nothing that    *)
(* was carried forward.                                                    *)
(***************************************************************************)
LEMMA PageDay ==
    ASSUME CaptureInv, RunCounts, DayOne, NEW r \in Runs,
           ProbePage(r) \/ Deadline(r) \/ FetchError(r) \/ CkptHeaderFails(r)
    PROVE  DayOne'
<1>0. /\ pc[r] \in {"walk", "ckptHeader"} /\ pc[r] \in Walking /\ pc[r] \notin Early /\ Live(r)
      /\ UNCHANGED <<aged, header, facts>>
  BY DEF Live, Stages, Walking, Early, ProbePage, Deadline, FetchError, CkptHeaderFails
<1>1. TypeOK /\ loc[r] \in LocType /\ loc[r].cursor \in 0 .. MaxPkg
      /\ (pc[r] = "walk" => loc[r].end = "no")
  BY <1>0, CountsPast DEF CountsAt, LocType
<1>2. aged = 0 => StoredAbove /\ DayAt(pc[r], loc[r])
  BY <1>0, DayOfLive
<1>3. aged = 0 => StoredAbove'
  BY <1>0, <1>2, AboveKept DEF Partials
<1>4. ASSUME pc[r] = "walk", aged = 0, NEW S \in SUBSET Probeable(loc[r].cursor)
      PROVE  /\ loc[r].gap = {} /\ loc[r].carried \cap (loc[r].probed \cup S) = {}
             /\ loc[r].carried \cup loc[r].probed \cup S \subseteq Above(StartCursor(loc[r].cursor))
  <2>1. DayAt("walk", loc[r]) /\ loc[r].end = "no"
    BY <1>1, <1>2, <1>4
  <2>2. CASE loc[r].cursor = Null
    <3>1. loc[r].carried = {} /\ loc[r].probed = {}
      BY <2>1, <2>2 DEF DayAt, Walking
    <3>2. S \subseteq Above(StartCursor(loc[r].cursor))
      BY <1>1, PageBelow
    <3> QED BY <2>1, <3>1, <3>2 DEF DayAt
  <2>3. CASE loc[r].cursor # Null
    <3>1. loc[r].carried \cup loc[r].probed \subseteq Above(loc[r].cursor)
      BY <2>1, <2>3 DEF DayAt, Walking
    <3>2. /\ S \subseteq Above(StartCursor(loc[r].cursor))
          /\ S \cap Above(loc[r].cursor) = {}
          /\ Above(loc[r].cursor) \subseteq Above(StartCursor(loc[r].cursor))
      BY <1>1, <2>3, PageBelow
    <3> QED BY <2>1, <3>1, <3>2 DEF DayAt
  <2> QED BY <2>2, <2>3
<1>5. CASE ProbePage(r)
  <2>1. PICK S, l, stage :
          /\ S \in SUBSET Probeable(loc[r].cursor)
          /\ Go(r, stage, l) /\ stage \in {"walk", "ckptHeader", "gap"}
          /\ l = [loc[r] EXCEPT
                    !.probed = @ \cup S,
                    !.cursor = IF StartCursor(loc[r].cursor) = 1 THEN Null
                               ELSE StartCursor(loc[r].cursor),
                    !.end = IF StartCursor(loc[r].cursor) = 1 THEN "wrapped" ELSE "no"]
    BY <1>5 DEF ProbePage, AfterPage
  <2>2. /\ l.carried = loc[r].carried /\ l.probed = loc[r].probed \cup S
        /\ l.gap = loc[r].gap
        /\ l.cursor = IF StartCursor(loc[r].cursor) = 1 THEN Null
                      ELSE StartCursor(loc[r].cursor)
        /\ l.end = IF StartCursor(loc[r].cursor) = 1 THEN "wrapped" ELSE "no"
    BY <1>1, <2>1 DEF LocType
  <2>3. /\ l.end = "no" => l.cursor = StartCursor(loc[r].cursor)
        /\ l.end = "no" => l.cursor # Null
        /\ l.cursor # Null => l.cursor = StartCursor(loc[r].cursor)
    <3>1. StartCursor(loc[r].cursor) # Null
      BY <1>1, CaptureAssumption DEF StartCursor, Top, Null, TypeOK
    <3> QED BY <2>2, <3>1
  <2>4. aged = 0 => DayAt(stage, l)'
    <3> SUFFICES ASSUME aged = 0 PROVE DayAt(stage, l)'
      OBVIOUS
    <3>1. /\ loc[r].gap = {} /\ loc[r].carried \cap (loc[r].probed \cup S) = {}
          /\ loc[r].carried \cup loc[r].probed \cup S \subseteq Above(StartCursor(loc[r].cursor))
      BY <1>4, <2>1, <1>5 DEF ProbePage
    <3>2. l.cursor # Null => l.carried \cup l.probed \subseteq Above(l.cursor)
      BY <2>2, <2>3, <3>1
    <3> QED BY <2>1, <2>2, <2>3, <3>1, <3>2 DEF DayAt, Above
  <2>5. stage \in Stages
    BY <2>1 DEF Stages
  <2> QED BY <1>0, <1>3, <2>1, <2>4, <2>5, DayStep
<1>6. "gap" \in Stages
  BY DEF Stages
<1>7. CASE Deadline(r)
  <2>1. PICK S, l :
          /\ S \in SUBSET Probeable(loc[r].cursor)
          /\ Go(r, "gap", l)
          /\ l = [loc[r] EXCEPT !.probed = @ \cup S, !.end = "deadline"]
    BY <1>7 DEF Deadline
  <2>2. /\ l.carried = loc[r].carried /\ l.probed = loc[r].probed \cup S
        /\ l.gap = loc[r].gap
    BY <1>1, <2>1 DEF LocType
  <2>3. aged = 0 => DayAt("gap", l)'
    BY <1>4, <2>1, <1>7, <2>2 DEF DayAt, Walking, Deadline
  <2> QED BY <1>0, <1>3, <1>6, <2>1, <2>3, DayStep
<1>8. CASE FetchError(r) \/ CkptHeaderFails(r)
  <2>1. PICK l : Go(r, "gap", l) /\ l = [loc[r] EXCEPT !.end = "error"]
    BY <1>8 DEF FetchError, CkptHeaderFails
  <2>2. l.carried = loc[r].carried /\ l.probed = loc[r].probed /\ l.gap = loc[r].gap
    BY <1>1, <2>1 DEF LocType
  <2>3. aged = 0 => DayAt("gap", l)'
    BY <1>2, <2>2 DEF DayAt, Walking
  <2> QED BY <1>0, <1>3, <1>6, <2>1, <2>3, DayStep
<1> QED BY <1>5, <1>7, <1>8

(***************************************************************************)
(* A checkpoint: the header takes the run's cursor before the facts, which *)
(* lie above it, are written.                                              *)
(***************************************************************************)
LEMMA CkptDay ==
    ASSUME CaptureInv, RunCounts, DayOne, NEW r \in Runs,
           CkptHeader(r) \/ CkptFacts(r) \/ CkptFactsFails(r)
    PROVE  DayOne'
<1>0. /\ pc[r] \in {"ckptHeader", "ckptFacts"} /\ pc[r] \in Walking /\ pc[r] \notin Early
      /\ Live(r) /\ UNCHANGED aged
  BY DEF Live, Stages, Walking, Early, CkptHeader, CkptFacts, CkptFactsFails
<1>1. /\ TypeOK /\ loc[r] \in LocType /\ PartOK(r)
      /\ loc[r].part # None => loc[r].part \in Ids
      /\ loc[r].flushed \subseteq loc[r].probed
      /\ loc[r].part # None => Stored(loc[r].part) = Kept(loc[r])
  BY <1>0, CountsPast
<1>2. aged = 0 => StoredAbove /\ DayAt(pc[r], loc[r])
  BY <1>0, DayOfLive
<1>3. Partials \subseteq {loc[r].part}
  BY <1>0, <1>1 DEF PartOK
<1>4. CASE CkptHeader(r)
  <2>1. PICK i, l : /\ i = IF loc[r].part = None THEN <<r, "partial">> ELSE loc[r].part
                    /\ l = [loc[r] EXCEPT !.part = i]
    OBVIOUS
  <2>2. /\ Go(r, "ckptFacts", l) /\ UNCHANGED facts /\ pc[r] = "ckptHeader"
        /\ IF loc[r].part = None THEN CreatePartial(r, i, loc[r].cursor)
           ELSE header' = IF header[i].stage = "absent" THEN header
                          ELSE [header EXCEPT ![i].cursor = loc[r].cursor]
    BY <1>4, <2>1 DEF CkptHeader
  <2>3. /\ <<r, "partial">> \in Ids
        /\ loc[r].part = None => Stored(<<r, "partial">>) = {}
    BY <1>0, UnusedOfLive
  <2>4. i \in Ids /\ l.part = i /\ l.carried = loc[r].carried /\ l.probed = loc[r].probed
        /\ l.gap = loc[r].gap /\ l.cursor = loc[r].cursor /\ l.end = loc[r].end
    BY <1>1, <2>1, <2>3 DEF LocType
  <2>5. Stored(i)' \subseteq loc[r].carried \cup loc[r].probed
    <3>1. Stored(i)' = Stored(i)
      BY <2>2 DEF Stored
    <3> QED BY <1>1, <2>1, <2>3, <3>1 DEF Kept
  <2>6. header'[i].stage = "partial" => header'[i].cursor = loc[r].cursor
    BY <1>1, <2>2, <2>4 DEF CreatePartial, TypeOK
  <2>7. Partials' \subseteq {i}
    <3>1. \A j \in Ids : j # i => header'[j] = header[j]
      BY <1>1, <2>2, <2>4 DEF CreatePartial, TypeOK
    <3>2. Partials \subseteq {i}
      BY <1>3, <2>1, CaptureAssumption DEF Partials
    <3> HIDE DEF Partials
    <3>3. \A j \in Partials' : j \in Ids /\ header'[j].stage = "partial"
      BY DEF Partials
    <3>4. \A j \in Ids : header[j].stage = "partial" => j \in Partials
      BY DEF Partials
    <3> QED BY <3>1, <3>2, <3>3, <3>4
  <2>8. aged = 0 => DayAt("ckptHeader", loc[r])
    BY <1>2, <2>2
  <2>9. aged = 0 /\ l.cursor # Null => l.carried \cup l.probed \subseteq Above(l.cursor)
    BY <2>4, <2>8 DEF DayAt, Walking
  <2>10. aged = 0 => DayAt("ckptFacts", l)'
    BY <2>4, <2>6, <2>8, <2>9 DEF DayAt, Walking, Above
  <2>11. aged = 0 => StoredAbove'
    <3> SUFFICES ASSUME aged = 0, NEW j \in Partials', header'[j].cursor # Null
                 PROVE  Stored(j)' \subseteq Above(header'[j].cursor)
      BY DEF StoredAbove, Above
    <3>1. j = i /\ header'[i].stage = "partial"
      BY <2>7 DEF Partials
    <3>2. header'[j].cursor = l.cursor
      BY <2>4, <2>6, <3>1
    <3> QED BY <2>4, <2>5, <2>9, <3>1, <3>2
  <2>12. "ckptFacts" \in Stages
    BY DEF Stages
  <2> QED BY <1>0, <2>2, <2>10, <2>11, <2>12, DayStep
<1>5. ASSUME pc[r] = "ckptFacts", NEW T \in SUBSET Batch(r), Insert(r, loc[r].part, T),
             UNCHANGED header,
             NEW stage \in {"walk", "gap"}, NEW l, Go(r, stage, l),
             l.carried = loc[r].carried, l.probed = loc[r].probed, l.gap = loc[r].gap,
             stage = "walk" => l.cursor = loc[r].cursor /\ l.end = loc[r].end
      PROVE  DayOne'
  <2>1. loc[r].part \in Ids /\ loc[r].part # None /\ T \in SUBSET Packages
    BY <1>1, <1>5, CaptureAssumption DEF PartOK, HasPart, Batch, LocType
  <2>2. PICK i : i = loc[r].part
    OBVIOUS
  <2>3. Stored(i)' \subseteq loc[r].carried \cup loc[r].probed
    <3>1. Stored(i)' = Kept(loc[r]) \cup T
      BY <1>1, <1>5, <2>1, <2>2, InsertStores
    <3> QED BY <1>1, <2>2, <3>1 DEF Kept, Batch
  <2>4. aged = 0 => DayAt("ckptFacts", loc[r])
    BY <1>2, <1>5
  <2>5. aged = 0 => StoredAbove'
    <3> SUFFICES ASSUME aged = 0, NEW j \in Partials', header'[j].cursor # Null
                 PROVE  Stored(j)' \subseteq Above(header'[j].cursor)
      BY DEF StoredAbove, Above
    <3>1. j = i /\ header[j].stage = "partial" /\ header'[j] = header[j]
      BY <1>3, <1>5, <2>2 DEF Partials
    <3>2. header[j].cursor = loc[r].cursor /\ loc[r].cursor # Null
      BY <2>2, <2>4, <3>1 DEF DayAt
    <3>3. loc[r].carried \cup loc[r].probed \subseteq Above(loc[r].cursor)
      BY <2>4, <3>2 DEF DayAt, Walking
    <3> QED BY <2>3, <3>1, <3>2, <3>3
  <2>6. aged = 0 => DayAt(stage, l)'
    BY <1>5, <2>4 DEF DayAt, Walking, Above
  <2>7. stage \in Stages
    BY <1>5 DEF Stages
  <2> QED BY <1>0, <1>5, <2>5, <2>6, <2>7, DayStep
<1>6. CASE CkptFacts(r)
  <2>1. PICK l, stage : /\ l = [loc[r] EXCEPT !.flushed = loc[r].probed]
                        /\ stage = AfterPage(loc[r])
    OBVIOUS
  <2>2. /\ pc[r] = "ckptFacts" /\ Insert(r, loc[r].part, Batch(r)) /\ Go(r, stage, l)
        /\ UNCHANGED header
    BY <1>6, <2>1 DEF CkptFacts
  <2>3. /\ l.carried = loc[r].carried /\ l.probed = loc[r].probed /\ l.gap = loc[r].gap
        /\ l.cursor = loc[r].cursor /\ l.end = loc[r].end
    BY <1>1, <2>1 DEF LocType
  <2>4. stage \in {"walk", "gap"}
    BY <2>1 DEF AfterPage
  <2> QED BY <1>5, <2>2, <2>3, <2>4
<1>7. CASE CkptFactsFails(r)
  <2>1. PICK l : l = [loc[r] EXCEPT !.end = "error"]
    OBVIOUS
  <2>2. PICK T \in SUBSET Batch(r) : Insert(r, loc[r].part, T)
    BY <1>7 DEF CkptFactsFails
  <2>3. pc[r] = "ckptFacts" /\ Go(r, "gap", l) /\ UNCHANGED header
    BY <1>7, <2>1 DEF CkptFactsFails
  <2>4. l.carried = loc[r].carried /\ l.probed = loc[r].probed /\ l.gap = loc[r].gap
    BY <1>1, <2>1 DEF LocType
  <2> QED BY <1>5, <2>2, <2>3, <2>4
<1> QED BY <1>4, <1>6, <1>7

(***************************************************************************)
(* Nothing is stale on the first day, so that no gap is closed on it.      *)
(***************************************************************************)
LEMMA NothingStale ==
    ASSUME TypeOK, aged = 0
    PROVE  Stale = {}
<1> SUFFICES ASSUME NEW k \in Stale PROVE FALSE
  OBVIOUS
<1>1. PICK i \in Ids : facts[i][k] # 0
  BY DEF Stale
<1>2. facts[i][k] <= aged /\ facts[i][k] \in 0 .. MaxRuns
  BY <1>1 DEF Stale, TypeOK
<1> QED BY <1>1, <1>2, CaptureAssumption

(***************************************************************************)
(* The steps between the walk and the publication, on the first day.       *)
(***************************************************************************)
LEMMA GapDay ==
    ASSUME CaptureInv, RunCounts, DayOne, NEW r \in Runs,
           \/ CloseGaps(r) \/ NoGaps(r) \/ GapHeader(r) \/ GapFacts(r)
           \/ PublishFresh(r) \/ FreshFacts(r)
    PROVE  DayOne'
<1>0. Live(r) /\ UNCHANGED aged /\ TypeOK
  BY DEF Live, Stages, CloseGaps, NoGaps, GapHeader, GapFacts, PublishFresh, FreshFacts,
         CaptureInv
<1>1. aged = 0 => StoredAbove /\ DayAt(pc[r], loc[r])
  BY <1>0, DayOfLive
<1>2. CASE aged # 0
  BY <1>0, <1>2 DEF DayOne
<1>3. CASE aged = 0
  <2>1. ~CloseGaps(r) /\ ~GapHeader(r) /\ ~GapFacts(r)
    <3>1. Stale = {} /\ pc[r] \notin {"gapHeader", "gapFacts"}
      BY <1>0, <1>1, <1>3, NothingStale DEF DayAt
    <3> QED BY <3>1 DEF CloseGaps, GapHeader, GapFacts
  <2>2. PICK l, stage : /\ l = loc[r] /\ Go(r, stage, l) /\ UNCHANGED header
                        /\ stage \in {"publish", "freshFacts", "freshHeader"}
    BY <2>1 DEF NoGaps, PublishFresh, FreshFacts
  <2>3. DayAt(stage, l)'
    BY <1>1, <1>3, <2>2 DEF DayAt, Walking
  <2>4. \A i \in Partials : facts'[i] = facts[i]
    <3>1. \A i \in Ids : i # <<r, "fresh">> => facts'[i] = facts[i]
      <4>1. CASE FreshFacts(r)
        BY <1>0, <4>1 DEF FreshFacts, InsertAs, TypeOK
      <4>2. CASE NoGaps(r) \/ PublishFresh(r)
        BY <4>2 DEF NoGaps, PublishFresh
      <4> QED BY <2>1, <4>1, <4>2
    <3>2. \A i \in Partials : i \in Ids /\ i[2] = "partial"
      BY DEF CaptureInv, OnlyPartials, Partials
    <3> QED BY <3>1, <3>2
  <2>5. StoredAbove'
    <3>1. Partials' = Partials
      BY <2>2 DEF Partials
    <3>2. \A i \in Partials' : i \in Partials /\ header'[i] = header[i] /\ facts'[i] = facts[i]
      BY <2>2, <2>4, <3>1
    <3> QED BY <1>1, <1>3, <3>2, AboveKept
  <2>6. stage \in Stages
    BY <2>2 DEF Stages
  <2> QED BY <1>0, <2>2, <2>3, <2>5, <2>6, DayStep
<1> QED BY <1>2, <1>3

(***************************************************************************)
(* The end of a run: no partial gains facts.                               *)
(***************************************************************************)
LEMMA EndDay ==
    ASSUME CaptureInv, RunCounts, DayOne, NEW r \in Runs,
           \/ GapFactsFails(r) \/ FreshFactsFails(r) \/ Throws(r)
           \/ Promote(r) \/ FreshHeader(r)
    PROVE  DayOne'
<1>0. Live(r) /\ UNCHANGED aged /\ TypeOK
  BY DEF Live, Stages, Fallible, GapFactsFails, FreshFactsFails, Throws, Promote,
         FreshHeader, CaptureInv
<1>1. PICK stage \in {"done", "failed"} : Go(r, stage, Blank)
  BY DEF End, Complete, GapFactsFails, FreshFactsFails, Throws, Promote, FreshHeader
<1>2. stage \notin Stages
  BY DEF Stages
<1>3. ASSUME aged = 0 PROVE StoredAbove'
  <2>1. StoredAbove /\ pc[r] # "gapFacts"
    BY <1>0, <1>3, DayOfLive DEF DayAt
  <2>2. \A i \in Partials : i \in Ids /\ i[2] = "partial"
    BY DEF CaptureInv, OnlyPartials, Partials
  <2>3. CASE Promote(r) \/ FreshHeader(r)
    <3>1. PICK i : Publishes(r, i)
      BY <2>3 DEF Publishes
    <3>2. /\ UNCHANGED facts /\ Completes' = Completes \cup {i}
          /\ \A j \in Ids : j # i => header'[j] = header[j]
      BY <3>1, PublishSteps
    <3>3. \A j \in Partials' : j \in Partials /\ header'[j] = header[j] /\ facts'[j] = facts[j]
      BY <3>2 DEF Partials, Completes
    <3> QED BY <2>1, <3>3, AboveKept
  <2>4. CASE FreshFactsFails(r) \/ Throws(r)
    <3>1. UNCHANGED header /\ \A i \in Ids : i # <<r, "fresh">> => facts'[i] = facts[i]
      BY <1>0, <2>4 DEF FreshFactsFails, Throws, InsertAs, TypeOK
    <3>2. \A i \in Partials' : i \in Partials /\ header'[i] = header[i] /\ facts'[i] = facts[i]
      <4>1. Partials' = Partials
        BY <3>1 DEF Partials
      <4> QED BY <2>2, <3>1, <4>1
    <3> QED BY <2>1, <3>2, AboveKept
  <2> QED BY <2>1, <2>3, <2>4 DEF GapFactsFails
<1> QED BY <1>0, <1>1, <1>2, <1>3, DayStep

(***************************************************************************)
(* The other steps: a run begins, a crash, and the environment.            *)
(***************************************************************************)
LEMMA OtherDay ==
    ASSUME CaptureInv, DayOne,
           \/ \E r \in Runs : Begin(r)
           \/ Crash \/ PartialVanishes \/ PublishPackage \/ DayPasses \/ UNCHANGED vars
    PROVE  DayOne'
<1>1. TypeOK
  BY DEF CaptureInv
<1>2. CASE \E r \in Runs : Begin(r)
  <2>1. PICK r \in Runs : Begin(r)
    BY <1>2
  <2>2. UNCHANGED <<aged, header, facts>> /\ lock = None /\ Go(r, "detect", Blank)
    BY <2>1 DEF Begin
  <2>3. \A s \in Runs : ~Live(s)
    BY <2>2, CaptureAssumption DEF CaptureInv, LockInv
  <2>4. /\ pc'[r] = "detect" /\ loc'[r] = Blank
        /\ \A s \in Runs : (Live(s))' => s = r
    BY <1>1, <2>2, <2>3 DEF Go, TypeOK, Live
  <2>5. DayAt(pc[r], loc[r])'
    BY <2>4 DEF DayAt, Blank, Walking
  <2>6. aged = 0 => StoredAbove'
    BY <2>2, AboveKept DEF DayOne, Partials
  <2> QED BY <2>2, <2>4, <2>5, <2>6 DEF DayOne
<1>3. CASE Crash
  <2>1. UNCHANGED <<aged, header, facts>> /\ \A s \in Runs : ~(Live(s))'
    BY <1>1, <1>3 DEF Crash, Live, Stages
  <2>2. aged = 0 => StoredAbove'
    BY <2>1, AboveKept DEF DayOne, Partials
  <2> QED BY <2>1, <2>2 DEF DayOne
<1>4. CASE PartialVanishes
  <2>1. PICK i \in Partials : header' = [header EXCEPT ![i] = Absent]
    BY <1>4 DEF PartialVanishes
  <2>2. UNCHANGED <<aged, pc, loc, facts>>
    BY <1>4 DEF PartialVanishes
  <2>3. \A j \in Ids : header'[j] = header[j] \/ header'[j].stage = "absent"
    BY <1>1, <2>1 DEF TypeOK, Absent
  <2>4. \A j \in Partials' : j \in Partials /\ header'[j] = header[j] /\ facts'[j] = facts[j]
    BY <2>2, <2>3 DEF Partials
  <2>5. aged = 0 => StoredAbove'
    BY <2>4, AboveKept DEF DayOne
  <2>6. ASSUME aged = 0, NEW s \in Runs, (Live(s))' PROVE DayAt(pc[s], loc[s])'
    <3>1. Live(s) /\ DayAt(pc[s], loc[s])
      BY <2>2, <2>6 DEF Live, DayOne
    <3>2. PICK l : l = loc[s]
      OBVIOUS
    <3>3. pc[s] = "ckptFacts" => header'[l.part] = header[l.part] \/ header'[l.part].stage = "absent"
      <4>1. pc[s] = "ckptFacts" => l.part \in Ids
        BY <3>1, <3>2, PartOfLive DEF PartOK, HasPart
      <4> QED BY <2>3, <4>1
    <3>4. DayAt(pc[s], l)'
      BY <2>2, <3>1, <3>2, <3>3 DEF DayAt, Stored
    <3> QED BY <2>2, <3>2, <3>4 DEF DayAt
  <2> QED BY <2>2, <2>5, <2>6 DEF DayOne
<1>5. CASE PublishPackage \/ UNCHANGED vars
  <2>1. UNCHANGED <<aged, pc, loc, header, facts>>
    BY <1>5 DEF PublishPackage, vars
  <2>2. aged = 0 => StoredAbove'
    BY <2>1, AboveKept DEF DayOne, Partials
  <2>3. aged = 0 => \A s \in Runs : (Live(s))' => DayAt(pc[s], loc[s])'
    BY <2>1 DEF DayOne, DayAt, Live, Stored
  <2> QED BY <2>1, <2>2, <2>3 DEF DayOne
<1>6. CASE DayPasses
  <2>1. aged' # 0
    BY <1>1, <1>6, CaptureAssumption DEF DayPasses, TypeOK
  <2> QED BY <2>1 DEF DayOne
<1> QED BY <1>2, <1>3, <1>4, <1>5, <1>6

(***************************************************************************)
(* At the start, each partial holds facts from its cursor on.              *)
(***************************************************************************)
LEMMA InitDay == LeftoverInit => DayOne
<1> SUFFICES ASSUME LeftoverInit PROVE DayOne
  OBVIOUS
<1>1. PICK n \in 0 .. MaxRuns :
        /\ pc = [r \in Runs |-> IF r <= n THEN "failed" ELSE "idle"]
        /\ \A i \in Ids : header[i] # Absent => i[1] <= n /\ Leftover(i)
  BY DEF LeftoverInit
<1>2. \A r \in Runs : ~Live(r)
  BY <1>1 DEF Live, Stages
<1>3. TypeOK
  BY DEF LeftoverInit
<1>4. StoredAbove
  <2> SUFFICES ASSUME NEW i \in Partials, header[i].cursor # Null, NEW k \in Stored(i)
               PROVE  k \in Above(header[i].cursor)
    BY DEF StoredAbove
  <2>1. i \in Ids /\ Leftover(i)
    BY <1>1 DEF Partials, Absent
  <2>2. k \in Packages /\ header[i].cursor <= k
    BY <2>1 DEF Stored, Leftover
  <2>3. header[i].cursor \in 0 .. MaxPkg
    BY <1>3, <2>1 DEF TypeOK
  <2> QED BY <2>2, <2>3, CaptureAssumption DEF Packages, Above
<1> QED BY <1>2, <1>4 DEF DayOne

(***************************************************************************)
(* The first day's invariant, on top of the counts: a checkpoint stores    *)
(* what RunCounts says is under the partial.                               *)
(***************************************************************************)
THEOREM DayOneInvariant == Spec \/ LeftoverSpec => []DayOne
<1>1. LeftoverInit => DayOne
  BY InitDay
<1>2. CaptureInv /\ CountInv /\ DayOne /\ [Next]_vars => DayOne'
  <2> SUFFICES ASSUME CaptureInv, RunCounts, DayOne, [Next]_vars PROVE DayOne'
    BY DEF CountInv
  <2>1. ASSUME NEW r \in Runs, RunStep(r) PROVE DayOne'
    <3>1. CASE \/ DetectFresh(r) \/ DetectPartial(r) \/ DropOlder(r) \/ DropOlderFacts(r)
               \/ DropNewest(r) \/ DropNewestFacts(r) \/ Resume(r)
      BY <3>1, DetectDay
    <3>2. CASE ProbePage(r) \/ Deadline(r) \/ FetchError(r) \/ CkptHeaderFails(r)
      BY <3>2, PageDay
    <3>3. CASE CkptHeader(r) \/ CkptFacts(r) \/ CkptFactsFails(r)
      BY <3>3, CkptDay
    <3>4. CASE \/ CloseGaps(r) \/ NoGaps(r) \/ GapHeader(r) \/ GapFacts(r)
               \/ PublishFresh(r) \/ FreshFacts(r)
      BY <3>4, GapDay
    <3>5. CASE \/ GapFactsFails(r) \/ FreshFactsFails(r) \/ Throws(r)
               \/ Promote(r) \/ FreshHeader(r)
      BY <3>5, EndDay
    <3>6. CASE Begin(r)
      BY <3>6, OtherDay
    <3> QED BY <2>1, <3>1, <3>2, <3>3, <3>4, <3>5, <3>6 DEF RunStep
  <2> QED BY <2>1, OtherDay DEF Next
<1> QED BY <1>1, <1>2, CaptureInvariant, CountInvariant, CleanStart, PTL DEF Spec, LeftoverSpec

(***************************************************************************)
(* On the first day a run that resumes never probes again what it carried  *)
(* forward, and no checkpoint of it collides with stored facts, however    *)
(* many partials were left behind and wherever their runs died.            *)
(***************************************************************************)
THEOREM ResumesBelowCursor == Spec \/ LeftoverSpec => []ResumesAfterCursorSameDay
<1>1. CaptureInv /\ CountInv /\ DayOne => ResumesAfterCursorSameDay
  <2> SUFFICES ASSUME CaptureInv, RunCounts, DayOne, aged = 0, NEW r \in Runs
               PROVE  /\ loc[r].carried \cap loc[r].probed = {}
                      /\ pc[r] = "ckptFacts" => ~Collides(loc[r].part, Batch(r))
    BY DEF CountInv, ResumesAfterCursorSameDay, ResumesAfterCursor
  <2>1. CASE ~Live(r)
    <3>1. loc[r] = Blank /\ pc[r] # "ckptFacts"
      BY <2>1 DEF RunCounts, BlankInv, Live, Stages
    <3> QED BY <3>1 DEF Blank
  <2>2. CASE Live(r)
    <3>1. DayAt(pc[r], loc[r])
      BY <2>2, DayOfLive
    <3>2. ASSUME pc[r] = "ckptFacts" PROVE ~Collides(loc[r].part, Batch(r))
      <4>1. pc[r] \in Walking /\ pc[r] \notin Early
        BY <3>2 DEF Walking, Early
      <4>2. loc[r].part # None
        BY <2>2, <3>2, PartOfLive, CaptureAssumption DEF PartOK, HasPart
      <4>3. Stored(loc[r].part) = Kept(loc[r])
        BY <2>2, <4>1, <4>2, CountsPast
      <4>4. loc[r].carried \cap loc[r].probed = {}
        BY <3>1 DEF DayAt
      <4> QED BY <4>3, <4>4 DEF Collides, Batch, Kept
    <3> QED BY <3>1, <3>2 DEF DayAt
  <2> QED BY <2>1, <2>2
<1> QED BY <1>1, CaptureInvariant, CountInvariant, DayOneInvariant, PTL

(***************************************************************************)
(* The history of facts.                                                   *)
(*                                                                         *)
(* Facts are those of runs that have begun.  A live run is newer than all  *)
(* that is published, and so is every fact under an id that may still be   *)
(* published, its own probes and the carried ones: of each package, what   *)
(* is published next is a later probe than what was published before.      *)
(***************************************************************************)
Pending(i) ==
    i \in Partials \/ \E r \in Runs : Live(r) /\ (i = loc[r].part \/ i = <<r, "fresh">>)

FactsOfBegun ==
    \A i \in Ids, k \in Packages : facts[i][k] # 0 => pc[facts[i][k]] # "idle"

RunsAreNewer ==
    \A r \in Runs, j \in Completes, k \in Packages : Live(r) => facts[j][k] < r

PendingIsNewer ==
    \A i \in Ids, j \in Completes, k \in Packages :
        Pending(i) /\ facts[i][k] # 0 => facts[j][k] < facts[i][k]

NewerFacts == FactsOfBegun /\ RunsAreNewer /\ PendingIsNewer

(***************************************************************************)
(* The live run is the newest that has begun.                              *)
(***************************************************************************)
LEMMA LiveIsNewest ==
    ASSUME CaptureInv, NEW r \in Runs, Live(r), NEW s \in Runs
    PROVE  pc[s] # "idle" <=> s <= r
<1>1. pc[r] # "idle" /\ r \in Nat /\ s \in Nat
  BY CaptureAssumption DEF Live, Stages, Runs
<1>2. r < s => pc[s] = "idle"
  BY DEF CaptureInv, OrderedUse
<1>3. s < r /\ pc[s] = "idle" => pc[r] = "idle"
  BY DEF CaptureInv, OrderedUse
<1> QED BY <1>1, <1>2, <1>3

(***************************************************************************)
(* How a step changes the facts: it drops some, or a live run inserts, and *)
(* only where there was none, its own probes and carried ones.             *)
(***************************************************************************)
Drops == \A i \in Ids, k \in Packages : facts'[i][k] \in {facts[i][k], 0}

Adds(r) ==
    \A i \in Ids, k \in Packages :
        \/ facts'[i][k] = facts[i][k]
        \/ /\ facts[i][k] = 0
           /\ i = loc[r].part \/ i = <<r, "fresh">>
           /\ facts'[i][k] = r \/ (loc[r].part \in Ids /\ facts'[i][k] = facts[loc[r].part][k])

(***************************************************************************)
(* Inserting a run's own probes is such a step.                            *)
(***************************************************************************)
LEMMA InsertAdds ==
    ASSUME TypeOK, NEW r \in Runs, NEW T, Insert(r, loc[r].part, T)
    PROVE  Adds(r)
BY DEF Insert, InsertAs, Adds, TypeOK

(***************************************************************************)
(* So is inserting a final list under the fresh id.                        *)
(***************************************************************************)
LEMMA FreshAdds ==
    ASSUME CaptureInv, NEW r \in Runs, Live(r), NEW T, InsertAs(<<r, "fresh">>, T, Prober(r))
    PROVE  Adds(r)
<1>1. TypeOK /\ PartOK(r)
  BY PartOfLive DEF CaptureInv
<1>2. ASSUME NEW k \in loc[r].carried PROVE loc[r].part \in Ids
  BY <1>1, <1>2 DEF PartOK, TypeOK
<1>3. ASSUME NEW k \in Packages
      PROVE  Prober(r)[k] = r \/ (loc[r].part \in Ids /\ Prober(r)[k] = facts[loc[r].part][k])
  BY <1>2, <1>3 DEF Prober
<1>4. ASSUME NEW i \in Ids, NEW k \in Packages
      PROVE  \/ facts'[i][k] = facts[i][k]
             \/ facts[i][k] = 0 /\ i = <<r, "fresh">> /\ facts'[i][k] = Prober(r)[k]
  BY <1>1 DEF InsertAs, TypeOK
<1> QED BY <1>3, <1>4 DEF Adds

(***************************************************************************)
(* Every step drops facts, adds facts of a live run, or changes none.      *)
(***************************************************************************)
LEMMA FactsMove ==
    ASSUME CaptureInv, [Next]_vars
    PROVE  Drops \/ \E r \in Runs : Live(r) /\ Adds(r)
<1>0. TypeOK
  BY DEF CaptureInv
<1>1. CASE UNCHANGED facts
  BY <1>1 DEF Drops
<1>2. ASSUME NEW r \in Runs,
             CkptFacts(r) \/ CkptFactsFails(r) \/ GapFacts(r) \/ GapFactsFails(r)
      PROVE  Live(r) /\ Adds(r)
  <2>1. Live(r) /\ \E T : Insert(r, loc[r].part, T)
    BY <1>2 DEF CkptFacts, CkptFactsFails, GapFacts, GapFactsFails, Live, Stages
  <2> QED BY <1>0, <2>1, InsertAdds
<1>3. ASSUME NEW r \in Runs, FreshFacts(r) \/ FreshFactsFails(r)
      PROVE  Live(r) /\ Adds(r)
  <2>1. Live(r) /\ \E T : InsertAs(<<r, "fresh">>, T, Prober(r))
    BY <1>3 DEF FreshFacts, FreshFactsFails, Live, Stages
  <2> QED BY <2>1, FreshAdds
<1>4. ASSUME NEW r \in Runs, DropNewestFacts(r) \/ DropOlderFacts(r) PROVE Drops
  <2>1. \A i \in Ids : facts'[i] = facts[i] \/ facts'[i] = NoFacts
    BY <1>0, <1>4 DEF DropNewestFacts, DropOlderFacts, TypeOK
  <2> QED BY <2>1 DEF Drops, NoFacts
<1>5. CASE facts' # facts
  <2>1. PICK r \in Runs : RunStep(r)
    BY <1>5 DEF Next, Crash, PartialVanishes, PublishPackage, DayPasses, vars
  <2>2. \/ CkptFacts(r) \/ CkptFactsFails(r) \/ GapFacts(r) \/ GapFactsFails(r)
        \/ FreshFacts(r) \/ FreshFactsFails(r) \/ DropNewestFacts(r) \/ DropOlderFacts(r)
    BY <1>5, <2>1
    DEF RunStep, Begin, DetectFresh, DetectPartial, DropOlder, DropNewest, Resume,
        ProbePage, Deadline, FetchError, CkptHeader, CkptHeaderFails, CloseGaps, NoGaps,
        GapHeader, Promote, PublishFresh, FreshHeader, Throws
  <2> QED BY <2>2, <1>2, <1>3, <1>4
<1> QED BY <1>1, <1>5

(***************************************************************************)
(* How a step of a run changes what it may publish: its partial stays, is  *)
(* given up, is one of those that exist, or is created under its own id.   *)
(***************************************************************************)
MayCreate(r, i) == Live(r) /\ loc[r].part = None /\ i = <<r, "partial">>

KeepsPart(r) ==
    \/ loc'[r].part \in {None, loc[r].part} \cup Partials
    \/ MayCreate(r, loc'[r].part)

(***************************************************************************)
(* A step that keeps the part in the locals it leaves does so.             *)
(***************************************************************************)
LEMMA GoKeepsPart ==
    ASSUME TypeOK, NEW r \in Runs, NEW stage, NEW l, Go(r, stage, l),
           \/ l.part \in {None, loc[r].part} \cup Partials
           \/ MayCreate(r, l.part)
    PROVE  KeepsPart(r)
<1>1. loc'[r] = l
  BY DEF Go, TypeOK
<1> QED BY <1>1 DEF KeepsPart

(***************************************************************************)
(* Every step of a live run that leaves it live keeps its part so.         *)
(***************************************************************************)
LEMMA MovesPart ==
    ASSUME CaptureInv, NEW r \in Runs, RunStep(r), (Live(r))'
    PROVE  (Begin(r) /\ loc'[r].part = None) \/ (Live(r) /\ KeepsPart(r))
<1>0. TypeOK /\ loc[r] \in LocType
  BY DEF CaptureInv, TypeOK, LocType
<1>1. CASE Begin(r)
  <2>1. loc'[r] = Blank
    BY <1>0, <1>1 DEF Begin, Go, TypeOK
  <2> QED BY <1>1, <2>1 DEF Blank
<1>2. CASE \/ DetectFresh(r) \/ DropOlder(r) \/ DropNewest(r) \/ NoGaps(r) \/ GapFacts(r)
           \/ PublishFresh(r) \/ FreshFacts(r)
  <2>1. PICK stage \in Stages : Go(r, stage, loc[r])
    BY <1>2 DEF DetectFresh, DropOlder, DropNewest, NoGaps, GapFacts, PublishFresh,
                FreshFacts, Stages
  <2>2. Live(r)
    BY <1>2 DEF DetectFresh, DropOlder, DropNewest, NoGaps, GapFacts, PublishFresh,
                FreshFacts, Live, Stages
  <2> QED BY <1>0, <2>1, <2>2, GoKeepsPart
<1>3. CASE DetectPartial(r)
  <2>1. Newest(Partials) \in Partials
    BY <1>3, NewestIsOne DEF DetectPartial, Partials
  <2>2. /\ Live(r) /\ loc'[r].part = Newest(Partials)
    BY <1>0, <1>3 DEF DetectPartial, Go, TypeOK, LocType, Live, Stages
  <2> QED BY <2>1, <2>2 DEF KeepsPart
<1>4. CASE DropOlderFacts(r) \/ Resume(r) \/ CkptFacts(r)
  <2>1. Live(r) /\ loc'[r].part = loc[r].part
    BY <1>0, <1>4 DEF DropOlderFacts, Resume, CkptFacts, Go, TypeOK, LocType, Live, Stages
  <2> QED BY <2>1 DEF KeepsPart
<1>5. CASE DropNewestFacts(r)
  <2>1. Live(r) /\ loc'[r].part = None
    BY <1>0, <1>5 DEF DropNewestFacts, Go, TypeOK, LocType, Live, Stages
  <2> QED BY <2>1 DEF KeepsPart
<1>6. CASE \/ Deadline(r) \/ FetchError(r) \/ CkptHeaderFails(r) \/ CkptFactsFails(r)
           \/ CloseGaps(r) \/ ProbePage(r)
  <2>1. Live(r)
    BY <1>6 DEF Deadline, FetchError, CkptHeaderFails, CkptFactsFails, CloseGaps, ProbePage,
                Live, Stages
  <2>2. loc'[r].part = loc[r].part
    <3>1. CASE Deadline(r)
      BY <1>0, <3>1 DEF Deadline, Go, TypeOK, LocType
    <3>2. CASE FetchError(r) \/ CkptHeaderFails(r) \/ CkptFactsFails(r)
      BY <1>0, <3>2 DEF FetchError, CkptHeaderFails, CkptFactsFails, Go, TypeOK, LocType
    <3>3. CASE CloseGaps(r)
      BY <1>0, <3>3 DEF CloseGaps, Go, TypeOK, LocType
    <3>4. CASE ProbePage(r)
      BY <1>0, <3>4 DEF ProbePage, Go, TypeOK, LocType
    <3> QED BY <1>6, <3>1, <3>2, <3>3, <3>4
  <2> QED BY <2>1, <2>2 DEF KeepsPart
<1>7. CASE CkptHeader(r) \/ GapHeader(r)
  <2>1. Live(r)
    BY <1>7 DEF CkptHeader, GapHeader, Live, Stages
  <2>2. PartOK(r)
    BY <2>1, PartOfLive
  <2>3. loc'[r].part = loc[r].part \/ (loc[r].part = None /\ loc'[r].part = <<r, "partial">>)
    BY <1>0, <1>7, <2>2 DEF CkptHeader, GapHeader, PartOK, Go, TypeOK, LocType
  <2> QED BY <2>1, <2>3 DEF KeepsPart, MayCreate
<1>8. CASE GapFactsFails(r) \/ Promote(r) \/ FreshFactsFails(r) \/ FreshHeader(r) \/ Throws(r)
  <2>1. pc'[r] \in {"done", "failed"}
    BY <1>0, <1>8 DEF GapFactsFails, Promote, FreshFactsFails, FreshHeader, Throws, Complete,
                      End, Go, TypeOK
  <2> QED BY <2>1 DEF Live, Stages
<1> QED BY <1>1, <1>2, <1>3, <1>4, <1>5, <1>6, <1>7, <1>8 DEF RunStep

(***************************************************************************)
(* No step makes a partial of anything else.                               *)
(***************************************************************************)
LEMMA NewPartials ==
    ASSUME CaptureInv, [Next]_vars, NEW i \in Partials'
    PROVE  i \in Partials \/ \E r \in Runs : MayCreate(r, i)
<1>0. TypeOK /\ i \in Ids /\ header'[i].stage = "partial"
  BY DEF CaptureInv, Partials
<1>1. CASE UNCHANGED header
  BY <1>0, <1>1 DEF Partials
<1>2. CASE PartialVanishes
  BY <1>0, <1>2 DEF PartialVanishes, Partials, Absent, TypeOK
<1>3. ASSUME NEW r \in Runs, RunStep(r), header' # header
      PROVE  i \in Partials \/ MayCreate(r, i)
  <2>1. \/ DropOlder(r) \/ DropNewest(r) \/ CkptHeader(r) \/ GapHeader(r)
        \/ Promote(r) \/ FreshHeader(r)
    BY <1>3
    DEF RunStep, Begin, DetectFresh, DetectPartial, DropOlderFacts, DropNewestFacts, Resume,
        ProbePage, Deadline, FetchError, CkptFacts, CkptHeaderFails, CkptFactsFails,
        CloseGaps, NoGaps, GapFacts, GapFactsFails, PublishFresh, FreshFacts,
        FreshFactsFails, Throws
  <2>2. CASE DropOlder(r) \/ DropNewest(r)
    <3>1. header'[i] = header[i] \/ header'[i] = Absent
      BY <1>0, <2>2 DEF DropOlder, DropNewest, TypeOK
    <3>2. Absent.stage = "absent"
      BY DEF Absent
    <3> QED BY <1>0, <3>1, <3>2 DEF Partials
  <2>3. CASE CkptHeader(r) \/ GapHeader(r)
    <3>1. Live(r)
      BY <2>3 DEF CkptHeader, GapHeader, Live, Stages
    <3>2. PartOK(r)
      BY <3>1, PartOfLive
    <3>3. CASE loc[r].part = None
      <4>1. \E c : CreatePartial(r, <<r, "partial">>, c)
        BY <2>3, <3>3 DEF CkptHeader, GapHeader
      <4> QED BY <1>0, <3>1, <3>3, <4>1 DEF CreatePartial, MayCreate, Partials, TypeOK
    <3>4. CASE loc[r].part # None
      <4>1. \A j \in Ids : header'[j].stage = header[j].stage
        <5>1. CkptHeader(r)
          BY <2>3, <3>2, <3>4 DEF GapHeader, PartOK
        <5>2. \/ UNCHANGED header
              \/ header' = [header EXCEPT ![loc[r].part].cursor = loc[r].cursor]
          BY <3>4, <5>1 DEF CkptHeader
        <5> QED BY <1>0, <5>2 DEF TypeOK
      <4> QED BY <1>0, <4>1 DEF Partials
    <3> QED BY <3>3, <3>4
  <2>4. CASE Promote(r) \/ FreshHeader(r)
    <3>1. \E j : header' = [header EXCEPT ![j] = [stage |-> "complete", cursor |-> Null,
                                                 total |-> Total(loc[r])]]
      BY <2>4 DEF Promote, FreshHeader, Complete
    <3>2. header'[i] = header[i]
      BY <1>0, <3>1 DEF TypeOK
    <3> QED BY <1>0, <3>2 DEF Partials
  <2> QED BY <2>1, <2>2, <2>3, <2>4
<1> QED BY <1>1, <1>2, <1>3 DEF Next, Crash, PublishPackage, DayPasses, vars

(***************************************************************************)
(* A step of a run moves that run only.                                    *)
(***************************************************************************)
LEMMA StepGoes ==
    ASSUME NEW r \in Runs, RunStep(r)
    PROVE  \E stage, l : Go(r, stage, l)
<1>1. CASE \/ Begin(r) \/ DetectFresh(r) \/ DetectPartial(r) \/ DropOlder(r)
           \/ DropOlderFacts(r) \/ DropNewest(r) \/ DropNewestFacts(r) \/ Resume(r)
  BY <1>1 DEF Begin, DetectFresh, DetectPartial, DropOlder, DropOlderFacts, DropNewest,
              DropNewestFacts, Resume
<1>2. CASE \/ Deadline(r) \/ FetchError(r) \/ CkptHeader(r) \/ CkptFacts(r)
           \/ CkptHeaderFails(r) \/ CkptFactsFails(r) \/ ProbePage(r)
  BY <1>2 DEF Deadline, FetchError, CkptHeader, CkptFacts, CkptHeaderFails, CkptFactsFails,
              ProbePage
<1>3. CASE CloseGaps(r) \/ NoGaps(r) \/ GapHeader(r) \/ GapFacts(r) \/ GapFactsFails(r)
  BY <1>3 DEF CloseGaps, NoGaps, GapHeader, GapFacts, GapFactsFails, End
<1>4. CASE \/ Promote(r) \/ PublishFresh(r) \/ FreshFacts(r) \/ FreshFactsFails(r)
           \/ FreshHeader(r) \/ Throws(r)
  BY <1>4 DEF Promote, PublishFresh, FreshFacts, FreshFactsFails, FreshHeader, Throws,
              Complete, End
<1> QED BY <1>1, <1>2, <1>3, <1>4 DEF RunStep

(***************************************************************************)
(* What a run that is live after a step does not do itself leaves it as it *)
(* was: only a crash touches other runs, and it ends them.                 *)
(***************************************************************************)
LEMMA OthersStay ==
    ASSUME CaptureInv, [Next]_vars, NEW s \in Runs, (Live(s))', ~RunStep(s)
    PROVE  pc'[s] = pc[s] /\ loc'[s] = loc[s]
<1>0. TypeOK
  BY DEF CaptureInv
<1>1. ASSUME NEW r \in Runs, RunStep(r) PROVE pc'[s] = pc[s] /\ loc'[s] = loc[s]
  <2>1. PICK stage, l : Go(r, stage, l)
    BY <1>1, StepGoes
  <2> QED BY <1>0, <1>1, <2>1 DEF Go, TypeOK
<1>2. ~Crash
  BY <1>0 DEF Crash, Live, Stages, TypeOK
<1> QED BY <1>1, <1>2 DEF Next, PartialVanishes, PublishPackage, DayPasses, vars

(***************************************************************************)
(* An id that a step makes pending holds no facts yet.                     *)
(***************************************************************************)
LEMMA PendingGrows ==
    ASSUME CaptureInv, RunCounts, [Next]_vars, NEW i \in Ids, Pending(i)'
    PROVE  Pending(i) \/ facts[i] = NoFacts
<1>1. ASSUME NEW r \in Runs, MayCreate(r, i) PROVE facts[i] = NoFacts
  <2>1. UnusedPartial(r)
    BY <1>1, CaptureAssumption DEF MayCreate, UnusedPartial
  <2> QED BY <1>1, <2>1 DEF MayCreate, RunCounts, UnusedInv
<1>2. CASE i \in Partials'
  BY <1>1, <1>2, NewPartials DEF Pending
<1>3. ASSUME NEW s \in Runs, (Live(s))', i = loc'[s].part
      PROVE  Pending(i) \/ facts[i] = NoFacts
  <2>1. CASE ~RunStep(s)
    BY <1>3, <2>1, OthersStay DEF Pending, Live
  <2>2. CASE RunStep(s)
    <3>1. Live(s) /\ KeepsPart(s)
      BY <1>3, <2>2, MovesPart, CaptureAssumption
    <3>2. CASE i \in {loc[s].part} \cup Partials
      BY <3>1, <3>2 DEF Pending
    <3>3. CASE MayCreate(s, i)
      BY <1>1, <3>3
    <3> QED BY <1>3, <3>1, <3>2, <3>3, CaptureAssumption DEF KeepsPart
  <2> QED BY <2>1, <2>2
<1>4. ASSUME NEW s \in Runs, (Live(s))', i = <<s, "fresh">>
      PROVE  Pending(i) \/ facts[i] = NoFacts
  <2>1. CASE Live(s)
    BY <1>4, <2>1 DEF Pending
  <2>2. CASE ~Live(s)
    <3>1. RunStep(s)
      BY <1>4, <2>2, OthersStay DEF Live
    <3>2. pc[s] = "idle"
      BY <1>4, <2>2, <3>1, MovesPart DEF Begin
    <3> QED BY <1>4, <3>2 DEF RunCounts, UnusedInv, UnusedFresh
  <2> QED BY <2>1, <2>2
<1> QED BY <1>2, <1>3, <1>4 DEF Pending

(***************************************************************************)
(* Runs that have begun stay begun.                                        *)
(***************************************************************************)
LEMMA BegunStays ==
    ASSUME CaptureInv, [Next]_vars, NEW s \in Runs, pc[s] # "idle"
    PROVE  pc'[s] # "idle"
<1>0. TypeOK
  BY DEF CaptureInv
<1>1. ASSUME NEW r \in Runs, RunStep(r) PROVE pc'[r] # "idle"
  <2>1. CASE (Live(r))'
    BY <2>1 DEF Live, Stages
  <2>2. CASE ~(Live(r))'
    <3>1. \/ GapFactsFails(r) \/ Promote(r) \/ FreshFactsFails(r) \/ FreshHeader(r)
          \/ Throws(r) \/ pc'[r] \in Stages
      <4>1. CASE \/ Begin(r) \/ DetectFresh(r) \/ DetectPartial(r) \/ DropOlder(r)
                 \/ DropOlderFacts(r) \/ DropNewest(r) \/ DropNewestFacts(r) \/ Resume(r)
        BY <1>0, <4>1 DEF Begin, DetectFresh, DetectPartial, DropOlder, DropOlderFacts,
             DropNewest, DropNewestFacts, Resume, NextOfDetect, Go, TypeOK, Stages
      <4>2. CASE \/ Deadline(r) \/ FetchError(r) \/ CkptHeader(r) \/ CkptFacts(r)
                 \/ CkptHeaderFails(r) \/ CkptFactsFails(r) \/ ProbePage(r)
        BY <1>0, <4>2 DEF Deadline, FetchError, CkptHeader, CkptFacts, CkptHeaderFails,
             CkptFactsFails, ProbePage, AfterPage, Go, TypeOK, Stages
      <4>3. CASE \/ CloseGaps(r) \/ NoGaps(r) \/ GapHeader(r) \/ GapFacts(r)
                 \/ PublishFresh(r) \/ FreshFacts(r)
        BY <1>0, <4>3 DEF CloseGaps, NoGaps, GapHeader, GapFacts, PublishFresh, FreshFacts,
             Go, TypeOK, Stages
      <4> QED BY <1>1, <4>1, <4>2, <4>3 DEF RunStep
    <3>2. ASSUME GapFactsFails(r) \/ Promote(r) \/ FreshFactsFails(r) \/ FreshHeader(r)
                 \/ Throws(r)
          PROVE  pc'[r] \in {"done", "failed"}
      BY <1>0, <3>2 DEF GapFactsFails, Promote, FreshFactsFails, FreshHeader, Throws,
           Complete, End, Go, TypeOK
    <3> QED BY <2>2, <3>1, <3>2 DEF Live
  <2> QED BY <2>1, <2>2
<1>2. ASSUME NEW r \in Runs, RunStep(r), r # s PROVE pc'[s] = pc[s]
  <2>1. PICK stage, l : Go(r, stage, l)
    BY <1>2, StepGoes
  <2> QED BY <1>0, <1>2, <2>1 DEF Go, TypeOK
<1>3. CASE Crash
  BY <1>0, <1>3 DEF Crash, TypeOK
<1>4. CASE PartialVanishes \/ PublishPackage \/ DayPasses \/ UNCHANGED vars
  BY <1>4 DEF PartialVanishes, PublishPackage, DayPasses, vars
<1> QED BY <1>1, <1>2, <1>3, <1>4 DEF Next

(***************************************************************************)
(* At the start nothing is published and only runs that are over have      *)
(* facts.                                                                  *)
(***************************************************************************)
LEMMA InitNewer == LeftoverInit => NewerFacts
<1> SUFFICES ASSUME LeftoverInit PROVE NewerFacts
  OBVIOUS
<1>1. PICK n \in 0 .. MaxRuns :
        /\ pc = [r \in Runs |-> IF r <= n THEN "failed" ELSE "idle"]
        /\ \A i \in Ids : header[i] # Absent => i[1] <= n /\ Leftover(i)
        /\ \A i \in Ids, k \in Packages : facts[i][k] <= n
  BY DEF LeftoverInit
<1>2. Completes = {}
  BY <1>1 DEF Completes, Leftover, Absent
<1>3. FactsOfBegun
  <2> SUFFICES ASSUME NEW i \in Ids, NEW k \in Packages, facts[i][k] # 0
               PROVE  pc[facts[i][k]] # "idle"
    BY DEF FactsOfBegun
  <2>1. facts[i][k] \in Runs /\ facts[i][k] <= n
    BY <1>1, CaptureAssumption DEF LeftoverInit, TypeOK, Runs
  <2> QED BY <1>1, <2>1
<1> QED BY <1>2, <1>3 DEF NewerFacts, RunsAreNewer, PendingIsNewer

(***************************************************************************)
(* A run that is live after a step and was not before it has just begun.   *)
(***************************************************************************)
LEMMA LiveOrBegins ==
    ASSUME CaptureInv, [Next]_vars, NEW s \in Runs, (Live(s))'
    PROVE  Live(s) \/ Begin(s)
<1>1. CASE RunStep(s)
  BY <1>1, MovesPart
<1>2. CASE ~RunStep(s)
  BY <1>2, OthersStay DEF Live
<1> QED BY <1>1, <1>2

(***************************************************************************)
(* After a step that publishes, no run is live and no partial is left.     *)
(***************************************************************************)
LEMMA PublishEnds ==
    ASSUME CaptureInv, NEW r \in Runs, NEW i, Publishes(r, i)
    PROVE  (\A s \in Runs : ~(Live(s))') /\ Partials' = {}
<1>1. Live(r) /\ PartOK(r) /\ TypeOK /\ lock = r
  BY PartOfLive DEF Publishes, Promote, FreshHeader, Live, Stages, CaptureInv, LockInv
<1>2. i \in Ids /\ Complete(r, i) /\ Partials \subseteq {i}
  <2>1. CASE Promote(r) /\ i = loc[r].part
    BY <1>1, <2>1 DEF Promote, PartialExists, PartOK, TypeOK
  <2>2. CASE FreshHeader(r) /\ i = <<r, "fresh">>
    BY <1>1, <2>2 DEF FreshHeader, PartOK, Ids
  <2> QED BY <2>1, <2>2 DEF Publishes
<1>3. Partials' = {}
  <2>1. \A j \in Ids : header'[j].stage = IF j = i THEN "complete" ELSE header[j].stage
    BY <1>1, <1>2 DEF Complete, TypeOK
  <2> QED BY <1>2, <2>1 DEF Partials
<1>4. lock' = None
  BY <1>1, <1>2 DEF Complete, End
<1>5. ASSUME NEW s \in Runs, (Live(s))' PROVE FALSE
  <2>1. (LockInv)'
    BY PublishSteps DEF CaptureInv
  <2>2. lock' = s
    BY <1>5, <2>1 DEF LockInv
  <2> QED BY <1>4, <2>2, CaptureAssumption
<1> QED BY <1>3, <1>5

(***************************************************************************)
(* Every step keeps the history in order.                                  *)
(***************************************************************************)
LEMMA NewerStep ==
    ASSUME CaptureInv, RunCounts, NewerFacts, [Next]_vars
    PROVE  NewerFacts'
<1>0. TypeOK
  BY DEF CaptureInv
<1>1. ASSUME NEW i \in Ids, NEW k \in Packages, facts[i][k] # 0
      PROVE  facts[i][k] \in Runs /\ pc[facts[i][k]] # "idle" /\ pc'[facts[i][k]] # "idle"
  <2>1. facts[i][k] \in Runs
    BY <1>0, <1>1, CaptureAssumption DEF TypeOK, Runs
  <2>2. pc[facts[i][k]] # "idle"
    BY <1>1 DEF NewerFacts, FactsOfBegun
  <2> QED BY <2>1, <2>2, BegunStays
<1>2. FactsOfBegun'
  <2> SUFFICES ASSUME NEW i \in Ids, NEW k \in Packages, facts'[i][k] # 0
               PROVE  pc'[facts'[i][k]] # "idle"
    BY DEF FactsOfBegun
  <2>1. CASE Drops
    BY <1>1, <2>1 DEF Drops
  <2>2. ASSUME NEW r \in Runs, Live(r), Adds(r) PROVE pc'[facts'[i][k]] # "idle"
    <3>1. pc'[r] # "idle"
      BY <2>2, BegunStays DEF Live, Stages
    <3> QED BY <1>1, <2>2, <3>1 DEF Adds
  <2> QED BY <2>1, <2>2, FactsMove
<1>3. CASE \E r \in Runs : Promote(r) \/ FreshHeader(r)
  <2>1. PICK r \in Runs, i \in Ids : Publishes(r, i)
    <3>1. \E r \in Runs : \E i : Publishes(r, i)
      BY <1>3 DEF Publishes
    <3>2. PICK r \in Runs : \E i : Publishes(r, i)
      BY <3>1
    <3>3. PICK i : Publishes(r, i)
      BY <3>2
    <3> QED BY <3>3, PublishSteps
  <2>2. (\A s \in Runs : ~(Live(s))') /\ Partials' = {}
    BY <2>1, PublishEnds
  <2>3. \A j \in Ids : ~Pending(j)'
    BY <2>2 DEF Pending
  <2> QED BY <1>2, <2>2, <2>3 DEF NewerFacts, RunsAreNewer, PendingIsNewer
<1>4. CASE \A r \in Runs : ~Promote(r) /\ ~FreshHeader(r)
  <2>1. Completes' = Completes /\ \A j \in Completes : j \in Ids /\ facts'[j] = facts[j]
    BY <1>4, QuietSteps DEF Quiet, Completes
  <2>2. RunsAreNewer'
    <3> SUFFICES ASSUME NEW s \in Runs, NEW j \in Completes, NEW k \in Packages, (Live(s))'
                 PROVE  facts[j][k] < s
      BY <2>1 DEF RunsAreNewer
    <3>1. CASE Live(s)
      BY <3>1 DEF NewerFacts, RunsAreNewer
    <3>2. CASE Begin(s)
      <4>1. pc[s] = "idle" /\ s \in Nat /\ s > 0
        BY <3>2, CaptureAssumption DEF Begin, Runs
      <4>2. CASE facts[j][k] = 0
        BY <4>1, <4>2
      <4>3. CASE facts[j][k] # 0
        <5>1. facts[j][k] \in Runs /\ pc[facts[j][k]] # "idle"
          BY <1>1, <2>1, <4>3
        <5>2. ~(s < facts[j][k])
          BY <4>1, <5>1 DEF CaptureInv, OrderedUse
        <5> QED BY <4>1, <5>1, <5>2, CaptureAssumption DEF Runs
      <4> QED BY <4>2, <4>3
    <3> QED BY <3>1, <3>2, LiveOrBegins
  <2>3. PendingIsNewer'
    <3> SUFFICES ASSUME NEW i \in Ids, NEW j \in Completes, NEW k \in Packages,
                        Pending(i)', facts'[i][k] # 0
                 PROVE  facts[j][k] < facts'[i][k]
      BY <2>1 DEF PendingIsNewer
    <3>1. CASE facts'[i][k] = facts[i][k]
      <4>1. facts[i] # NoFacts
        BY <3>1 DEF NoFacts
      <4>2. Pending(i)
        BY <4>1, PendingGrows
      <4> QED BY <3>1, <4>2 DEF NewerFacts, PendingIsNewer
    <3>2. ASSUME NEW r \in Runs, Live(r), facts'[i][k] = r PROVE facts[j][k] < facts'[i][k]
      BY <3>2 DEF NewerFacts, RunsAreNewer
    <3>3. ASSUME NEW r \in Runs, Live(r), loc[r].part \in Ids,
                 facts'[i][k] = facts[loc[r].part][k]
          PROVE  facts[j][k] < facts'[i][k]
      <4>1. Pending(loc[r].part)
        BY <3>3 DEF Pending
      <4> QED BY <3>3, <4>1 DEF NewerFacts, PendingIsNewer
    <3> QED BY <3>1, <3>2, <3>3, FactsMove DEF Drops, Adds
  <2> QED BY <1>2, <2>2, <2>3 DEF NewerFacts
<1> QED BY <1>3, <1>4

(***************************************************************************)
(* The facts that may still be published are newer than the published      *)
(* ones, in every reachable state.  That no snapshot shows an older probe  *)
(* than the one before it is not inductive by itself: it needs the facts   *)
(* that a crashed run left under a partial, and the ones a run carries     *)
(* over to its fresh id.                                                   *)
(***************************************************************************)
THEOREM NewerInvariant == Spec \/ LeftoverSpec => []NewerFacts
<1>1. LeftoverInit => NewerFacts
  BY InitNewer
<1>2. CaptureInv /\ CountInv /\ NewerFacts /\ [Next]_vars => NewerFacts'
  BY NewerStep DEF CountInv
<1> QED
  BY <1>1, <1>2, CaptureInvariant, CountInvariant, CleanStart, PTL DEF Spec, LeftoverSpec

(***************************************************************************)
(* The runs begin in order, so that those begun are the ones up to Begun.  *)
(***************************************************************************)
BegunIn(p) == CHOOSE n \in 0 .. MaxRuns : \A r \in Runs : p[r] # "idle" <=> r <= n

(***************************************************************************)
(* A number that says so of p is the only one.                             *)
(***************************************************************************)
LEMMA OneBegun ==
    ASSUME NEW p, NEW n \in 0 .. MaxRuns, \A r \in Runs : p[r] # "idle" <=> r <= n
    PROVE  BegunIn(p) = n
<1>1. ASSUME NEW m \in 0 .. MaxRuns, \A r \in Runs : p[r] # "idle" <=> r <= m
      PROVE  m = n
  <2>1. ASSUME NEW x \in 0 .. MaxRuns, NEW y \in 0 .. MaxRuns, x < y,
               \A r \in Runs : r <= x <=> r <= y
        PROVE  FALSE
    <3>1. y \in Runs /\ y <= y /\ ~(y <= x)
      BY <2>1, CaptureAssumption DEF Runs
    <3> QED BY <2>1, <3>1
  <2>2. m \in Int /\ n \in Int /\ \A r \in Runs : r <= m <=> r <= n
    BY <1>1, CaptureAssumption
  <2> QED BY <2>1, <2>2
<1> QED BY <1>1 DEF BegunIn

(***************************************************************************)
(* There is such a number.                                                 *)
(***************************************************************************)
LEMMA BegunCounts ==
    ASSUME CaptureInv
    PROVE  Begun \in 0 .. MaxRuns /\ \A r \in Runs : pc[r] # "idle" <=> r <= Begun
<1> DEFINE S == {r \in Runs : pc[r] # "idle"}
<1>1. \E n \in 0 .. MaxRuns : \A r \in Runs : pc[r] # "idle" <=> r <= n
  <2>1. CASE S = {}
    <3>1. 0 \in 0 .. MaxRuns /\ \A r \in Runs : ~(r <= 0)
      BY CaptureAssumption DEF Runs
    <3> QED BY <2>1, <3>1
  <2>2. CASE S # {}
    <3>1. PICK n \in S : \A m \in S : m <= n
      BY <2>2, LastRun
    <3>2. n \in 0 .. MaxRuns /\ \A r \in Runs : r \in Nat
      BY CaptureAssumption DEF Runs
    <3>3. ASSUME NEW r \in Runs, r <= n PROVE pc[r] # "idle"
      <4>1. r < n /\ pc[r] = "idle" => pc[n] = "idle"
        BY DEF CaptureInv, OrderedUse
      <4> QED BY <3>2, <3>3, <4>1
    <3> QED BY <3>1, <3>2, <3>3
  <2> QED BY <2>1, <2>2
<1> QED BY <1>1 DEF Begun

(***************************************************************************)
(* Only Begin makes a run begin.                                           *)
(***************************************************************************)
LEMMA IdleStays ==
    ASSUME CaptureInv, [Next]_vars, NEW s \in Runs, pc[s] = "idle", ~Begin(s)
    PROVE  pc'[s] = "idle"
<1>0. TypeOK /\ ~Live(s)
  BY DEF CaptureInv, Live, Stages
<1>1. ASSUME NEW r \in Runs, RunStep(r), r # s PROVE pc'[s] = "idle"
  <2>1. PICK stage, l : Go(r, stage, l)
    BY <1>1, StepGoes
  <2> QED BY <1>0, <1>1, <2>1 DEF Go, TypeOK
<1>2. ~RunStep(s)
  <2>1. ~(\/ DetectFresh(s) \/ DetectPartial(s) \/ DropOlder(s) \/ DropOlderFacts(s)
          \/ DropNewest(s) \/ DropNewestFacts(s) \/ Resume(s) \/ ProbePage(s)
          \/ Deadline(s) \/ FetchError(s))
    BY DEF DetectFresh, DetectPartial, DropOlder, DropOlderFacts, DropNewest,
           DropNewestFacts, Resume, ProbePage, Deadline, FetchError
  <2>2. ~(\/ CkptHeader(s) \/ CkptFacts(s) \/ CkptHeaderFails(s) \/ CkptFactsFails(s)
          \/ CloseGaps(s) \/ NoGaps(s) \/ GapHeader(s) \/ GapFacts(s) \/ GapFactsFails(s))
    BY DEF CkptHeader, CkptFacts, CkptHeaderFails, CkptFactsFails, CloseGaps, NoGaps,
           GapHeader, GapFacts, GapFactsFails
  <2>3. ~(\/ Promote(s) \/ PublishFresh(s) \/ FreshFacts(s) \/ FreshFactsFails(s)
          \/ FreshHeader(s) \/ Throws(s))
    BY DEF Promote, PublishFresh, FreshFacts, FreshFactsFails, FreshHeader, Throws, Fallible
  <2> QED BY <2>1, <2>2, <2>3 DEF RunStep
<1>3. CASE Crash
  BY <1>0, <1>3 DEF Crash
<1>4. CASE PartialVanishes \/ PublishPackage \/ DayPasses \/ UNCHANGED vars
  BY <1>4 DEF PartialVanishes, PublishPackage, DayPasses, vars
<1> QED BY <1>1, <1>2, <1>3, <1>4 DEF Next

(***************************************************************************)
(* Begin counts one more run.                                              *)
(***************************************************************************)
LEMMA BeginTurns ==
    ASSUME CaptureInv, NEW r \in Runs, Begin(r)
    PROVE  Begun' = Begun + 1 /\ Begun < MaxRuns
<1>1. /\ Begun \in 0 .. MaxRuns /\ \A s \in Runs : pc[s] # "idle" <=> s <= Begun
      /\ MaxRuns \in Nat /\ r \in 1 .. MaxRuns
  BY BegunCounts, CaptureAssumption DEF Runs
<1>2. ~(r <= Begun) /\ \A s \in Runs : s < r => s <= Begun
  BY <1>1 DEF Begin
<1>3. Begun = r - 1
  <2>1. CASE r = 1
    BY <1>1, <1>2, <2>1
  <2>2. CASE r > 1
    <3>1. r - 1 \in Runs /\ r - 1 < r
      BY <1>1, <2>2 DEF Runs
    <3> QED BY <1>1, <1>2, <3>1
  <2> QED BY <1>1, <2>1, <2>2
<1>4. \A s \in Runs : pc'[s] = IF s = r THEN "detect" ELSE pc[s]
  BY DEF Begin, Go, CaptureInv, TypeOK
<1>5. \A s \in Runs : pc'[s] # "idle" <=> s <= r
  BY <1>1, <1>3, <1>4 DEF Runs
<1>6. r \in 0 .. MaxRuns
  BY <1>1
<1>7. BegunIn(pc') = r
  BY <1>5, <1>6, OneBegun
<1>8. Begun' = r
  BY <1>7 DEF Begun, BegunIn
<1> QED BY <1>1, <1>3, <1>8

(***************************************************************************)
(* Every other step leaves the count of begun runs as it was.              *)
(***************************************************************************)
LEMMA OthersTurnNot ==
    ASSUME CaptureInv, [Next]_vars, \A r \in Runs : ~Begin(r)
    PROVE  Begun' = Begun
<1>1. Begun \in 0 .. MaxRuns /\ \A s \in Runs : pc[s] # "idle" <=> s <= Begun
  BY BegunCounts
<1>2. \A s \in Runs : pc'[s] # "idle" <=> s <= Begun
  BY <1>1, IdleStays, BegunStays
<1>3. BegunIn(pc') = Begun
  BY <1>1, <1>2, OneBegun
<1> QED BY <1>3 DEF Begun, BegunIn

(***************************************************************************)
(* The state of the abstract history of package k.                         *)
(***************************************************************************)
RunsStored(k) == {facts[i][k] : i \in Ids} \ {0}
RunsShown(k) == [i \in Completes |-> facts[i][k]]

(***************************************************************************)
(* The initial collections map to an initial history.                      *)
(***************************************************************************)
LEMMA HistoryStart ==
    ASSUME LeftoverInit, NEW k \in Packages
    PROVE  History(k)!HistoryInit
<1>1. CaptureInv /\ NewerFacts
  BY InitInv, InitNewer
<1>2. Begun \in 0 .. MaxRuns /\ \A r \in Runs : pc[r] # "idle" <=> r <= Begun
  BY <1>1, BegunCounts
<1>3. RunsStored(k) \subseteq 1 .. Begun
  <2> SUFFICES ASSUME NEW i \in Ids, facts[i][k] # 0 PROVE facts[i][k] \in 1 .. Begun
    BY DEF RunsStored
  <2>1. facts[i][k] \in Runs
    BY <1>1, CaptureAssumption DEF CaptureInv, TypeOK, Runs
  <2>2. facts[i][k] <= Begun
    BY <1>1, <1>2, <2>1 DEF NewerFacts, FactsOfBegun
  <2> QED BY <1>2, <2>1, <2>2, CaptureAssumption DEF Runs
<1>4. Completes = {}
  BY DEF LeftoverInit, Leftover, Completes, Absent
<1>5. RunsShown(k) = [i \in {} |-> 0]
  BY <1>4 DEF RunsShown
<1> QED
  BY <1>2, <1>3, <1>5
  DEF History!HistoryInit, History!NoFact, History!Before, RunsStored, RunsShown

(***************************************************************************)
(* A publication shows the facts under its id, which are newer than the    *)
(* ones shown before.                                                      *)
(***************************************************************************)
LEMMA PublishShows ==
    ASSUME CaptureInv, NewerFacts, [Next]_vars, NEW k \in Packages,
           NEW r \in Runs, NEW i, Publishes(r, i)
    PROVE  History(k)!HistoryStep
<1>1. /\ i \in Ids /\ i \notin Completes /\ UNCHANGED facts
      /\ Completes' = Completes \cup {i}
  BY PublishSteps
<1>2. Live(r) /\ Pending(i)
  BY <1>1, CaptureAssumption
  DEF Publishes, Promote, FreshHeader, Live, Stages, Pending
<1>3. Begun' = Begun
  <2>1. \A s \in Runs : ~Begin(s)
    BY <1>2, CaptureAssumption DEF Begin, CaptureInv, LockInv
  <2> QED BY <2>1, OthersTurnNot
<1>4. RunsStored(k)' = RunsStored(k)
  BY <1>1 DEF RunsStored
<1>5. RunsShown(k)' = [j \in Completes \cup {i} |-> IF j = i THEN facts[i][k]
                                                  ELSE RunsShown(k)[j]]
  BY <1>1 DEF RunsShown
<1>6. facts[i][k] \in (RunsStored(k) \ {-1}) \cup {0}
  <2>1. facts[i][k] \in 0 .. MaxRuns
    BY <1>1 DEF CaptureInv, TypeOK
  <2> QED BY <1>1, <2>1, CaptureAssumption DEF RunsStored
<1>7. DOMAIN RunsShown(k) = Completes
  BY DEF RunsShown
<1>8. ASSUME facts[i][k] # 0, NEW j \in Completes, RunsShown(k)[j] # 0
      PROVE  RunsShown(k)[j] < facts[i][k]
  BY <1>1, <1>2, <1>8 DEF NewerFacts, PendingIsNewer, RunsShown
<1>9. History(k)!ShowFact(i)
  BY <1>1, <1>3, <1>4, <1>5, <1>6, <1>7, <1>8
  DEF History!ShowFact, History!Published, History!NoFact, History!Before,
      RunsStored, RunsShown
<1> QED BY <1>1, <1>9 DEF History!HistoryStep, History!HistoryNext

(***************************************************************************)
(* A step that drops facts drops none that is shown.                       *)
(***************************************************************************)
LEMMA DropHides ==
    ASSUME CaptureInv, NEW k \in Packages, Drops, Quiet, Begun' = Begun
    PROVE  History(k)!HistoryStep
<1>1. RunsStored(k)' \subseteq RunsStored(k)
  BY DEF Drops, RunsStored
<1>2. RunsShown(k)' = RunsShown(k) /\ DOMAIN RunsShown(k) = Completes
  BY DEF Quiet, RunsShown
<1>3. ASSUME NEW j \in Completes, RunsShown(k)[j] # 0
      PROVE  RunsShown(k)[j] \in RunsStored(k)'
  BY <1>3 DEF Quiet, RunsShown, RunsStored, Completes
<1>4. -1 \notin RunsStored(k)
  <2>1. \A i \in Ids : facts[i][k] \in 0 .. MaxRuns
    BY DEF CaptureInv, TypeOK
  <2> QED BY <2>1, CaptureAssumption DEF RunsStored
<1>5. History(k)!DropFacts
  BY <1>1, <1>2, <1>3, <1>4
  DEF History!DropFacts, History!Published, History!NoFact, History!Before,
      RunsStored, RunsShown
<1> QED BY <1>5 DEF History!HistoryStep, History!HistoryNext

(***************************************************************************)
(* A step that inserts adds the fact of the newest run, or none.           *)
(***************************************************************************)
LEMMA InsertAddsOne ==
    ASSUME CaptureInv, NEW k \in Packages, NEW r \in Runs, Live(r), Adds(r), Quiet,
           Begun' = Begun
    PROVE  History(k)!HistoryStep
<1>1. RunsShown(k)' = RunsShown(k)
  BY DEF Quiet, RunsShown
<1>2. Begun = r /\ r > 0
  <2>1. /\ Begun \in 0 .. MaxRuns /\ r \in 1 .. MaxRuns /\ MaxRuns \in Nat
        /\ \A s \in Runs : pc[s] # "idle" <=> s <= Begun
    BY BegunCounts, CaptureAssumption DEF Runs
  <2>2. r <= Begun
    BY <2>1 DEF Live, Stages
  <2>3. Begun \in Runs => Begun <= r
    BY <2>1, LiveIsNewest
  <2> QED BY <2>1, <2>2, <2>3 DEF Runs
<1>3. RunsStored(k) \subseteq RunsStored(k)'
  <2>1. ASSUME NEW i \in Ids, facts[i][k] # 0 PROVE facts'[i][k] = facts[i][k]
    BY <2>1 DEF Adds
  <2> QED BY <2>1 DEF RunsStored
<1>4. RunsStored(k)' \subseteq RunsStored(k) \cup {r}
  <2>1. ASSUME NEW i \in Ids, facts'[i][k] # 0
        PROVE  facts'[i][k] = r \/ \E j \in Ids : facts'[i][k] = facts[j][k]
    BY DEF Adds
  <2> QED BY <2>1 DEF RunsStored
<1>5. CASE RunsStored(k)' = RunsStored(k)
  BY <1>1, <1>5 DEF History!HistoryStep, History!historyVars, RunsStored, RunsShown
<1>6. CASE RunsStored(k)' # RunsStored(k)
  <2>1. r \notin RunsStored(k) /\ RunsStored(k)' = RunsStored(k) \cup {r}
    BY <1>3, <1>4, <1>6
  <2>2. History(k)!AddFact
    BY <1>1, <1>2, <2>1 DEF History!AddFact, RunsStored, RunsShown
  <2> QED BY <2>2 DEF History!HistoryStep, History!HistoryNext
<1> QED BY <1>5, <1>6

(***************************************************************************)
(* Every step of the pipeline is a step of the history of each package.    *)
(***************************************************************************)
LEMMA FollowsStep ==
    ASSUME CaptureInv, NewerFacts, [Next]_vars, NEW k \in Packages
    PROVE  History(k)!HistoryStep
<1>1. CASE \E r \in Runs : Promote(r) \/ FreshHeader(r)
  <2>1. PICK r, i : r \in Runs /\ Publishes(r, i)
    BY <1>1 DEF Publishes
  <2> QED BY <2>1, PublishShows
<1>2. ASSUME NEW r \in Runs, Begin(r) PROVE History(k)!HistoryStep
  <2>1. Begun' = Begun + 1 /\ Begun < MaxRuns
    BY <1>2, BeginTurns
  <2>2. UNCHANGED <<header, facts>>
    BY <1>2 DEF Begin
  <2>3. RunsStored(k)' = RunsStored(k) /\ RunsShown(k)' = RunsShown(k)
    BY <2>2 DEF RunsStored, RunsShown, Completes
  <2>4. History(k)!BeginRun
    BY <2>1, <2>3 DEF History!BeginRun, RunsStored, RunsShown
  <2> QED BY <2>4 DEF History!HistoryStep, History!HistoryNext
<1>3. CASE \A r \in Runs : ~Promote(r) /\ ~FreshHeader(r) /\ ~Begin(r)
  <2>1. Quiet /\ Begun' = Begun
    BY <1>3, QuietSteps, OthersTurnNot
  <2> QED BY <2>1, FactsMove, DropHides, InsertAddsOne
<1> QED BY <1>1, <1>2, <1>3

(***************************************************************************)
(* Of every package, the pipeline follows the history of facts that the    *)
(* counters rest on: whatever crashes, resumes, re-probes or vanishes,     *)
(* only the newest run adds a fact, what is published stays stored, and no *)
(* snapshot shows an older probe of a package than one before it did.      *)
(***************************************************************************)
THEOREM HistoryFollowed == Spec \/ LeftoverSpec => FactsFollowHistory
<1>1. LeftoverInit => \A k \in Packages : History(k)!HistoryInit
  BY HistoryStart
<1>2. CaptureInv /\ NewerFacts /\ [Next]_vars =>
        \A k \in Packages : History(k)!HistoryStep
  BY FollowsStep
<1> QED
  BY <1>1, <1>2, CaptureInvariant, NewerInvariant, CleanStart, PTL
  DEF Spec, LeftoverSpec, FactsFollowHistory

(***************************************************************************)
(* The same as an implementation: the pipeline, with the facts of any one  *)
(* package for its state, implements FactHistory, the specification that   *)
(* EventCount counts within.                                               *)
(***************************************************************************)
THEOREM ImplementsHistory ==
    ASSUME NEW k \in Packages
    PROVE  Spec \/ LeftoverSpec => History(k)!HistorySpec
<1>1. LeftoverInit => History(k)!HistoryInit
  BY HistoryStart
<1>2. CaptureInv /\ NewerFacts /\ [Next]_vars =>
        [History(k)!HistoryNext]_(History(k)!historyVars)
  BY FollowsStep DEF History!HistoryStep
<1> QED
  BY <1>1, <1>2, CaptureInvariant, NewerInvariant, CleanStart, PTL
  DEF Spec, LeftoverSpec, History!HistorySpec

(***************************************************************************)
(* Runs as captures that take turns.  Nothing is needed for this but that  *)
(* a step of one run leaves the others where they are.                     *)
(***************************************************************************)
Separate == pc = [r \in Runs |-> pc[r]]

TimeoutNext == Next \/ \E r \in Runs : HardTimeout(r)

LEMMA SeparateStays ==
    ASSUME Separate, [TimeoutNext]_vars
    PROVE  Separate'
<1>1. ASSUME NEW r \in Runs, RunStep(r) PROVE Separate'
  <2>1. PICK stage, l : Go(r, stage, l)
    BY <1>1, StepGoes
  <2> QED BY <2>1 DEF Go, Separate
<1>2. CASE Crash
  BY <1>2 DEF Crash, Separate
<1>3. CASE \/ PartialVanishes \/ PublishPackage \/ DayPasses \/ UNCHANGED vars
           \/ \E r \in Runs : HardTimeout(r)
  BY <1>3 DEF PartialVanishes, PublishPackage, DayPasses, HardTimeout, vars, Separate
<1> QED BY <1>1, <1>2, <1>3 DEF TimeoutNext, Next

(***************************************************************************)
(* A run that has begun is live as long as it does anything, and lets go   *)
(* of no lock but its own.                                                 *)
(***************************************************************************)
LEMMA LiveMoves ==
    ASSUME NEW r \in Runs, RunStep(r), ~Begin(r)
    PROVE  Live(r) /\ lock' \in {lock, None}
<1>1. CASE \/ DetectFresh(r) \/ DetectPartial(r) \/ DropOlder(r) \/ DropOlderFacts(r)
           \/ DropNewest(r) \/ DropNewestFacts(r) \/ Resume(r) \/ ProbePage(r)
  BY <1>1 DEF DetectFresh, DetectPartial, DropOlder, DropOlderFacts, DropNewest,
              DropNewestFacts, Resume, ProbePage, Live, Stages
<1>2. CASE \/ Deadline(r) \/ FetchError(r) \/ CkptHeader(r) \/ CkptFacts(r)
           \/ CkptHeaderFails(r) \/ CkptFactsFails(r)
  BY <1>2 DEF Deadline, FetchError, CkptHeader, CkptFacts, CkptHeaderFails,
              CkptFactsFails, Live, Stages
<1>3. CASE CloseGaps(r) \/ NoGaps(r) \/ GapHeader(r) \/ GapFacts(r) \/ GapFactsFails(r)
  BY <1>3 DEF CloseGaps, NoGaps, GapHeader, GapFacts, GapFactsFails, End, Live, Stages
<1>4. CASE \/ Promote(r) \/ PublishFresh(r) \/ FreshFacts(r) \/ FreshFactsFails(r)
           \/ FreshHeader(r) \/ Throws(r)
  BY <1>4 DEF Promote, PublishFresh, FreshFacts, FreshFactsFails, FreshHeader, Throws,
              Fallible, Complete, End, Live, Stages
<1> QED BY <1>1, <1>2, <1>3, <1>4 DEF RunStep

(***************************************************************************)
(* Every step, a hard timeout too, is a step of captures that take turns.  *)
(***************************************************************************)
LEMMA TurnStep ==
    ASSUME Separate, [TimeoutNext]_vars
    PROVE  Turns!TurnsNext
<1> DEFINE Claimed == {r \in Runs : lock = r}
           AtWork == {r \in Runs : Live(r)}
<1>1. ASSUME NEW r \in Runs, Begin(r) PROVE Turns!TurnsNext
  <2>1. Claimed = {} /\ Claimed' = {r}
    BY <1>1, CaptureAssumption DEF Begin
  <2>2. r \notin AtWork /\ AtWork' = AtWork \cup {r}
    BY <1>1 DEF Begin, Go, Live, Stages, Separate
  <2>3. Turns!Start(r)
    BY <2>1, <2>2 DEF Turns!Start
  <2> QED BY <2>3 DEF Turns!TurnsNext
<1>2. ASSUME NEW r \in Runs, RunStep(r), ~Begin(r) PROVE Turns!TurnsNext
  <2>1. Live(r) /\ Claimed' \subseteq Claimed
    BY <1>2, LiveMoves, CaptureAssumption
  <2>2. PICK stage, l : Go(r, stage, l)
    BY <1>2, StepGoes
  <2>3. AtWork' \subseteq AtWork
    BY <2>1, <2>2 DEF Go, Live, Separate
  <2> QED BY <2>1, <2>3 DEF Turns!TurnsNext, Turns!LetGo
<1>3. CASE Crash
  <2>1. Claimed' = {} /\ AtWork' = {}
    BY <1>3, CaptureAssumption DEF Crash, Live, Stages
  <2> QED BY <2>1 DEF Turns!TurnsNext, Turns!LetGo
<1>4. CASE \E r \in Runs : HardTimeout(r)
  <2>1. Claimed' = {} /\ AtWork' = AtWork
    BY <1>4, CaptureAssumption DEF HardTimeout, Live
  <2> QED BY <2>1 DEF Turns!TurnsNext, Turns!LetGo
<1>5. CASE PartialVanishes \/ PublishPackage \/ DayPasses \/ UNCHANGED vars
  <2>1. Claimed' = Claimed /\ AtWork' = AtWork
    BY <1>5 DEF PartialVanishes, PublishPackage, DayPasses, vars, Live
  <2> QED BY <2>1 DEF Turns!TurnsNext, Turns!LetGo
<1> QED BY <1>1, <1>2, <1>3, <1>4, <1>5 DEF TimeoutNext, Next

(***************************************************************************)
(* The runs take turns in the way in which CaptureLock makes the captures  *)
(* do (LockMakesTurns there), whether or not the hard timeout fires; and   *)
(* without it no orphan is ever at work, which is the assumption of Spec.  *)
(***************************************************************************)
LEMMA NobodyAtWork ==
    ASSUME Init \/ LeftoverInit
    PROVE  Separate /\ Turns!TurnsInit
<1>1. LeftoverInit
  BY CleanStart
<1>2. TypeOK /\ lock = None /\ \A r \in Runs : ~Live(r)
  BY <1>1 DEF LeftoverInit, Live, Stages
<1> QED BY <1>2, CaptureAssumption DEF TypeOK, Separate, Turns!TurnsInit

THEOREM RunsTakeTurns == TimeoutSpec \/ Spec \/ LeftoverSpec => TakesTurns
<1>1. Init \/ LeftoverInit => Separate /\ Turns!TurnsInit
  BY NobodyAtWork
<1>2. Separate /\ [TimeoutNext]_vars => Separate'
  BY SeparateStays
<1>3. Separate /\ [TimeoutNext]_vars
        => [Turns!TurnsNext]_<<{r \in Runs : lock = r}, {r \in Runs : Live(r)}>>
  BY TurnStep
<1>4. [Next]_vars => [TimeoutNext]_vars
  BY DEF TimeoutNext
<1>5. [Next \/ \E r \in Runs : HardTimeout(r)]_vars => [TimeoutNext]_vars
  BY DEF TimeoutNext
<1> QED
  BY <1>1, <1>2, <1>3, <1>4, <1>5, PTL
  DEF TimeoutSpec, Spec, LeftoverSpec, TakesTurns, Turns!TurnsSpec

(***************************************************************************)
(* Without a hard timeout every body at work has the lock.                 *)
(***************************************************************************)
THEOREM NoOrphanAtWork == Spec \/ LeftoverSpec => []Turns!NoOrphans
<1>1. CaptureInv => Turns!NoOrphans
  BY DEF CaptureInv, LockInv, Turns!NoOrphans
<1> QED BY <1>1, CaptureInvariant, PTL

================================================================================
