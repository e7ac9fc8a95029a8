---------------------------- MODULE ReadPathProofs ----------------------------
(***************************************************************************)
(* Proofs about ReadPath: for any processes, registries, sizes of the      *)
(* cache and rows, an answer holds views of the answering process's own    *)
(* registry only, no value of DefiLlama is on two of its rows, and a       *)
(* self-heal leaves a view of its own.  About ActivityWindow, the other    *)
(* endpoint that reads outside the snapshot: for any chains and bounds, a  *)
(* day of the activity chart has what the indexer holds of it, of each     *)
(* chain that answered, and its curve is sound after the retention edge.   *)
(***************************************************************************)
EXTENDS ReadPath, ActivityWindow, SequenceTheorems, FiniteSetTheorems, WellFoundedInduction, TLAPS

-----------------------------------------------------------------------------
(* enrichWithTvl. *)

\* What an answer may carry.
Tvls == {NoTvl} \cup {Enriched(list) : list \in SUBSET Protos}

\* q comes before r among the rows of one protocol.
Before(q, r) ==
    \/ RowEvents[r] < RowEvents[q]
    \/ RowEvents[r] = RowEvents[q] /\ q < r

(***************************************************************************)
(* Among the rows that match a protocol one is primary: the one with the   *)
(* fewest rows before it has none, since those before another one of them  *)
(* are fewer still.                                                        *)
(***************************************************************************)
LEMMA PrimaryExists ==
    ASSUME NEW list, NEW r \in Rows
    PROVE  \E s \in Rows : /\ MatchOf(list, s) = MatchOf(list, r)
                           /\ IsPrimary(list, s)
                           /\ RowEvents[s] >= RowEvents[r]
<1> DEFINE S == {s \in Rows : MatchOf(list, s) = MatchOf(list, r)}
           D(s) == {q \in S : Before(q, s)}
           T == {D(s) : s \in S}
<1> HIDE DEF S
<1>0. S \subseteq Rows /\ r \in S /\ S \subseteq Nat /\ IsFiniteSet(S)
  <2>1. S \subseteq Rows /\ r \in S
    BY DEF S
  <2> QED
    BY <2>1, ReadPathAssumption, FS_Subset
<1>1. T \subseteq FiniteSubsetsOf(S)
  <2> SUFFICES ASSUME NEW s \in S PROVE D(s) \in FiniteSubsetsOf(S)
    OBVIOUS
  <2> QED
    BY <1>0, FS_Subset DEF FiniteSubsetsOf
<1>2. T # {}
  BY <1>0
<1>3. PICK t \in T : \A u \in T : <<u, t>> \notin StrictSubsetOrdering(S)
  <2> HIDE DEF T
  <2> QED
    BY <1>1, <1>2, FS_StrictSubsetOrderingWellFounded, WFMin
<1>4. PICK s \in S : t = D(s)
  OBVIOUS
<1>5. \A a \in S : RowEvents[a] \in Nat /\ a \in Nat
  BY <1>0, ReadPathAssumption
<1>6. ASSUME NEW q \in S, Before(q, s) PROVE FALSE
  <2>1. D(q) \subseteq D(s)
    BY <1>5, <1>6 DEF Before
  <2>2. q \in D(s) /\ q \notin D(q)
    BY <1>5, <1>6 DEF Before
  <2>3. <<D(q), D(s)>> \in StrictSubsetOrdering(S)
    BY <2>1, <2>2 DEF StrictSubsetOrdering
  <2> QED
    BY <2>3, <1>3, <1>4
<1>7. IsPrimary(list, s)
  <2> SUFFICES ASSUME NEW q \in Rows \ {s}, MatchOf(list, q) = MatchOf(list, s)
               PROVE  RowEvents[q] < RowEvents[s] \/ (RowEvents[q] = RowEvents[s] /\ s < q)
    BY DEF IsPrimary
  <2>1. q \in S
    BY DEF S
  <2> QED
    BY <2>1, <1>5, <1>6 DEF Before
<1>8. RowEvents[s] >= RowEvents[r]
  BY <1>0, <1>5, <1>6 DEF Before
<1> QED
  BY <1>7, <1>8, <1>0 DEF S

(***************************************************************************)
(* A protocol has one primary row.                                         *)
(***************************************************************************)
LEMMA PrimaryUnique ==
    ASSUME NEW list, NEW r \in Rows, NEW s \in Rows,
           MatchOf(list, r) = MatchOf(list, s), IsPrimary(list, r), IsPrimary(list, s)
    PROVE  r = s
<1> SUFFICES ASSUME r # s PROVE FALSE
  OBVIOUS
<1>1. RowEvents[r] \in Nat /\ RowEvents[s] \in Nat /\ r \in Nat /\ s \in Nat
  BY ReadPathAssumption
<1>2. RowEvents[s] < RowEvents[r] \/ (RowEvents[s] = RowEvents[r] /\ r < s)
  BY DEF IsPrimary
<1>3. RowEvents[r] < RowEvents[s] \/ (RowEvents[r] = RowEvents[s] /\ s < r)
  BY DEF IsPrimary
<1> QED
  BY <1>1, <1>2, <1>3

\* No value is on two rows, and a shared one is carried by a row at least as active.
TvlOnce(tvl) ==
    /\ \A r, s \in Rows : tvl.own[r] = tvl.own[s] /\ tvl.own[r] # Nothing => r = s
    /\ \A r \in Rows : tvl.own[r] \notin tvl.l2
    /\ \A r \in Rows :
        tvl.shared[r] # Nothing =>
            \E s \in Rows : tvl.own[s] = tvl.shared[r] /\ RowEvents[s] >= RowEvents[r]

(***************************************************************************)
(* Whatever DefiLlama lists, enrichWithTvl gives a value to one row.       *)
(***************************************************************************)
LEMMA EnrichedOnce == \A tvl \in Tvls : TvlOnce(tvl)
<1>1. TvlOnce(NoTvl)
  BY DEF TvlOnce, NoTvl
<1>2. ASSUME NEW list \in SUBSET Protos PROVE TvlOnce(Enriched(list))
  <2> DEFINE tvl == Enriched(list)
  <2>1. \A r \in Rows : /\ tvl.own[r] = IF IsPrimary(list, r) THEN MatchOf(list, r) ELSE Nothing
                        /\ tvl.shared[r] = IF IsPrimary(list, r) THEN Nothing ELSE MatchOf(list, r)
    BY DEF Enriched
  <2>2. tvl.l2 \subseteq list \ Claimed(list)
    BY DEF Enriched
  <2> HIDE DEF tvl
  <2>3. ASSUME NEW r \in Rows, NEW s \in Rows, tvl.own[r] = tvl.own[s], tvl.own[r] # Nothing
        PROVE  r = s
    BY <2>1, <2>3, PrimaryUnique
  <2>4. ASSUME NEW r \in Rows PROVE tvl.own[r] \notin tvl.l2
    <3>1. CASE tvl.own[r] = Nothing
      BY <3>1, <2>2, ReadPathAssumption DEF Nothing
    <3>2. CASE tvl.own[r] # Nothing
      <4>1. tvl.own[r] \in Claimed(list)
        BY <3>2, <2>1 DEF Claimed
      <4> QED
        BY <4>1, <2>2
    <3> QED
      BY <3>1, <3>2
  <2>5. ASSUME NEW r \in Rows, tvl.shared[r] # Nothing
        PROVE  \E s \in Rows : tvl.own[s] = tvl.shared[r] /\ RowEvents[s] >= RowEvents[r]
    <3>1. PICK s \in Rows : /\ MatchOf(list, s) = MatchOf(list, r)
                            /\ IsPrimary(list, s)
                            /\ RowEvents[s] >= RowEvents[r]
      BY PrimaryExists
    <3> QED
      BY <3>1, <2>5, <2>1
  <2> QED
    BY <2>3, <2>4, <2>5 DEF TvlOnce, tvl
<1> QED
  BY <1>1, <1>2 DEF Tvls

-----------------------------------------------------------------------------
(***************************************************************************)
(* The inductive invariant: everything in a process's cache, in hand or on *)
(* the way to an answer is a view of its own registry and of a snapshot    *)
(* that exists, with no fewer senders than the snapshot was published      *)
(* with; only what is persisted may be another's.                          *)
(***************************************************************************)
Sure == {v \in Views : v.snap \in 1 .. snaps /\ captured[v.snap] <= v.senders}

Own(p) == {v \in Sure : v.registry = registry[p]}

Gets(p) == [view : Own(p), tvl : Tvls]

Base ==
    /\ snaps \in 0 .. MaxSnaps /\ stored \in 0 .. MaxSenders
    /\ captured \in Seq(0 .. stored) /\ Len(captured) = snaps
    /\ boots \in [Procs -> 0 .. MaxBoots] /\ asks \in 0 .. MaxAsks
    /\ registry \in [Procs -> Registries]
    /\ llama \in [Procs -> [cached : BOOLEAN, list : SUBSET Protos]]
    /\ pc \in [Tasks -> PCs]

\* The variables whose values depend on the process are functions.
Fn(f, S) == f = [x \in S |-> f[x]]

Maps == Fn(cache, Procs) /\ Fn(todo, Tasks) /\ Fn(view, Tasks) /\ Fn(got, Tasks)

PersistedInv ==
    /\ persisted \subseteq Sure
    /\ \A v, w \in persisted : v.snap = w.snap => v = w

CacheInv(p) ==
    /\ cache[p] \in Seq(Own(p))
    /\ Len(cache[p]) <= CacheMax
    /\ \A i, j \in 1 .. Len(cache[p]) : cache[p][i].snap = cache[p][j].snap => i = j

TaskInv(t) ==
    /\ todo[t] \in Seq(1 .. snaps)
    /\ got[t] \in Seq(Gets(t[1]))
    /\ Len(todo[t]) + Len(got[t]) <= 2
    /\ view[t] \in Own(t[1]) \cup {NoView}
    /\ pc[t] \in {"check", "classify", "persist", "lookup", "load", "put"} => todo[t] # <<>>
    /\ pc[t] \in {"persist", "put"} => view[t] \in Own(t[1]) /\ view[t].snap = todo[t][1]
    /\ pc[t] \in {"enrich", "answer"} => got[t] # <<>>
    /\ pc[t] \in {"down", "idle", "find", "failed"} => got[t] = <<>>
    /\ t[2] \notin Requests =>
        got[t] = <<>> /\ pc[t] \notin {"lookup", "load", "put", "enrich", "answer"}

ReadInv ==
    /\ Base /\ Maps /\ PersistedInv
    /\ \A p \in Procs : CacheInv(p)
    /\ \A t \in Tasks : TaskInv(t)

\* A task is one of a process.
LEMMA TaskProc == \A t \in Tasks : t[1] \in Procs /\ t[2] \in Slots /\ t = <<t[1], t[2]>>
BY ReadPathAssumption DEF Tasks

\* Of two numbers whose sum is at most two, neither is more.
LEMMA SumBound == \A a, b \in Nat : a + b <= 2 => a <= 2 /\ b <= 2
OBVIOUS

\* The invariant holds at the start.
LEMMA InitInv == Init => ReadInv
<1> SUFFICES ASSUME Init PROVE ReadInv
  OBVIOUS
<1>1. Base
  <2>1. (CHOOSE r \in Registries : TRUE) \in Registries
    BY ReadPathAssumption
  <2> QED
    BY <2>1, ReadPathAssumption DEF Init, Base, NoList, PCs
<1>2. Maps
  BY DEF Init, Maps, Fn
<1>3. PersistedInv
  BY DEF Init, PersistedInv
<1>4. \A p \in Procs : CacheInv(p)
  BY ReadPathAssumption DEF Init, CacheInv
<1>5. \A t \in Tasks : TaskInv(t)
  BY DEF Init, TaskInv
<1> QED
  BY <1>1, <1>2, <1>3, <1>4, <1>5 DEF ReadInv

(***************************************************************************)
(* What a step leaves alone stays as it should be, as long as no process   *)
(* loses a view of its own.                                                *)
(***************************************************************************)
LEMMA TaskKept ==
    ASSUME NEW t, TaskInv(t), snaps \in Nat, snaps' \in Nat, snaps <= snaps',
           Own(t[1]) \subseteq Own(t[1])',
           pc'[t] = pc[t], todo'[t] = todo[t], view'[t] = view[t], got'[t] = got[t]
    PROVE  TaskInv(t)'
<1>1. todo[t] \in Seq(1 .. snaps')
  <2>1. 1 .. snaps \subseteq 1 .. snaps'
    OBVIOUS
  <2> QED
    BY <2>1, SeqMonotonic DEF TaskInv
<1>2. got[t] \in Seq(Gets(t[1])')
  <2>1. Gets(t[1]) \subseteq Gets(t[1])'
    BY DEF Gets
  <2> QED
    BY <2>1, SeqMonotonic DEF TaskInv
<1> QED
  BY <1>1, <1>2 DEF TaskInv

\* A cache that is not written keeps its invariant, as long as its views stay good.
LEMMA CacheKept ==
    ASSUME NEW p, CacheInv(p), Own(p) \subseteq Own(p)', cache'[p] = cache[p]
    PROVE  CacheInv(p)'
<1>1. cache[p] \in Seq(Own(p)')
  BY SeqMonotonic DEF CacheInv
<1> QED
  BY <1>1 DEF CacheInv

\* Nothing that a view is judged by changes.
Same == UNCHANGED <<snaps, captured, stored, registry>>

\* Then the same views are good.
LEMMA SameOwn == Same => Sure' = Sure /\ \A p : Own(p)' = Own(p) /\ Gets(p)' = Gets(p)
BY DEF Same, Sure, Own, Gets, Views

(***************************************************************************)
(* A step of one task of a process: what is left to show is about the task *)
(* and what it shares.                                                     *)
(***************************************************************************)
LEMMA TaskStep ==
    ASSUME ReadInv, Same, NEW t \in Tasks,
           boots' = boots, asks' \in 0 .. MaxAsks,
           llama' \in [Procs -> [cached : BOOLEAN, list : SUBSET Protos]],
           pc' \in [Tasks -> PCs],
           \A u \in Tasks \ {t} : /\ pc'[u] = pc[u] /\ todo'[u] = todo[u]
                                  /\ view'[u] = view[u] /\ got'[u] = got[u],
           Maps', PersistedInv', \A p \in Procs : CacheInv(p)',
           TaskInv(t)'
    PROVE  ReadInv'
<1>1. Base'
  BY DEF ReadInv, Base, Same
<1>2. ASSUME NEW u \in Tasks \ {t} PROVE TaskInv(u)'
  <2>1. snaps \in Nat /\ snaps' = snaps
    BY ReadPathAssumption DEF ReadInv, Base, Same
  <2>2. Own(u[1])' = Own(u[1])
    BY SameOwn
  <2> QED
    BY <2>1, <2>2, TaskKept DEF ReadInv
<1> QED
  BY <1>1, <1>2 DEF ReadInv

\* What is not written of the shared state keeps its invariant.
LEMMA SharedKept ==
    ASSUME ReadInv, Same
    PROVE  /\ persisted' = persisted => PersistedInv'
           /\ cache' = cache => \A p \in Procs : CacheInv(p)'
<1>1. ASSUME persisted' = persisted PROVE PersistedInv'
  BY <1>1, SameOwn DEF ReadInv, PersistedInv
<1>2. ASSUME cache' = cache, NEW p \in Procs PROVE CacheInv(p)'
  BY <1>2, SameOwn, CacheKept DEF ReadInv
<1> QED
  BY <1>1, <1>2

-----------------------------------------------------------------------------
(* One lemma per action. *)

\* A sender is stored.
LEMMA StoreSenderInv ==
    ASSUME ReadInv, StoreSender
    PROVE  ReadInv'
<1>1. /\ stored \in Nat /\ stored' = stored + 1 /\ stored' \in 0 .. MaxSenders
      /\ UNCHANGED <<snaps, captured, boots, asks, registry, persisted, cache, llama, pc, todo, view, got>>
  BY ReadPathAssumption DEF ReadInv, Base, StoreSender
<1>2. Sure' = Sure /\ \A p : Own(p)' = Own(p)
  BY <1>1 DEF Sure, Own, Views
<1>3. Base'
  <2>1. 0 .. stored \subseteq 0 .. stored'
    BY <1>1
  <2>2. captured \in Seq(0 .. stored')
    BY <2>1, SeqMonotonic DEF ReadInv, Base
  <2> QED
    BY <1>1, <2>2 DEF ReadInv, Base
<1>4. Maps' /\ PersistedInv'
  BY <1>1, <1>2 DEF ReadInv, Maps, Fn, PersistedInv
<1>5. \A p \in Procs : CacheInv(p)'
  BY <1>1, <1>2, CacheKept DEF ReadInv
<1>6. \A t \in Tasks : TaskInv(t)'
  <2>1. snaps \in Nat
    BY ReadPathAssumption DEF ReadInv, Base
  <2> QED
    BY <2>1, <1>1, <1>2, TaskKept DEF ReadInv
<1> QED
  BY <1>3, <1>4, <1>5, <1>6 DEF ReadInv

\* A process starts, of the registry of its deployment.
LEMMA BootInv ==
    ASSUME ReadInv, NEW p \in Procs, NEW r \in Registries, Boot(p, r)
    PROVE  ReadInv'
<1>1. /\ UNCHANGED <<snaps, captured, stored, asks, persisted>>
      /\ registry' = [registry EXCEPT ![p] = r]
      /\ snaps \in Nat
  BY ReadPathAssumption DEF ReadInv, Base, Boot
<1>2. Sure' = Sure
  BY <1>1 DEF Sure, Views
<1>3. \A q \in Procs \ {p} : Own(q)' = Own(q)
  BY <1>1, <1>2 DEF Own, ReadInv, Base
<1>4. Base'
  <2>1. boots' \in [Procs -> 0 .. MaxBoots]
    BY ReadPathAssumption DEF ReadInv, Base, Boot
  <2>2. llama' \in [Procs -> [cached : BOOLEAN, list : SUBSET Protos]]
    BY DEF ReadInv, Base, Boot, NoList
  <2>3. pc' \in [Tasks -> PCs]
    BY DEF ReadInv, Base, Boot, PCs
  <2>4. registry' \in [Procs -> Registries]
    BY <1>1 DEF ReadInv, Base
  <2> QED
    BY <1>1, <2>1, <2>2, <2>3, <2>4 DEF ReadInv, Base
<1>5. Maps'
  BY DEF ReadInv, Maps, Fn, Boot
<1>6. PersistedInv'
  BY <1>1, <1>2 DEF ReadInv, PersistedInv
<1>7. ASSUME NEW q \in Procs PROVE CacheInv(q)'
  <2>1. CASE q = p
    <3>1. cache'[p] = <<>>
      BY DEF Boot, ReadInv, Maps, Fn
    <3> QED
      BY <2>1, <3>1, ReadPathAssumption DEF CacheInv
  <2>2. CASE q # p
    <3>1. cache'[q] = cache[q]
      BY <2>2 DEF Boot, ReadInv, Maps, Fn
    <3> QED
      BY <2>2, <3>1, <1>3, CacheKept DEF ReadInv
  <2> QED
    BY <2>1, <2>2
<1>8. ASSUME NEW t \in Tasks PROVE TaskInv(t)'
  <2>1. CASE t[1] = p
    <3>1. pc'[t] \in {"find", "idle"} /\ todo'[t] = <<>> /\ view'[t] = NoView /\ got'[t] = <<>>
      BY <2>1 DEF Boot
    <3> QED
      BY <3>1 DEF TaskInv
  <2>2. CASE t[1] # p
    <3>1. pc'[t] = pc[t] /\ todo'[t] = todo[t] /\ view'[t] = view[t] /\ got'[t] = got[t]
      BY <2>2 DEF Boot
    <3> QED
      BY <2>2, <3>1, <1>1, <1>3, TaskKept, TaskProc DEF ReadInv
  <2> QED
    BY <2>1, <2>2
<1> QED
  BY <1>4, <1>5, <1>6, <1>7, <1>8 DEF ReadInv

\* A capture publishes its snapshot.
LEMMA PublishInv ==
    ASSUME ReadInv, NEW p \in Procs, Publish(p)
    PROVE  ReadInv'
<1> DEFINE t == <<p, "capture">>
<1>1. /\ t \in Tasks /\ pc[t] = "idle" /\ pc' = [pc EXCEPT ![t] = "classify"]
      /\ snaps < MaxSnaps /\ snaps' = snaps + 1 /\ snaps \in Nat
      /\ captured' = Append(captured, stored)
      /\ todo' = [todo EXCEPT ![t] = <<snaps + 1>>]
      /\ UNCHANGED <<stored, boots, asks, registry, persisted, cache, llama, view, got>>
  BY ReadPathAssumption DEF Publish, At, ReadInv, Base
<1> HIDE DEF t
<1>2. /\ captured \in Seq(0 .. stored) /\ Len(captured) = snaps /\ stored \in Nat
  BY ReadPathAssumption DEF ReadInv, Base
<1>3. /\ captured' \in Seq(0 .. stored) /\ Len(captured') = snaps + 1
      /\ \A i \in 1 .. snaps : captured'[i] = captured[i]
  BY <1>1, <1>2, AppendProperties
<1>4. Sure \subseteq Sure' /\ \A q : Own(q) \subseteq Own(q)'
  BY <1>1, <1>3 DEF Sure, Own, Views
<1>5. Base'
  <2>1. snaps' \in 0 .. MaxSnaps
    BY <1>1, ReadPathAssumption
  <2>2. pc' \in [Tasks -> PCs]
    BY <1>1 DEF ReadInv, Base, PCs
  <2> QED
    BY <2>1, <2>2, <1>1, <1>3 DEF ReadInv, Base
<1>6. Maps'
  BY <1>1 DEF ReadInv, Maps, Fn
<1>7. PersistedInv'
  BY <1>1, <1>4 DEF ReadInv, PersistedInv
<1>8. \A q \in Procs : CacheInv(q)'
  BY <1>1, <1>4, CacheKept DEF ReadInv
<1>9. ASSUME NEW u \in Tasks PROVE TaskInv(u)'
  <2>1. CASE u = t
    <3>1. TaskInv(t) /\ todo'[t] = <<snaps + 1>> /\ pc'[t] = "classify" /\ view'[t] = view[t] /\ got'[t] = got[t]
      BY <1>1 DEF ReadInv, Maps, Fn, Base
    <3>2. todo'[t] \in Seq(1 .. snaps') /\ todo'[t] # <<>> /\ Len(todo'[t]) = 1
      BY <3>1, <1>1
    <3>3. got[t] \in Seq(Gets(t[1])')
      <4>1. Gets(t[1]) \subseteq Gets(t[1])'
        BY <1>4 DEF Gets
      <4> QED
        BY <3>1, <4>1, SeqMonotonic DEF TaskInv
    <3>4. view[t] \in Own(t[1])' \cup {NoView}
      BY <3>1, <1>4 DEF TaskInv
    <3>5. t[2] = "capture" /\ got[t] = <<>>
      BY <3>1, <1>1 DEF TaskInv, t
    <3> QED
      BY <2>1, <3>1, <3>2, <3>3, <3>4, <3>5 DEF TaskInv, Requests
  <2>2. CASE u # t
    <3>1. pc'[u] = pc[u] /\ todo'[u] = todo[u] /\ view'[u] = view[u] /\ got'[u] = got[u]
      BY <2>2, <1>1 DEF ReadInv, Maps, Fn, Base
    <3>2. snaps' \in Nat /\ snaps <= snaps'
      BY <1>1
    <3> QED
      BY <3>1, <3>2, <1>1, <1>4, TaskKept DEF ReadInv
  <2> QED
    BY <2>1, <2>2
<1> QED
  BY <1>5, <1>6, <1>7, <1>8, <1>9 DEF ReadInv

\* Its classifying or persisting fails.
LEMMA CaptureSkipsInv ==
    ASSUME ReadInv, NEW p \in Procs, CaptureSkips(p)
    PROVE  ReadInv'
<1> DEFINE t == <<p, "capture">>
<1>1. /\ t \in Tasks /\ t[2] = "capture"
      /\ pc' = [pc EXCEPT ![t] = "invalidate"]
      /\ view' = [view EXCEPT ![t] = NoView]
      /\ pc' \in [Tasks -> PCs]
      /\ UNCHANGED <<snaps, captured, stored, boots, asks, registry, persisted, cache, llama, todo, got>>
  BY ReadPathAssumption DEF CaptureSkips, ReadInv, Base, PCs
<1> HIDE DEF t
<1>2. Same /\ TaskInv(t)
  BY <1>1 DEF Same, ReadInv
<1>3. \A u \in Tasks \ {t} : /\ pc'[u] = pc[u] /\ todo'[u] = todo[u]
                              /\ view'[u] = view[u] /\ got'[u] = got[u]
  BY <1>1 DEF ReadInv, Base, Maps, Fn
<1>4. Maps'
  BY <1>1 DEF ReadInv, Maps, Fn
<1>5. PersistedInv'
  BY <1>1, <1>2, SharedKept
<1>6. \A q \in Procs : CacheInv(q)'
  BY <1>1, <1>2, SharedKept
<1>7. TaskInv(t)'
  <2>0. Own(t[1])' = Own(t[1]) /\ Gets(t[1])' = Gets(t[1]) /\ snaps' = snaps
    BY <1>1, <1>2, SameOwn
  <2>1. pc'[t] = "invalidate" /\ view'[t] = NoView /\ todo'[t] = todo[t] /\ got'[t] = got[t]
    BY <1>1 DEF ReadInv, Base, Maps, Fn
  <2> QED
    BY <2>0, <2>1, <1>1, <1>2 DEF TaskInv
<1> QED
  BY <1>1, <1>2, <1>3, <1>4, <1>5, <1>6, <1>7, TaskStep DEF ReadInv, Base

\* It invalidates the cache.
LEMMA InvalidateInv ==
    ASSUME ReadInv, NEW p \in Procs, Invalidate(p)
    PROVE  ReadInv'
<1> DEFINE t == <<p, "capture">>
<1>1. /\ t \in Tasks /\ t[2] = "capture" /\ t[1] = p
      /\ pc' = [pc EXCEPT ![t] = "idle"]
      /\ cache' = [cache EXCEPT ![p] = <<>>]
      /\ todo' = [todo EXCEPT ![t] = <<>>]
      /\ pc' \in [Tasks -> PCs]
      /\ UNCHANGED <<snaps, captured, stored, boots, asks, registry, persisted, llama, view, got>>
  BY ReadPathAssumption DEF Invalidate, At, ReadInv, Base, PCs
<1> HIDE DEF t
<1>2. Same /\ TaskInv(t)
  BY <1>1 DEF Same, ReadInv
<1>3. \A u \in Tasks \ {t} : /\ pc'[u] = pc[u] /\ todo'[u] = todo[u]
                              /\ view'[u] = view[u] /\ got'[u] = got[u]
  BY <1>1 DEF ReadInv, Base, Maps, Fn
<1>4. Maps'
  BY <1>1 DEF ReadInv, Maps, Fn
<1>5. PersistedInv'
  BY <1>1, <1>2, SharedKept
<1>6. \A q \in Procs : CacheInv(q)'
  <2> TAKE q \in Procs
  <2>1. CASE q = p
    <3>1. cache'[q] = <<>>
      BY <2>1, <1>1 DEF ReadInv, Maps, Fn
    <3> QED
      BY <3>1, ReadPathAssumption DEF CacheInv
  <2>2. CASE q # p
    <3>1. cache'[q] = cache[q]
      BY <2>2, <1>1 DEF ReadInv, Maps, Fn
    <3> QED
      BY <3>1, <1>2, SameOwn, CacheKept DEF ReadInv
  <2> QED
    BY <2>1, <2>2
<1>7. TaskInv(t)'
  <2>0. Own(t[1])' = Own(t[1]) /\ Gets(t[1])' = Gets(t[1]) /\ snaps' = snaps
    BY <1>1, <1>2, SameOwn
  <2>1. pc'[t] = "idle" /\ view'[t] = view[t] /\ todo'[t] = <<>> /\ got'[t] = got[t]
    BY <1>1 DEF ReadInv, Base, Maps, Fn
  <2>2. got[t] = <<>>
    BY <1>1, <1>2 DEF TaskInv, Requests
  <2> QED
    BY <2>0, <2>1, <2>2, <1>1, <1>2 DEF TaskInv
<1> QED
  BY <1>1, <1>2, <1>3, <1>4, <1>5, <1>6, <1>7, TaskStep DEF ReadInv, Base

\* The self-heal finds the latest snapshot.
LEMMA HealFindInv ==
    ASSUME ReadInv, NEW p \in Procs, HealFind(p)
    PROVE  ReadInv'
<1> DEFINE t == <<p, "heal">>
<1>1. /\ t \in Tasks /\ t[2] = "heal" /\ pc[t] = "find" /\ snaps \in Nat
      /\ pc' = [pc EXCEPT ![t] = IF snaps = 0 THEN "idle" ELSE "check"]
      /\ todo' = [todo EXCEPT ![t] = IF snaps = 0 THEN <<>> ELSE <<snaps>>]
      /\ pc' \in [Tasks -> PCs]
      /\ UNCHANGED <<snaps, captured, stored, boots, asks, registry, persisted, cache, llama, view, got>>
  BY ReadPathAssumption DEF HealFind, At, ReadInv, Base, PCs
<1> HIDE DEF t
<1>2. Same /\ TaskInv(t)
  BY <1>1 DEF Same, ReadInv
<1>3. \A u \in Tasks \ {t} : /\ pc'[u] = pc[u] /\ todo'[u] = todo[u]
                              /\ view'[u] = view[u] /\ got'[u] = got[u]
  BY <1>1 DEF ReadInv, Base, Maps, Fn
<1>4. Maps'
  BY <1>1 DEF ReadInv, Maps, Fn
<1>5. PersistedInv'
  BY <1>1, <1>2, SharedKept
<1>6. \A q \in Procs : CacheInv(q)'
  BY <1>1, <1>2, SharedKept
<1>7. TaskInv(t)'
  <2>0. Own(t[1])' = Own(t[1]) /\ Gets(t[1])' = Gets(t[1]) /\ snaps' = snaps
    BY <1>1, <1>2, SameOwn
  <2>1. view'[t] = view[t] /\ got'[t] = got[t] /\ got[t] = <<>>
    BY <1>1, <1>2 DEF TaskInv
  <2>2. CASE snaps = 0
    <3>1. pc'[t] = "idle" /\ todo'[t] = <<>>
      BY <2>2, <1>1 DEF ReadInv, Base, Maps, Fn
    <3> QED
      BY <3>1, <2>0, <2>1, <1>2 DEF TaskInv
  <2>3. CASE snaps # 0
    <3>1. pc'[t] = "check" /\ todo'[t] = <<snaps>>
      BY <2>3, <1>1 DEF ReadInv, Base, Maps, Fn
    <3>2. <<snaps>> \in Seq(1 .. snaps) /\ Len(<<snaps>>) = 1 /\ <<snaps>> # <<>>
      BY <2>3, <1>1
    <3> QED
      BY <3>1, <3>2, <2>0, <2>1, <1>2 DEF TaskInv
  <2> QED
    BY <2>2, <2>3
<1> QED
  BY <1>1, <1>2, <1>3, <1>4, <1>5, <1>6, <1>7, TaskStep DEF ReadInv, Base

\* It compares the hash of its view.
LEMMA HealCheckInv ==
    ASSUME ReadInv, NEW p \in Procs, HealCheck(p)
    PROVE  ReadInv'
<1> DEFINE t == <<p, "heal">>
<1>1. /\ t \in Tasks /\ t[2] = "heal" /\ pc[t] = "check"
      /\ \/ pc' = [pc EXCEPT ![t] = "idle"] /\ todo' = [todo EXCEPT ![t] = <<>>]
         \/ pc' = [pc EXCEPT ![t] = "classify"] /\ todo' = todo
      /\ pc' \in [Tasks -> PCs]
      /\ UNCHANGED <<snaps, captured, stored, boots, asks, registry, persisted, cache, llama, view, got>>
      /\ Fn(todo, Tasks)'
  BY ReadPathAssumption DEF HealCheck, At, Maps, Fn, ReadInv, Base, PCs
<1> HIDE DEF t
<1>2. Same /\ TaskInv(t)
  BY <1>1 DEF Same, ReadInv
<1>3. \A u \in Tasks \ {t} : /\ pc'[u] = pc[u] /\ todo'[u] = todo[u]
                              /\ view'[u] = view[u] /\ got'[u] = got[u]
  BY <1>1 DEF ReadInv, Base, Maps, Fn
<1>4. Maps'
  BY <1>1 DEF ReadInv, Maps, Fn
<1>5. PersistedInv'
  BY <1>1, <1>2, SharedKept
<1>6. \A q \in Procs : CacheInv(q)'
  BY <1>1, <1>2, SharedKept
<1>7. TaskInv(t)'
  <2>0. Own(t[1])' = Own(t[1]) /\ Gets(t[1])' = Gets(t[1]) /\ snaps' = snaps
    BY <1>1, <1>2, SameOwn
  <2>1. view'[t] = view[t] /\ got'[t] = got[t] /\ got[t] = <<>>
    BY <1>1, <1>2 DEF TaskInv, Requests
  <2>2. \/ pc'[t] = "idle" /\ todo'[t] = <<>>
        \/ pc'[t] = "classify" /\ todo'[t] = todo[t]
    BY <1>1 DEF ReadInv, Base, Maps, Fn
  <2>3. pc[t] = "check"
    BY <1>1
  <2>4. CASE pc'[t] = "idle" /\ todo'[t] = <<>>
    BY <2>0, <2>1, <2>4, <1>2 DEF TaskInv
  <2>5. CASE pc'[t] = "classify" /\ todo'[t] = todo[t]
    BY <2>0, <2>1, <2>3, <2>5, <1>2 DEF TaskInv
  <2> QED
    BY <2>2, <2>4, <2>5
<1> QED
  BY <1>1, <1>2, <1>3, <1>4, <1>5, <1>6, <1>7, TaskStep DEF ReadInv, Base

\* It fails.
LEMMA HealFailsInv ==
    ASSUME ReadInv, NEW p \in Procs, HealFails(p)
    PROVE  ReadInv'
<1> DEFINE t == <<p, "heal">>
<1>1. /\ t \in Tasks /\ t[2] = "heal"
      /\ pc' = [pc EXCEPT ![t] = "failed"]
      /\ todo' = [todo EXCEPT ![t] = <<>>]
      /\ view' = [view EXCEPT ![t] = NoView]
      /\ pc' \in [Tasks -> PCs]
      /\ UNCHANGED <<snaps, captured, stored, boots, asks, registry, persisted, cache, llama, got>>
  BY ReadPathAssumption DEF HealFails, ReadInv, Base, PCs
<1> HIDE DEF t
<1>2. Same /\ TaskInv(t)
  BY <1>1 DEF Same, ReadInv
<1>3. \A u \in Tasks \ {t} : /\ pc'[u] = pc[u] /\ todo'[u] = todo[u]
                              /\ view'[u] = view[u] /\ got'[u] = got[u]
  BY <1>1 DEF ReadInv, Base, Maps, Fn
<1>4. Maps'
  BY <1>1 DEF ReadInv, Maps, Fn
<1>5. PersistedInv'
  BY <1>1, <1>2, SharedKept
<1>6. \A q \in Procs : CacheInv(q)'
  BY <1>1, <1>2, SharedKept
<1>7. TaskInv(t)'
  <2>0. Own(t[1])' = Own(t[1]) /\ Gets(t[1])' = Gets(t[1]) /\ snaps' = snaps
    BY <1>1, <1>2, SameOwn
  <2>1. pc'[t] = "failed" /\ view'[t] = NoView /\ todo'[t] = <<>> /\ got'[t] = got[t]
    BY <1>1 DEF ReadInv, Base, Maps, Fn
  <2>2. got[t] = <<>>
    BY <1>1, <1>2 DEF TaskInv, Requests
  <2> QED
    BY <2>0, <2>1, <2>2, <1>1, <1>2 DEF TaskInv
<1> QED
  BY <1>1, <1>2, <1>3, <1>4, <1>5, <1>6, <1>7, TaskStep DEF ReadInv, Base

\* A snapshot is classified.
LEMMA ClassifyInv ==
    ASSUME ReadInv, NEW t \in Tasks, Classify(t)
    PROVE  ReadInv'
<1>1. /\ t \in Tasks
      /\ pc[t] = "classify" /\ pc' = [pc EXCEPT ![t] = "persist"]
      /\ view' = [view EXCEPT ![t] =
                    [snap |-> todo[t][1], registry |-> registry[t[1]], senders |-> stored]]
      /\ pc' \in [Tasks -> PCs]
      /\ UNCHANGED <<snaps, captured, stored, boots, asks, registry, persisted, cache, llama, todo, got>>
  BY ReadPathAssumption DEF Classify, At, ReadInv, Base, PCs
<1>2. Same /\ TaskInv(t)
  BY <1>1 DEF Same, ReadInv
<1>3. \A u \in Tasks \ {t} : /\ pc'[u] = pc[u] /\ todo'[u] = todo[u]
                              /\ view'[u] = view[u] /\ got'[u] = got[u]
  BY <1>1 DEF ReadInv, Base, Maps, Fn
<1>4. Maps'
  BY <1>1 DEF ReadInv, Maps, Fn
<1>5. PersistedInv'
  BY <1>1, <1>2, SharedKept
<1>6. \A q \in Procs : CacheInv(q)'
  BY <1>1, <1>2, SharedKept
<1>7. TaskInv(t)'
  <2>0. Own(t[1])' = Own(t[1]) /\ Gets(t[1])' = Gets(t[1]) /\ snaps' = snaps
    BY <1>1, <1>2, SameOwn
  <2> DEFINE v == [snap |-> todo[t][1], registry |-> registry[t[1]], senders |-> stored]
  <2>1. pc'[t] = "persist" /\ view'[t] = v /\ todo'[t] = todo[t] /\ got'[t] = got[t]
    BY <1>1 DEF ReadInv, Base, Maps, Fn
  <2>2. v \in Own(t[1])
    <3>1. todo[t][1] \in 1 .. snaps /\ snaps \in 0 .. MaxSnaps
      <4>1. todo[t] \in Seq(1 .. snaps) /\ todo[t] # <<>>
        BY <1>1, <1>2 DEF TaskInv
      <4> QED
        BY <4>1, EmptySeq, ElementOfSeq DEF ReadInv, Base
    <3>2. captured[todo[t][1]] \in 0 .. stored
      BY <3>1, ElementOfSeq DEF ReadInv, Base
    <3>3. t[1] \in Procs /\ registry[t[1]] \in Registries /\ stored \in 0 .. MaxSenders
      BY TaskProc DEF ReadInv, Base
    <3>4. v \in Views
      BY <3>1, <3>3, ReadPathAssumption DEF Views, Snaps
    <3> QED
      BY <3>1, <3>2, <3>3, <3>4, ReadPathAssumption DEF Own, Sure
  <2>3. v.snap = todo[t][1] /\ pc[t] = "classify"
    BY <1>1
  <2> HIDE DEF v
  <2> QED
    BY <2>0, <2>1, <2>2, <2>3, <1>2 DEF TaskInv
<1> QED
  BY <1>1, <1>2, <1>3, <1>4, <1>5, <1>6, <1>7, TaskStep DEF ReadInv, Base

\* The cache does not have the view.
LEMMA MissInv ==
    ASSUME ReadInv, NEW t \in Tasks, Miss(t)
    PROVE  ReadInv'
<1>1. /\ t \in Tasks
      /\ pc[t] = "lookup" /\ pc' = [pc EXCEPT ![t] = "load"]
      /\ pc' \in [Tasks -> PCs]
      /\ UNCHANGED <<snaps, captured, stored, boots, asks, registry, persisted, cache, llama, todo, view, got>>
  BY ReadPathAssumption DEF Miss, At, ReadInv, Base, PCs
<1>2. Same /\ TaskInv(t)
  BY <1>1 DEF Same, ReadInv
<1>3. \A u \in Tasks \ {t} : /\ pc'[u] = pc[u] /\ todo'[u] = todo[u]
                              /\ view'[u] = view[u] /\ got'[u] = got[u]
  BY <1>1 DEF ReadInv, Base, Maps, Fn
<1>4. Maps'
  BY <1>1 DEF ReadInv, Maps, Fn
<1>5. PersistedInv'
  BY <1>1, <1>2, SharedKept
<1>6. \A q \in Procs : CacheInv(q)'
  BY <1>1, <1>2, SharedKept
<1>7. TaskInv(t)'
  <2>0. Own(t[1])' = Own(t[1]) /\ Gets(t[1])' = Gets(t[1]) /\ snaps' = snaps
    BY <1>1, <1>2, SameOwn
  <2>1. pc[t] = "lookup" /\ pc'[t] = "load" /\ view'[t] = view[t] /\ todo'[t] = todo[t] /\ got'[t] = got[t]
    BY <1>1 DEF ReadInv, Base, Maps, Fn
  <2> QED
    BY <2>0, <2>1, <1>2 DEF TaskInv
<1> QED
  BY <1>1, <1>2, <1>3, <1>4, <1>5, <1>6, <1>7, TaskStep DEF ReadInv, Base

\* The persisted view is loaded, if it is of this registry.
LEMMA LoadInv ==
    ASSUME ReadInv, NEW t \in Tasks, Load(t)
    PROVE  ReadInv'
<1>1. /\ t \in Tasks
      /\ pc[t] = "load"
      /\ \/ /\ pc' = [pc EXCEPT ![t] = "classify"]
            /\ view' = [view EXCEPT ![t] = NoView]
         \/ /\ pc' = [pc EXCEPT ![t] = "put"]
            /\ \E v \in Current(t[1], todo[t][1]) : view' = [view EXCEPT ![t] = v]
      /\ pc' \in [Tasks -> PCs]
      /\ UNCHANGED <<snaps, captured, stored, boots, asks, registry, persisted, cache, llama, todo, got>>
  BY ReadPathAssumption DEF Load, At, ReadInv, Base, PCs
<1>2. Same /\ TaskInv(t)
  BY <1>1 DEF Same, ReadInv
<1>3. \A u \in Tasks \ {t} : /\ pc'[u] = pc[u] /\ todo'[u] = todo[u]
                              /\ view'[u] = view[u] /\ got'[u] = got[u]
  BY <1>1 DEF ReadInv, Base, Maps, Fn
<1>4. Maps'
  BY <1>1 DEF ReadInv, Maps, Fn
<1>5. PersistedInv'
  BY <1>1, <1>2, SharedKept
<1>6. \A q \in Procs : CacheInv(q)'
  BY <1>1, <1>2, SharedKept
<1>7. TaskInv(t)'
  <2>0. Own(t[1])' = Own(t[1]) /\ Gets(t[1])' = Gets(t[1]) /\ snaps' = snaps
    BY <1>1, <1>2, SameOwn
  <2>1. pc[t] = "load" /\ todo'[t] = todo[t] /\ got'[t] = got[t]
    BY <1>1
  <2>2. CASE pc' = [pc EXCEPT ![t] = "classify"] /\ view' = [view EXCEPT ![t] = NoView]
    <3>1. pc'[t] = "classify" /\ view'[t] = NoView
      BY <2>2 DEF ReadInv, Base, Maps, Fn
    <3> QED
      BY <3>1, <2>0, <2>1, <1>2 DEF TaskInv
  <2>3. ASSUME NEW v \in Current(t[1], todo[t][1]),
               pc' = [pc EXCEPT ![t] = "put"], view' = [view EXCEPT ![t] = v]
        PROVE  TaskInv(t)'
    <3>1. pc'[t] = "put" /\ view'[t] = v
      BY <2>3 DEF ReadInv, Base, Maps, Fn
    <3>2. v \in Own(t[1]) /\ v.snap = todo[t][1]
      BY DEF Current, ReadInv, PersistedInv, Own
    <3> QED
      BY <3>1, <3>2, <2>0, <2>1, <1>2 DEF TaskInv
  <2> QED
    BY <1>1, <2>2, <2>3
<1> QED
  BY <1>1, <1>2, <1>3, <1>4, <1>5, <1>6, <1>7, TaskStep DEF ReadInv, Base

\* A request fails.
LEMMA RequestFailsInv ==
    ASSUME ReadInv, NEW t \in Tasks, RequestFails(t)
    PROVE  ReadInv'
<1>1. /\ t \in Tasks
      /\ t[2] \in Requests
      /\ pc' = [pc EXCEPT ![t] = "idle"]
      /\ todo' = [todo EXCEPT ![t] = <<>>]
      /\ view' = [view EXCEPT ![t] = NoView]
      /\ got' = [got EXCEPT ![t] = <<>>]
      /\ pc' \in [Tasks -> PCs]
      /\ UNCHANGED <<snaps, captured, stored, boots, asks, registry, persisted, cache, llama>>
  BY ReadPathAssumption DEF RequestFails, ReadInv, Base, PCs
<1>2. Same /\ TaskInv(t)
  BY <1>1 DEF Same, ReadInv
<1>3. \A u \in Tasks \ {t} : /\ pc'[u] = pc[u] /\ todo'[u] = todo[u]
                              /\ view'[u] = view[u] /\ got'[u] = got[u]
  BY <1>1 DEF ReadInv, Base, Maps, Fn
<1>4. Maps'
  BY <1>1 DEF ReadInv, Maps, Fn
<1>5. PersistedInv'
  BY <1>1, <1>2, SharedKept
<1>6. \A q \in Procs : CacheInv(q)'
  BY <1>1, <1>2, SharedKept
<1>7. TaskInv(t)'
  <2>0. Own(t[1])' = Own(t[1]) /\ Gets(t[1])' = Gets(t[1]) /\ snaps' = snaps
    BY <1>1, <1>2, SameOwn
  <2>1. pc'[t] = "idle" /\ view'[t] = NoView /\ todo'[t] = <<>> /\ got'[t] = <<>>
    BY <1>1 DEF ReadInv, Base, Maps, Fn
  <2> QED
    BY <2>0, <2>1 DEF TaskInv
<1> QED
  BY <1>1, <1>2, <1>3, <1>4, <1>5, <1>6, <1>7, TaskStep DEF ReadInv, Base

\* It is answered.
LEMMA AnswerInv ==
    ASSUME ReadInv, NEW t \in Tasks, Answer(t)
    PROVE  ReadInv'
<1>1. /\ t \in Tasks
      /\ pc[t] = "answer" /\ pc' = [pc EXCEPT ![t] = "idle"]
      /\ got' = [got EXCEPT ![t] = <<>>]
      /\ pc' \in [Tasks -> PCs]
      /\ UNCHANGED <<snaps, captured, stored, boots, asks, registry, persisted, cache, llama, todo, view>>
  BY ReadPathAssumption DEF Answer, At, ReadInv, Base, PCs
<1>2. Same /\ TaskInv(t)
  BY <1>1 DEF Same, ReadInv
<1>3. \A u \in Tasks \ {t} : /\ pc'[u] = pc[u] /\ todo'[u] = todo[u]
                              /\ view'[u] = view[u] /\ got'[u] = got[u]
  BY <1>1 DEF ReadInv, Base, Maps, Fn
<1>4. Maps'
  BY <1>1 DEF ReadInv, Maps, Fn
<1>5. PersistedInv'
  BY <1>1, <1>2, SharedKept
<1>6. \A q \in Procs : CacheInv(q)'
  BY <1>1, <1>2, SharedKept
<1>7. TaskInv(t)'
  <2>0. Own(t[1])' = Own(t[1]) /\ Gets(t[1])' = Gets(t[1]) /\ snaps' = snaps
    BY <1>1, <1>2, SameOwn
  <2>1. /\ pc'[t] = "idle" /\ pc[t] = "answer" /\ view'[t] = view[t]
        /\ todo'[t] = todo[t] /\ got'[t] = <<>>
    BY <1>1 DEF ReadInv, Base, Maps, Fn
  <2>2. /\ todo[t] \in Seq(1 .. snaps) /\ Len(todo[t]) \in Nat /\ Len(todo[t]) <= 2
        /\ view[t] \in Own(t[1]) \cup {NoView} /\ t[2] \in Requests
    <3>1. Len(todo[t]) \in Nat /\ Len(got[t]) \in Nat
      BY <1>2, LenProperties DEF TaskInv
    <3>2. Len(todo[t]) <= 2
      BY <3>1, <1>2, SumBound DEF TaskInv
    <3> QED
      BY <3>1, <3>2, <2>1, <1>2 DEF TaskInv
  <2>3. <<>> \in Seq(Gets(t[1]))
    OBVIOUS
  <2> QED
    BY <2>0, <2>1, <2>2, <2>3 DEF TaskInv
<1> QED
  BY <1>1, <1>2, <1>3, <1>4, <1>5, <1>6, <1>7, TaskStep DEF ReadInv, Base

\* It asks for the latest view.
LEMMA AskLatestInv ==
    ASSUME ReadInv, NEW p \in Procs, AskLatest(p)
    PROVE  ReadInv'
<1> DEFINE t == <<p, "latest">>
<1>1. /\ t \in Tasks
      /\ t[2] = "latest" /\ pc[t] = "idle" /\ pc' = [pc EXCEPT ![t] = "lookup"]
      /\ snaps \in Nat /\ snaps > 0 /\ asks' \in 0 .. MaxAsks
      /\ todo' = [todo EXCEPT ![t] = <<snaps>>]
      /\ pc' \in [Tasks -> PCs]
      /\ UNCHANGED <<snaps, captured, stored, boots, registry, persisted, cache, llama, view, got>>
  BY ReadPathAssumption DEF AskLatest, At, ReadInv, Base, PCs
<1> HIDE DEF t
<1>2. Same /\ TaskInv(t)
  BY <1>1 DEF Same, ReadInv
<1>3. \A u \in Tasks \ {t} : /\ pc'[u] = pc[u] /\ todo'[u] = todo[u]
                              /\ view'[u] = view[u] /\ got'[u] = got[u]
  BY <1>1 DEF ReadInv, Base, Maps, Fn
<1>4. Maps'
  BY <1>1 DEF ReadInv, Maps, Fn
<1>5. PersistedInv'
  BY <1>1, <1>2, SharedKept
<1>6. \A q \in Procs : CacheInv(q)'
  BY <1>1, <1>2, SharedKept
<1>7. TaskInv(t)'
  <2>0. Own(t[1])' = Own(t[1]) /\ Gets(t[1])' = Gets(t[1]) /\ snaps' = snaps
    BY <1>1, <1>2, SameOwn
  <2>1. PICK s \in {<<snaps>>} :
            todo' = [todo EXCEPT ![t] = s]
    BY <1>1
  <2>2. pc'[t] = "lookup" /\ view'[t] = view[t] /\ todo'[t] = s /\ got'[t] = got[t]
    BY <1>1, <2>1 DEF ReadInv, Base, Maps, Fn
  <2>3. got[t] = <<>> /\ t[2] \in Requests
    BY <1>1, <1>2 DEF TaskInv, Requests
  <2>4. s \in Seq(1 .. snaps) /\ s # <<>> /\ Len(s) \in 1 .. 2
    <3>2. snaps \in 1 .. snaps
      BY <1>1
    <3>3. <<snaps>> \in Seq(1 .. snaps) /\ <<snaps>> # <<>> /\ Len(<<snaps>>) = 1
      BY <3>2
    <3>5. s \in Seq(1 .. snaps) /\ s # <<>>
      BY <3>3
    <3>6. Len(s) \in 1 .. 2
      BY <3>3
    <3> QED
      BY <3>5, <3>6
  <2>5. <<>> \in Seq(Gets(t[1])) /\ view[t] \in Own(t[1]) \cup {NoView}
    BY <1>2 DEF TaskInv
  <2>6. Len(todo'[t]) + Len(got'[t]) <= 2
    <3>1. Len(<<>>) = 0
      OBVIOUS
    <3>2. \A n \in 1 .. 2 : n + 0 <= 2
      OBVIOUS
    <3> QED
      BY <3>1, <3>2, <2>2, <2>3, <2>4
  <2> QED
    BY <2>0, <2>2, <2>3, <2>4, <2>5, <2>6 DEF TaskInv
<1> QED
  BY <1>1, <1>2, <1>3, <1>4, <1>5, <1>6, <1>7, TaskStep DEF ReadInv, Base

\* It asks for the two views of a ranking.
LEMMA AskGrowthInv ==
    ASSUME ReadInv, NEW p \in Procs, AskGrowth(p)
    PROVE  ReadInv'
<1> DEFINE t == <<p, "growth">>
<1>1. /\ t \in Tasks
      /\ t[2] = "growth" /\ pc[t] = "idle" /\ pc' = [pc EXCEPT ![t] = "lookup"]
      /\ snaps \in Nat /\ snaps > 0 /\ asks' \in 0 .. MaxAsks
      /\ \E s \in {<<snaps>>} \cup {<<baseline, snaps>> : baseline \in 1 .. snaps} :
            todo' = [todo EXCEPT ![t] = s]
      /\ pc' \in [Tasks -> PCs]
      /\ UNCHANGED <<snaps, captured, stored, boots, registry, persisted, cache, llama, view, got>>
  <2>1. /\ t \in Tasks /\ At(t, "idle", "lookup") /\ snaps > 0 /\ asks < MaxAsks /\ asks' = asks + 1
        /\ UNCHANGED <<snaps, captured, stored, boots, registry, persisted, cache, llama, view, got>>
    BY DEF AskGrowth
  <2>2. PICK baseline \in 0 .. snaps :
            todo' = [todo EXCEPT ![t] = IF baseline = 0 THEN <<snaps>> ELSE <<baseline, snaps>>]
    BY DEF AskGrowth
  <2>3. snaps \in Nat /\ asks' \in 0 .. MaxAsks
    BY <2>1, ReadPathAssumption DEF ReadInv, Base
  <2>4. PICK s \in {<<snaps>>} \cup {<<b, snaps>> : b \in 1 .. snaps} : todo' = [todo EXCEPT ![t] = s]
    <3>1. CASE baseline = 0
      BY <3>1, <2>2
    <3>2. CASE baseline # 0
      <4>1. baseline \in 1 .. snaps
        BY <3>2, <2>3
      <4> QED
        BY <4>1, <3>2, <2>2
    <3> QED
      BY <3>1, <3>2
  <2>5. t[2] = "growth" /\ pc[t] = "idle" /\ pc' = [pc EXCEPT ![t] = "lookup"] /\ pc' \in [Tasks -> PCs]
    BY <2>1 DEF At, ReadInv, Base, PCs
  <2> QED
    BY <2>1, <2>3, <2>4, <2>5
<1> HIDE DEF t
<1>2. Same /\ TaskInv(t)
  BY <1>1 DEF Same, ReadInv
<1>3. \A u \in Tasks \ {t} : /\ pc'[u] = pc[u] /\ todo'[u] = todo[u]
                              /\ view'[u] = view[u] /\ got'[u] = got[u]
  BY <1>1 DEF ReadInv, Base, Maps, Fn
<1>4. Maps'
  BY <1>1 DEF ReadInv, Maps, Fn
<1>5. PersistedInv'
  BY <1>1, <1>2, SharedKept
<1>6. \A q \in Procs : CacheInv(q)'
  BY <1>1, <1>2, SharedKept
<1>7. TaskInv(t)'
  <2>0. Own(t[1])' = Own(t[1]) /\ Gets(t[1])' = Gets(t[1]) /\ snaps' = snaps
    BY <1>1, <1>2, SameOwn
  <2>1. PICK s \in {<<snaps>>} \cup {<<baseline, snaps>> : baseline \in 1 .. snaps} :
            todo' = [todo EXCEPT ![t] = s]
    BY <1>1
  <2>2. pc'[t] = "lookup" /\ view'[t] = view[t] /\ todo'[t] = s /\ got'[t] = got[t]
    BY <1>1, <2>1 DEF ReadInv, Base, Maps, Fn
  <2>3. got[t] = <<>> /\ t[2] \in Requests
    BY <1>1, <1>2 DEF TaskInv, Requests
  <2>4. s \in Seq(1 .. snaps) /\ s # <<>> /\ Len(s) \in 1 .. 2
    <3>2. snaps \in 1 .. snaps
      BY <1>1
    <3>3. <<snaps>> \in Seq(1 .. snaps) /\ <<snaps>> # <<>> /\ Len(<<snaps>>) = 1
      BY <3>2
    <3>4. ASSUME NEW b \in 1 .. snaps
          PROVE  <<b, snaps>> \in Seq(1 .. snaps) /\ <<b, snaps>> # <<>> /\ Len(<<b, snaps>>) = 2
      BY <3>2
    <3>5. s \in Seq(1 .. snaps) /\ s # <<>>
      BY <3>3, <3>4
    <3>6. Len(s) \in 1 .. 2
      BY <3>3, <3>4
    <3> QED
      BY <3>5, <3>6
  <2>5. <<>> \in Seq(Gets(t[1])) /\ view[t] \in Own(t[1]) \cup {NoView}
    BY <1>2 DEF TaskInv
  <2>6. Len(todo'[t]) + Len(got'[t]) <= 2
    <3>1. Len(<<>>) = 0
      OBVIOUS
    <3>2. \A n \in 1 .. 2 : n + 0 <= 2
      OBVIOUS
    <3> QED
      BY <3>1, <3>2, <2>2, <2>3, <2>4
  <2> QED
    BY <2>0, <2>2, <2>3, <2>4, <2>5, <2>6 DEF TaskInv
<1> QED
  BY <1>1, <1>2, <1>3, <1>4, <1>5, <1>6, <1>7, TaskStep DEF ReadInv, Base

(***************************************************************************)
(* The copy that an answer is made from stays a list of own views when     *)
(* DefiLlama's numbers are merged into its first entry.                    *)
(***************************************************************************)
LEMMA EnrichWithGets ==
    ASSUME ReadInv, NEW t \in Tasks, pc[t] = "enrich", NEW list \in SUBSET Protos,
           EnrichWith(t, list)
    PROVE  \E g \in Seq(Gets(t[1])) : Len(g) = Len(got[t]) /\ got' = [got EXCEPT ![t] = g]
<1> DEFINE x == IF list = {} THEN NoTvl ELSE Enriched(list)
           h == [got[t][1] EXCEPT !.tvl = x]
           g == [got[t] EXCEPT ![1] = h]
<1>1. got[t] \in Seq(Gets(t[1])) /\ got[t] # <<>>
  BY DEF ReadInv, TaskInv
<1>2. 1 \in 1 .. Len(got[t])
  BY <1>1, EmptySeq
<1>3. x \in Tvls
  BY DEF Tvls
<1>4. h \in Gets(t[1])
  <2>1. got[t][1] \in Gets(t[1])
    BY <1>1, <1>2, ElementOfSeq
  <2> HIDE DEF x
  <2> QED
    BY <2>1, <1>3 DEF Gets
<1>5. g \in Seq(Gets(t[1])) /\ Len(g) = Len(got[t])
  <2> HIDE DEF h
  <2> QED
    BY <1>1, <1>2, <1>4, ExceptSeq
<1>6. got' = [got EXCEPT ![t] = g]
  BY DEF EnrichWith
<1> QED
  BY <1>5, <1>6

\* A view gets the values of the cached protocols.
LEMMA EnrichCachedInv ==
    ASSUME ReadInv, NEW t \in Tasks, EnrichCached(t)
    PROVE  ReadInv'
<1>1. /\ t \in Tasks
      /\ pc[t] = "enrich" /\ pc' = [pc EXCEPT ![t] = "answer"]
      /\ \E g \in Seq(Gets(t[1])) : Len(g) = Len(got[t]) /\ got' = [got EXCEPT ![t] = g]
      /\ llama' \in [Procs -> [cached : BOOLEAN, list : SUBSET Protos]]
      /\ pc' \in [Tasks -> PCs]
      /\ UNCHANGED <<snaps, captured, stored, boots, asks, registry, persisted, cache, todo, view>>
  <2>1. llama[t[1]].list \in SUBSET Protos /\ EnrichWith(t, llama[t[1]].list) /\ llama' = llama
    BY TaskProc DEF EnrichCached, ReadInv, Base
  <2>2. pc[t] = "enrich" /\ pc' = [pc EXCEPT ![t] = "answer"] /\ pc' \in [Tasks -> PCs]
    BY DEF EnrichCached, At, ReadInv, Base, PCs
  <2>3. UNCHANGED <<snaps, captured, stored, boots, asks, registry, persisted, cache, todo, view>>
    BY DEF EnrichCached
  <2>4. \E g \in Seq(Gets(t[1])) : Len(g) = Len(got[t]) /\ got' = [got EXCEPT ![t] = g]
    BY <2>1, <2>2, EnrichWithGets
  <2> QED
    BY <2>1, <2>2, <2>3, <2>4 DEF ReadInv, Base
<1>2. Same /\ TaskInv(t)
  BY <1>1 DEF Same, ReadInv
<1>3. \A u \in Tasks \ {t} : /\ pc'[u] = pc[u] /\ todo'[u] = todo[u]
                              /\ view'[u] = view[u] /\ got'[u] = got[u]
  BY <1>1 DEF ReadInv, Base, Maps, Fn
<1>4. Maps'
  BY <1>1 DEF ReadInv, Maps, Fn
<1>5. PersistedInv'
  BY <1>1, <1>2, SharedKept
<1>6. \A q \in Procs : CacheInv(q)'
  BY <1>1, <1>2, SharedKept
<1>7. TaskInv(t)'
  <2>0. Own(t[1])' = Own(t[1]) /\ Gets(t[1])' = Gets(t[1]) /\ snaps' = snaps
    BY <1>1, <1>2, SameOwn
  <2>1. PICK g \in Seq(Gets(t[1])) : Len(g) = Len(got[t]) /\ got' = [got EXCEPT ![t] = g]
    BY <1>1
  <2>2. /\ pc[t] = "enrich" /\ pc'[t] = "answer" /\ view'[t] = view[t]
        /\ todo'[t] = todo[t] /\ got'[t] = g
    BY <1>1, <2>1 DEF ReadInv, Base, Maps, Fn
  <2>3. g # <<>>
    <3>1. Len(got[t]) # 0
      BY <2>2, <1>2, EmptySeq DEF TaskInv
    <3> QED
      BY <3>1, <2>1, EmptySeq
  <2>4. Len(todo'[t]) + Len(got'[t]) <= 2 /\ t[2] \in Requests
    BY <2>1, <2>2, <1>2 DEF TaskInv
  <2> QED
    BY <2>0, <2>2, <2>3, <2>4, <1>2 DEF TaskInv
<1> QED
  BY <1>1, <1>2, <1>3, <1>4, <1>5, <1>6, <1>7, TaskStep DEF ReadInv, Base

\* It gets those just fetched.
LEMMA EnrichFetchedInv ==
    ASSUME ReadInv, NEW t \in Tasks, EnrichFetched(t)
    PROVE  ReadInv'
<1>1. /\ t \in Tasks
      /\ pc[t] = "enrich" /\ pc' = [pc EXCEPT ![t] = "answer"]
      /\ \E g \in Seq(Gets(t[1])) : Len(g) = Len(got[t]) /\ got' = [got EXCEPT ![t] = g]
      /\ llama' \in [Procs -> [cached : BOOLEAN, list : SUBSET Protos]]
      /\ pc' \in [Tasks -> PCs]
      /\ UNCHANGED <<snaps, captured, stored, boots, asks, registry, persisted, cache, todo, view>>
  <2>1. PICK list \in Responses :
            /\ EnrichWith(t, list)
            /\ llama' = [llama EXCEPT ![t[1]] = [cached |-> TRUE, list |-> list]]
    BY DEF EnrichFetched
  <2>2. pc[t] = "enrich" /\ pc' = [pc EXCEPT ![t] = "answer"] /\ pc' \in [Tasks -> PCs]
    BY DEF EnrichFetched, At, ReadInv, Base, PCs
  <2>3. UNCHANGED <<snaps, captured, stored, boots, asks, registry, persisted, cache, todo, view>>
    BY DEF EnrichFetched
  <2>4. list \in SUBSET Protos
    BY ReadPathAssumption
  <2>5. llama' \in [Procs -> [cached : BOOLEAN, list : SUBSET Protos]]
    BY <2>1, <2>4 DEF ReadInv, Base
  <2>6. \E g \in Seq(Gets(t[1])) : Len(g) = Len(got[t]) /\ got' = [got EXCEPT ![t] = g]
    BY <2>1, <2>2, <2>4, EnrichWithGets
  <2> QED
    BY <2>2, <2>3, <2>5, <2>6
<1>2. Same /\ TaskInv(t)
  BY <1>1 DEF Same, ReadInv
<1>3. \A u \in Tasks \ {t} : /\ pc'[u] = pc[u] /\ todo'[u] = todo[u]
                              /\ view'[u] = view[u] /\ got'[u] = got[u]
  BY <1>1 DEF ReadInv, Base, Maps, Fn
<1>4. Maps'
  BY <1>1 DEF ReadInv, Maps, Fn
<1>5. PersistedInv'
  BY <1>1, <1>2, SharedKept
<1>6. \A q \in Procs : CacheInv(q)'
  BY <1>1, <1>2, SharedKept
<1>7. TaskInv(t)'
  <2>0. Own(t[1])' = Own(t[1]) /\ Gets(t[1])' = Gets(t[1]) /\ snaps' = snaps
    BY <1>1, <1>2, SameOwn
  <2>1. PICK g \in Seq(Gets(t[1])) : Len(g) = Len(got[t]) /\ got' = [got EXCEPT ![t] = g]
    BY <1>1
  <2>2. /\ pc[t] = "enrich" /\ pc'[t] = "answer" /\ view'[t] = view[t]
        /\ todo'[t] = todo[t] /\ got'[t] = g
    BY <1>1, <2>1 DEF ReadInv, Base, Maps, Fn
  <2>3. g # <<>>
    <3>1. Len(got[t]) # 0
      BY <2>2, <1>2, EmptySeq DEF TaskInv
    <3> QED
      BY <3>1, <2>1, EmptySeq
  <2>4. Len(todo'[t]) + Len(got'[t]) <= 2 /\ t[2] \in Requests
    BY <2>1, <2>2, <1>2 DEF TaskInv
  <2> QED
    BY <2>0, <2>2, <2>3, <2>4, <1>2 DEF TaskInv
<1> QED
  BY <1>1, <1>2, <1>3, <1>4, <1>5, <1>6, <1>7, TaskStep DEF ReadInv, Base

\* Their fetch fails.
LEMMA EnrichFailsInv ==
    ASSUME ReadInv, NEW t \in Tasks, EnrichFails(t)
    PROVE  ReadInv'
<1>1. /\ t \in Tasks
      /\ pc[t] = "enrich" /\ pc' = [pc EXCEPT ![t] = "answer"]
      /\ pc' \in [Tasks -> PCs]
      /\ UNCHANGED <<snaps, captured, stored, boots, asks, registry, persisted, cache, llama, todo, view, got>>
  BY ReadPathAssumption DEF EnrichFails, At, ReadInv, Base, PCs
<1>2. Same /\ TaskInv(t)
  BY <1>1 DEF Same, ReadInv
<1>3. \A u \in Tasks \ {t} : /\ pc'[u] = pc[u] /\ todo'[u] = todo[u]
                              /\ view'[u] = view[u] /\ got'[u] = got[u]
  BY <1>1 DEF ReadInv, Base, Maps, Fn
<1>4. Maps'
  BY <1>1 DEF ReadInv, Maps, Fn
<1>5. PersistedInv'
  BY <1>1, <1>2, SharedKept
<1>6. \A q \in Procs : CacheInv(q)'
  BY <1>1, <1>2, SharedKept
<1>7. TaskInv(t)'
  <2>0. Own(t[1])' = Own(t[1]) /\ Gets(t[1])' = Gets(t[1]) /\ snaps' = snaps
    BY <1>1, <1>2, SameOwn
  <2>1. pc[t] = "enrich" /\ pc'[t] = "answer" /\ view'[t] = view[t] /\ todo'[t] = todo[t] /\ got'[t] = got[t]
    BY <1>1 DEF ReadInv, Base, Maps, Fn
  <2> QED
    BY <2>0, <2>1, <1>2 DEF TaskInv
<1> QED
  BY <1>1, <1>2, <1>3, <1>4, <1>5, <1>6, <1>7, TaskStep DEF ReadInv, Base

\* A view is persisted.
LEMMA PersistInv ==
    ASSUME ReadInv, NEW t \in Tasks, Persist(t)
    PROVE  ReadInv'
<1>1. /\ t \in Tasks
      /\ pc[t] = "persist"
      /\ \/ t[2] = "capture" /\ pc' = [pc EXCEPT ![t] = "invalidate"]
         \/ t[2] = "heal" /\ pc' = [pc EXCEPT ![t] = "idle"]
         \/ t[2] \in Requests /\ pc' = [pc EXCEPT ![t] = "put"]
      /\ persisted' = {v \in persisted : v.snap # view[t].snap} \cup {view[t]}
      /\ view' = [view EXCEPT ![t] = IF t[2] \in Requests THEN @ ELSE NoView]
      /\ todo' = [todo EXCEPT ![t] = IF t[2] \in Requests THEN @ ELSE <<>>]
      /\ pc' \in [Tasks -> PCs]
      /\ UNCHANGED <<snaps, captured, stored, boots, asks, registry, cache, llama, got>>
  <2>1. t[2] \in Slots
    BY TaskProc
  <2>2. /\ pc[t] = "persist"
        /\ pc' = [pc EXCEPT ![t] = CASE t[2] = "capture" -> "invalidate"
                                     [] t[2] = "heal" -> "idle"
                                     [] OTHER -> "put"]
    BY DEF Persist, At
  <2>3. \/ t[2] = "capture" /\ pc' = [pc EXCEPT ![t] = "invalidate"]
        \/ t[2] = "heal" /\ pc' = [pc EXCEPT ![t] = "idle"]
        \/ t[2] \in Requests /\ pc' = [pc EXCEPT ![t] = "put"]
    BY <2>1, <2>2 DEF Slots, Requests
  <2>4. pc' \in [Tasks -> PCs]
    BY <2>3 DEF ReadInv, Base, PCs
  <2> QED
    BY <2>2, <2>3, <2>4 DEF Persist
<1>2. Same /\ TaskInv(t)
  BY <1>1 DEF Same, ReadInv
<1>3. \A u \in Tasks \ {t} : /\ pc'[u] = pc[u] /\ todo'[u] = todo[u]
                              /\ view'[u] = view[u] /\ got'[u] = got[u]
  BY <1>1 DEF ReadInv, Base, Maps, Fn
<1>4. Maps'
  BY <1>1 DEF ReadInv, Maps, Fn
<1>5. PersistedInv'
  <2>1. view[t] \in Sure
    BY <1>1, <1>2 DEF TaskInv, Own
  <2>2. Sure' = Sure
    BY <1>2, SameOwn
  <2> QED
    BY <2>1, <2>2, <1>1 DEF ReadInv, PersistedInv
<1>6. \A q \in Procs : CacheInv(q)'
  BY <1>1, <1>2, SharedKept
<1>7. TaskInv(t)'
  <2>0. Own(t[1])' = Own(t[1]) /\ Gets(t[1])' = Gets(t[1]) /\ snaps' = snaps
    BY <1>1, <1>2, SameOwn
  <2>1. got'[t] = got[t] /\ pc[t] = "persist"
    BY <1>1
  <2>2. CASE t[2] \in Requests
    <3>1. pc'[t] = "put" /\ view'[t] = view[t] /\ todo'[t] = todo[t]
      BY <2>2, <1>1 DEF ReadInv, Base, Maps, Fn, Requests
    <3> QED
      BY <2>2, <3>1, <2>0, <2>1, <1>2 DEF TaskInv
  <2>3. CASE t[2] \notin Requests
    <3>1. pc'[t] \in {"invalidate", "idle"} /\ view'[t] = NoView /\ todo'[t] = <<>>
      BY <2>3, <1>1 DEF ReadInv, Base, Maps, Fn
    <3>2. got[t] = <<>>
      BY <2>3, <1>2 DEF TaskInv
    <3> QED
      BY <2>3, <3>1, <3>2, <2>0, <2>1, <1>2 DEF TaskInv
  <2> QED
    BY <2>2, <2>3
<1> QED
  BY <1>1, <1>2, <1>3, <1>4, <1>5, <1>6, <1>7, TaskStep DEF ReadInv, Base

(***************************************************************************)
(* The cache as a list of entries of distinct snapshots: moving a hit to   *)
(* the end, setting a key and evicting the first keys keep it one.         *)
(***************************************************************************)
Distinct(c) == \A i, j \in 1 .. Len(c) : c[i].snap = c[j].snap => i = j

\* An entry moved to the end of a cache leaves the keys distinct.
LEMMA MovedToEnd ==
    ASSUME NEW S, NEW c \in Seq(S), NEW i \in 1 .. Len(c), Distinct(c)
    PROVE  LET d == Append(RemoveAt(c, i), c[i]) IN
           d \in Seq(S) /\ Len(d) = Len(c) /\ Distinct(d)
<1> DEFINE a == SubSeq(c, 1, i - 1)
           b == SubSeq(c, i + 1, Len(c))
           r == a \o b
           d == Append(r, c[i])
           n == Len(c)
<1>0. n \in Nat /\ i \in 1 .. n /\ \A j \in 1 .. n : c[j] \in S
  BY LenProperties, ElementOfSeq
<1>1. a \in Seq(S) /\ Len(a) = i - 1 /\ \A j \in 1 .. i - 1 : a[j] = c[j]
  <2>1. \A j \in 1 .. i - 1 : c[j] \in S
    BY <1>0
  <2>2. Len(a) = IF 1 <= i - 1 THEN (i - 1) - 1 + 1 ELSE 0
    BY <2>1, <1>0, SubSeqProperties
  <2>3. a \in Seq(S) /\ \A j \in 1 .. (i - 1) - 1 + 1 : a[j] = c[1 + j - 1]
    BY <2>1, <1>0, SubSeqProperties
  <2> HIDE DEF a
  <2> QED
    BY <2>2, <2>3, <1>0
<1>2. b \in Seq(S) /\ Len(b) = n - i /\ \A j \in 1 .. n - i : b[j] = c[i + j]
  <2>1. \A j \in i + 1 .. n : c[j] \in S
    BY <1>0
  <2>2. Len(b) = IF i + 1 <= n THEN n - (i + 1) + 1 ELSE 0
    BY <2>1, <1>0, SubSeqProperties
  <2>3. b \in Seq(S) /\ \A j \in 1 .. n - (i + 1) + 1 : b[j] = c[i + 1 + j - 1]
    BY <2>1, <1>0, SubSeqProperties
  <2>4. \A j \in 1 .. n - i : b[j] = c[i + j]
    <3> TAKE j \in 1 .. n - i
    <3>1. n - (i + 1) + 1 = n - i /\ i + 1 + j - 1 = i + j
      BY <1>0
    <3> QED
      BY <2>3, <3>1
  <2> HIDE DEF b
  <2> QED
    BY <2>2, <2>3, <2>4, <1>0
<1>3. /\ r \in Seq(S) /\ Len(r) = n - 1
      /\ \A j \in 1 .. n - 1 : r[j] = IF j < i THEN c[j] ELSE c[j + 1]
  <2> HIDE DEF a, b, n
  <2>1. r \in Seq(S) /\ Len(r) = Len(a) + Len(b)
    BY <1>1, <1>2, ConcatProperties
  <2>2. \A j \in 1 .. Len(a) + Len(b) : r[j] = IF j <= Len(a) THEN a[j] ELSE b[j - Len(a)]
    BY <1>1, <1>2, ConcatProperties
  <2> HIDE DEF r
  <2>3. Len(r) = n - 1
    BY <2>1, <1>0, <1>1, <1>2
  <2>4. ASSUME NEW j \in 1 .. n - 1 PROVE r[j] = IF j < i THEN c[j] ELSE c[j + 1]
    <3>1. r[j] = IF j <= i - 1 THEN a[j] ELSE b[j - (i - 1)]
      BY <2>2, <1>0, <1>1, <1>2
    <3>2. CASE j < i
      BY <3>1, <3>2, <1>0, <1>1
    <3>3. CASE ~(j < i)
      <4>1. j - (i - 1) \in 1 .. n - i /\ i + (j - (i - 1)) = j + 1
        BY <3>3, <1>0
      <4> QED
        BY <4>1, <3>1, <3>3, <1>0, <1>2
    <3> QED
      BY <3>2, <3>3
  <2> QED
    BY <2>1, <2>3, <2>4
<1>4. /\ d \in Seq(S) /\ Len(d) = n
      /\ \A j \in 1 .. n : d[j] = IF j < i THEN c[j] ELSE IF j = n THEN c[i] ELSE c[j + 1]
  <2> HIDE DEF r, n
  <2>1. d \in Seq(S) /\ Len(d) = Len(r) + 1
    BY <1>0, <1>3, AppendProperties
  <2>2. \A j \in 1 .. Len(r) : d[j] = r[j]
    BY <1>0, <1>3, AppendProperties
  <2>3. d[Len(r) + 1] = c[i]
    BY <1>0, <1>3, AppendProperties
  <2> HIDE DEF d
  <2>4. Len(r) + 1 = n
    BY <1>0, <1>3
  <2>5. ASSUME NEW j \in 1 .. n
        PROVE  d[j] = IF j < i THEN c[j] ELSE IF j = n THEN c[i] ELSE c[j + 1]
    <3>1. CASE j = n
      BY <3>1, <2>3, <2>4, <1>0
    <3>2. CASE j # n
      <4>1. j \in 1 .. n - 1
        BY <3>2, <1>0
      <4> QED
        BY <4>1, <3>2, <2>2, <1>3, <1>0
    <3> QED
      BY <3>1, <3>2
  <2> QED
    BY <2>1, <2>4, <2>5
<1>5. Distinct(d)
  <2> SUFFICES ASSUME NEW j \in 1 .. n, NEW k \in 1 .. n, d[j].snap = d[k].snap
               PROVE  j = k
    BY <1>4 DEF Distinct
  <2> DEFINE at(m) == IF m < i THEN m ELSE IF m = n THEN i ELSE m + 1
  <2> HIDE DEF d
  <2>1. at(j) \in 1 .. n /\ at(k) \in 1 .. n
    BY <1>0
  <2>2. d[j] = c[at(j)] /\ d[k] = c[at(k)]
    BY <1>0, <1>4
  <2>3. at(j) = at(k)
    <3> HIDE DEF at
    <3> QED
      BY <2>1, <2>2 DEF Distinct
  <2> QED
    BY <2>3, <1>0
<1> QED
  BY <1>4, <1>5 DEF RemoveAt

\* So does an entry that is set, at its place or at the end.
LEMMA KeySet ==
    ASSUME NEW S, NEW c \in Seq(S), NEW v \in S, Distinct(c)
    PROVE  /\ SetKey(c, v) \in Seq(S) /\ Distinct(SetKey(c, v))
           /\ Len(SetKey(c, v)) <= Len(c) + 1
<1>0. /\ Len(c) \in Nat /\ DOMAIN c = 1 .. Len(c)
      /\ \A j \in 1 .. Len(c) : c[j] \in S
  BY LenProperties, ElementOfSeq
<1>1. CASE \E i \in DOMAIN c : c[i].snap = v.snap
  <2> DEFINE d == [i \in DOMAIN c |-> IF c[i].snap = v.snap THEN v ELSE c[i]]
  <2>1. SetKey(c, v) = d
    BY <1>1 DEF SetKey
  <2>2. d \in [1 .. Len(c) -> S]
    BY <1>0
  <2>3. d \in Seq(S) /\ Len(d) = Len(c)
    <3> HIDE DEF d
    <3> QED
      BY <2>2, <1>0
  <2>4. \A i \in 1 .. Len(c) : d[i].snap = c[i].snap
    BY <1>0
  <2> HIDE DEF d
  <2>5. Distinct(d)
    BY <2>3, <2>4 DEF Distinct
  <2>6. Len(d) <= Len(c) + 1
    BY <2>3, <1>0
  <2> QED
    BY <2>1, <2>3, <2>5, <2>6
<1>2. CASE ~\E i \in DOMAIN c : c[i].snap = v.snap
  <2> DEFINE d == Append(c, v)
  <2>1. SetKey(c, v) = d
    BY <1>2 DEF SetKey
  <2>2. /\ d \in Seq(S) /\ Len(d) = Len(c) + 1 /\ d[Len(c) + 1] = v
        /\ \A i \in 1 .. Len(c) : d[i] = c[i]
    BY AppendProperties
  <2> HIDE DEF d
  <2>3. Distinct(d)
    <3> SUFFICES ASSUME NEW j \in 1 .. Len(c) + 1, NEW k \in 1 .. Len(c) + 1,
                        d[j].snap = d[k].snap
                 PROVE  j = k
      BY <2>2 DEF Distinct
    <3>1. CASE j \in 1 .. Len(c) /\ k \in 1 .. Len(c)
      BY <3>1, <2>2 DEF Distinct
    <3>2. CASE j = Len(c) + 1 /\ k \in 1 .. Len(c)
      BY <3>2, <2>2, <1>0, <1>2
    <3>3. CASE k = Len(c) + 1 /\ j \in 1 .. Len(c)
      BY <3>3, <2>2, <1>0, <1>2
    <3> QED
      BY <3>1, <3>2, <3>3, <1>0
  <2>4. Len(d) <= Len(c) + 1
    BY <2>2, <1>0
  <2> QED
    BY <2>1, <2>2, <2>3, <2>4
<1> QED
  BY <1>1, <1>2

\* So does the eviction, after which the cache is within its size.
LEMMA FittedCache ==
    ASSUME NEW S, NEW c \in Seq(S), Distinct(c)
    PROVE  /\ Fitted(c) \in Seq(S) /\ Distinct(Fitted(c))
           /\ Len(Fitted(c)) <= CacheMax
<1>0. /\ Len(c) \in Nat /\ CacheMax \in Nat \ {0}
      /\ \A j \in 1 .. Len(c) : c[j] \in S
  BY LenProperties, ElementOfSeq, ReadPathAssumption
<1>1. CASE Len(c) > CacheMax
  <2> DEFINE m == 1 + Len(c) - CacheMax
             d == SubSeq(c, m, Len(c))
  <2>0. m \in 1 .. Len(c)
    BY <1>0, <1>1
  <2>1. \A j \in m .. Len(c) : c[j] \in S
    BY <2>0, <1>0
  <2>2. /\ d \in Seq(S) /\ Len(d) = IF m <= Len(c) THEN Len(c) - m + 1 ELSE 0
        /\ \A j \in 1 .. Len(c) - m + 1 : d[j] = c[m + j - 1]
    <3> HIDE DEF m
    <3> QED
      BY <2>0, <2>1, <1>0, SubSeqProperties
  <2>3. Fitted(c) = d
    BY <1>1 DEF Fitted, Evict
  <2> HIDE DEF d
  <2>4. Len(d) = CacheMax /\ Len(c) - m + 1 = CacheMax
    BY <2>2, <2>0, <1>0
  <2>5. Distinct(d)
    <3> SUFFICES ASSUME NEW j \in 1 .. CacheMax, NEW k \in 1 .. CacheMax, d[j].snap = d[k].snap
                 PROVE  j = k
      BY <2>4 DEF Distinct
    <3>1. d[j] = c[m + j - 1] /\ d[k] = c[m + k - 1]
      BY <2>2, <2>4
    <3>2. m + j - 1 \in 1 .. Len(c) /\ m + k - 1 \in 1 .. Len(c)
      BY <1>0, <1>1
    <3>3. m + j - 1 = m + k - 1
      <4> HIDE DEF m
      <4> QED
        BY <3>1, <3>2 DEF Distinct
    <3> QED
      BY <3>3, <2>0, <1>0
  <2>6. Len(d) <= CacheMax
    BY <2>4, <1>0
  <2> QED
    BY <2>2, <2>3, <2>5, <2>6
<1>2. CASE ~(Len(c) > CacheMax)
  BY <1>0, <1>2 DEF Fitted
<1> QED
  BY <1>1, <1>2

(***************************************************************************)
(* The next view of a request is there: what is still to do gets one       *)
(* shorter, what it has one longer.                                        *)
(***************************************************************************)
LEMMA TakeInv ==
    ASSUME ReadInv, Same, NEW t \in Tasks, pc[t] \in {"lookup", "put"},
           NEW v \in Own(t[1]), Take(t, v), view'[t] \in Own(t[1]) \cup {NoView}
    PROVE  /\ TaskInv(t)' /\ pc' \in [Tasks -> PCs]
           /\ Fn(todo, Tasks)' /\ Fn(got, Tasks)'
           /\ \A u \in Tasks \ {t} : pc'[u] = pc[u] /\ todo'[u] = todo[u] /\ got'[u] = got[u]
<1> DEFINE e == [view |-> v, tvl |-> NoTvl]
<1>1. TaskInv(t) /\ Own(t[1])' = Own(t[1]) /\ Gets(t[1])' = Gets(t[1]) /\ snaps' = snaps
  BY SameOwn DEF ReadInv, Same
<1>2. /\ got' = [got EXCEPT ![t] = Append(got[t], e)]
      /\ todo' = [todo EXCEPT ![t] = Tail(todo[t])]
      /\ pc' = [pc EXCEPT ![t] = IF Len(todo[t]) > 1 THEN "lookup"
                                 ELSE IF t[2] = "latest" THEN "enrich" ELSE "answer"]
  BY DEF Take
<1>3. e \in Gets(t[1])
  BY DEF Gets, Tvls
<1> HIDE DEF e
<1>4. pc' \in [Tasks -> PCs]
  BY <1>2 DEF ReadInv, Base, PCs
<1>5. Fn(todo, Tasks)' /\ Fn(got, Tasks)'
  BY <1>2 DEF ReadInv, Maps, Fn
<1>6. \A u \in Tasks \ {t} : pc'[u] = pc[u] /\ todo'[u] = todo[u] /\ got'[u] = got[u]
  BY <1>2 DEF ReadInv, Base, Maps, Fn
<1>7. /\ todo'[t] = Tail(todo[t]) /\ got'[t] = Append(got[t], e)
      /\ pc'[t] = IF Len(todo[t]) > 1 THEN "lookup"
                  ELSE IF t[2] = "latest" THEN "enrich" ELSE "answer"
  BY <1>2 DEF ReadInv, Base, Maps, Fn
<1>8. /\ todo[t] \in Seq(1 .. snaps) /\ todo[t] # <<>>
      /\ got[t] \in Seq(Gets(t[1])) /\ Len(todo[t]) + Len(got[t]) <= 2
      /\ t[2] \in Requests
  BY <1>1 DEF TaskInv
<1>9. Tail(todo[t]) \in Seq(1 .. snaps) /\ Len(Tail(todo[t])) = Len(todo[t]) - 1
  BY <1>8, HeadTailProperties
<1>10. /\ Append(got[t], e) \in Seq(Gets(t[1]))
       /\ Len(Append(got[t], e)) = Len(got[t]) + 1
  BY <1>3, <1>8, AppendProperties
<1>11. Len(todo[t]) \in Nat \ {0} /\ Len(got[t]) \in Nat
  BY <1>8, EmptySeq, LenProperties
<1>12. Len(todo'[t]) + Len(got'[t]) <= 2
  <2>1. \A a, b \in Nat : a + b <= 2 => a - 1 + (b + 1) <= 2
    OBVIOUS
  <2> QED
    BY <2>1, <1>7, <1>8, <1>9, <1>10, <1>11
<1>13. got'[t] # <<>>
  <2>1. Len(got'[t]) # 0
    BY <1>7, <1>10, <1>11
  <2> QED
    BY <2>1, EmptySeq
<1>14. pc'[t] = "lookup" => todo'[t] # <<>>
  <2>1. ASSUME Len(todo[t]) > 1 PROVE Len(todo'[t]) # 0
    <3>1. \A n \in Nat \ {0} : n > 1 => n - 1 # 0
      OBVIOUS
    <3>2. Len(todo'[t]) = Len(todo[t]) - 1
      BY <1>7, <1>9
    <3> QED
      BY <2>1, <3>1, <3>2, <1>11
  <2>2. Len(<<>>) = 0
    OBVIOUS
  <2> QED
    BY <2>1, <2>2, <1>7
<1>15. pc'[t] \in {"lookup", "enrich", "answer"}
  BY <1>7
<1>16. TaskInv(t)'
  <2>1. todo'[t] \in Seq(1 .. snaps') /\ got'[t] \in Seq(Gets(t[1])')
    BY <1>1, <1>7, <1>9, <1>10
  <2> QED
    BY <2>1, <1>1, <1>8, <1>12, <1>13, <1>14, <1>15 DEF TaskInv
<1> QED
  BY <1>4, <1>5, <1>6, <1>16

\* The cache has the view.
LEMMA HitInv ==
    ASSUME ReadInv, NEW t \in Tasks, Hit(t)
    PROVE  ReadInv'
<1>0. PICK i \in DOMAIN cache[t[1]] :
        /\ cache' = [cache EXCEPT ![t[1]] = Append(RemoveAt(@, i), @[i])]
        /\ Take(t, cache[t[1]][i])
  BY DEF Hit
<1> DEFINE v == cache[t[1]][i]
<1>1. /\ pc[t] = "lookup" /\ v \in Own(t[1]) /\ Take(t, v)
      /\ cache' = [cache EXCEPT ![t[1]] = Append(RemoveAt(cache[t[1]], i), cache[t[1]][i])]
      /\ UNCHANGED <<snaps, captured, stored, boots, asks, registry, persisted, llama, view>>
  <2>1. cache[t[1]] \in Seq(Own(t[1]))
    BY TaskProc DEF ReadInv, CacheInv
  <2>2. v \in Own(t[1])
    BY <2>1, LenProperties, ElementOfSeq
  <2> QED
    BY <2>2, <1>0 DEF Hit
<1> HIDE DEF v
<1>2. Same
  BY <1>1 DEF Same
<1>3. view'[t] \in Own(t[1]) \cup {NoView} /\ (\A u \in Tasks \ {t} : view'[u] = view[u]) /\ Fn(view, Tasks)'
  BY <1>1 DEF ReadInv, TaskInv, Maps, Fn
<1>4. /\ TaskInv(t)' /\ pc' \in [Tasks -> PCs]
      /\ Fn(todo, Tasks)' /\ Fn(got, Tasks)'
      /\ \A u \in Tasks \ {t} : pc'[u] = pc[u] /\ todo'[u] = todo[u] /\ got'[u] = got[u]
  BY <1>1, <1>2, <1>3, TakeInv
<1>5. Maps'
  <2>1. Fn(cache, Procs)'
    BY <1>1 DEF ReadInv, Maps, Fn
  <2> QED
    BY <2>1, <1>3, <1>4 DEF Maps
<1>6. \A q \in Procs : CacheInv(q)'
  <2> TAKE q \in Procs
  <2>1. CASE q = t[1]
    <3> DEFINE c == cache[q]
               d == Append(RemoveAt(c, i), c[i])
    <3>1. cache'[q] = d
      BY <2>1, <1>1 DEF ReadInv, Maps, Fn
    <3>2. c \in Seq(Own(q)) /\ Len(c) <= CacheMax /\ Distinct(c)
      BY DEF ReadInv, CacheInv, Distinct
    <3>3. d \in Seq(Own(q)) /\ Len(d) <= CacheMax /\ Distinct(d)
      <4>1. i \in 1 .. Len(c)
        BY <2>1, <1>0, <3>2, LenProperties
      <4> QED
        BY <4>1, <3>2, MovedToEnd
    <3>4. Own(q)' = Own(q)
      BY <1>2, SameOwn
    <3> HIDE DEF d
    <3> QED
      BY <3>1, <3>3, <3>4 DEF CacheInv, Distinct
  <2>2. CASE q # t[1]
    <3>1. cache'[q] = cache[q]
      BY <2>2, <1>1 DEF ReadInv, Maps, Fn
    <3> QED
      BY <3>1, <1>2, SameOwn, CacheKept DEF ReadInv
  <2> QED
    BY <2>1, <2>2
<1>7. PersistedInv'
  BY <1>1, <1>2, SharedKept
<1> QED
  BY <1>1, <1>2, <1>3, <1>4, <1>5, <1>6, <1>7, TaskStep DEF ReadInv, Base

\* A view is put in the cache.
LEMMA PutInv ==
    ASSUME ReadInv, NEW t \in Tasks, Put(t)
    PROVE  ReadInv'
<1>1. /\ pc[t] = "put" /\ view[t] \in Own(t[1]) /\ Take(t, view[t])
      /\ cache' = [cache EXCEPT ![t[1]] = Fitted(SetKey(cache[t[1]], view[t]))]
      /\ view' = [view EXCEPT ![t] = NoView]
      /\ UNCHANGED <<snaps, captured, stored, boots, asks, registry, persisted, llama>>
  BY DEF Put, ReadInv, TaskInv
<1>2. Same
  BY <1>1 DEF Same
<1>3. view'[t] \in Own(t[1]) \cup {NoView} /\ (\A u \in Tasks \ {t} : view'[u] = view[u]) /\ Fn(view, Tasks)'
  BY <1>1 DEF ReadInv, TaskInv, Maps, Fn
<1>4. /\ TaskInv(t)' /\ pc' \in [Tasks -> PCs]
      /\ Fn(todo, Tasks)' /\ Fn(got, Tasks)'
      /\ \A u \in Tasks \ {t} : pc'[u] = pc[u] /\ todo'[u] = todo[u] /\ got'[u] = got[u]
  BY <1>1, <1>2, <1>3, TakeInv
<1>5. Maps'
  <2>1. Fn(cache, Procs)'
    BY <1>1 DEF ReadInv, Maps, Fn
  <2> QED
    BY <2>1, <1>3, <1>4 DEF Maps
<1>6. \A q \in Procs : CacheInv(q)'
  <2> TAKE q \in Procs
  <2>1. CASE q = t[1]
    <3> DEFINE c == cache[q]
               d == Fitted(SetKey(c, view[t]))
    <3>1. cache'[q] = d
      BY <2>1, <1>1 DEF ReadInv, Maps, Fn
    <3>2. c \in Seq(Own(q)) /\ Len(c) <= CacheMax /\ Distinct(c)
      BY DEF ReadInv, CacheInv, Distinct
    <3>3. d \in Seq(Own(q)) /\ Len(d) <= CacheMax /\ Distinct(d)
      <4>1. view[t] \in Own(q)
        BY <2>1, <1>1
      <4>2. SetKey(c, view[t]) \in Seq(Own(q)) /\ Distinct(SetKey(c, view[t]))
        BY <4>1, <3>2, KeySet
      <4> QED
        BY <4>2, FittedCache
    <3>4. Own(q)' = Own(q)
      BY <1>2, SameOwn
    <3> HIDE DEF d
    <3> QED
      BY <3>1, <3>3, <3>4 DEF CacheInv, Distinct
  <2>2. CASE q # t[1]
    <3>1. cache'[q] = cache[q]
      BY <2>2, <1>1 DEF ReadInv, Maps, Fn
    <3> QED
      BY <3>1, <1>2, SameOwn, CacheKept DEF ReadInv
  <2> QED
    BY <2>1, <2>2
<1>7. PersistedInv'
  BY <1>1, <1>2, SharedKept
<1> QED
  BY <1>1, <1>2, <1>3, <1>4, <1>5, <1>6, <1>7, TaskStep DEF ReadInv, Base

-----------------------------------------------------------------------------
\* Every step keeps the invariant.
LEMMA NextInv == ReadInv /\ [Next]_vars => ReadInv'
<1> SUFFICES ASSUME ReadInv, [Next]_vars PROVE ReadInv'
  OBVIOUS
<1>1. CASE StoreSender
  BY <1>1, StoreSenderInv
<1>2. ASSUME NEW p \in Procs, Process(p) PROVE ReadInv'
  BY <1>2, BootInv, PublishInv, CaptureSkipsInv, InvalidateInv, HealFindInv, HealCheckInv,
     HealFailsInv, AskLatestInv, AskGrowthInv DEF Process, Heal
<1>3. ASSUME NEW t \in Tasks, Task(t) PROVE ReadInv'
  BY <1>3, ClassifyInv, PersistInv, HitInv, MissInv, LoadInv, PutInv, RequestFailsInv,
     EnrichCachedInv, EnrichFetchedInv, EnrichFailsInv, AnswerInv DEF Task
<1>4. CASE UNCHANGED vars
  <2>1. Sure' = Sure /\ \A p : Own(p)' = Own(p) /\ Gets(p)' = Gets(p)
    BY <1>4, SameOwn DEF Same, vars
  <2>2. Base' /\ Maps' /\ PersistedInv'
    BY <2>1, <1>4 DEF ReadInv, Base, Maps, Fn, PersistedInv, vars
  <2>3. \A p \in Procs : CacheInv(p)'
    BY <2>1, <1>4, CacheKept DEF ReadInv, vars
  <2>4. \A t \in Tasks : TaskInv(t)'
    <3>1. snaps \in Nat
      BY ReadPathAssumption DEF ReadInv, Base
    <3> QED
      BY <3>1, <2>1, <1>4, TaskKept DEF ReadInv, vars
  <2> QED
    BY <2>2, <2>3, <2>4 DEF ReadInv
<1> QED
  BY <1>1, <1>2, <1>3, <1>4 DEF Next

\* So it holds throughout a run.
LEMMA AlwaysInv == Spec => []ReadInv
BY InitInv, NextInv, PTL DEF Spec

(***************************************************************************)
(* The state is well-formed: one persisted view and one cache entry per    *)
(* snapshot, and a cache that never outgrows its size.                     *)
(***************************************************************************)
THEOREM TypeCorrect == Spec => []TypeOK
<1>1. ReadInv => TypeOK
  <2> SUFFICES ASSUME ReadInv PROVE TypeOK
    OBVIOUS
  <2>1. captured \in [1 .. snaps -> 0 .. stored]
    BY LenProperties DEF ReadInv, Base
  <2>2. persisted \subseteq Views /\ \A v, w \in persisted : v.snap = w.snap => v = w
    BY DEF ReadInv, PersistedInv, Sure
  <2>3. ASSUME NEW p \in Procs
        PROVE  /\ Len(cache[p]) <= CacheMax
               /\ \A i \in DOMAIN cache[p] : cache[p][i] \in Views
               /\ \A i, j \in DOMAIN cache[p] : cache[p][i].snap = cache[p][j].snap => i = j
    <3>1. CacheInv(p) /\ DOMAIN cache[p] = 1 .. Len(cache[p])
      BY LenProperties DEF ReadInv, CacheInv
    <3>2. \A i \in 1 .. Len(cache[p]) : cache[p][i] \in Own(p)
      BY <3>1, ElementOfSeq DEF CacheInv
    <3> QED
      BY <3>1, <3>2 DEF CacheInv, Own, Sure
  <2>4. ASSUME NEW t \in Tasks
        PROVE  /\ view[t] \in Views \cup {NoView}
               /\ Len(todo[t]) <= 2 /\ \A i \in DOMAIN todo[t] : todo[t][i] \in Snaps
               /\ Len(got[t]) <= 2 /\ \A i \in DOMAIN got[t] : got[t][i].view \in Views
    <3>1. TaskInv(t)
      BY DEF ReadInv
    <3>2. Len(todo[t]) \in Nat /\ Len(got[t]) \in Nat
      BY <3>1, LenProperties DEF TaskInv
    <3>3. Len(todo[t]) <= 2 /\ Len(got[t]) <= 2
      BY <3>1, <3>2, SumBound DEF TaskInv
    <3>4. \A i \in DOMAIN todo[t] : todo[t][i] \in Snaps
      <4>1. \A i \in DOMAIN todo[t] : todo[t][i] \in 1 .. snaps
        BY <3>1, LenProperties, ElementOfSeq DEF TaskInv
      <4>2. 1 .. snaps \subseteq Snaps
        BY ReadPathAssumption DEF ReadInv, Base, Snaps
      <4> QED
        BY <4>1, <4>2
    <3>5. \A i \in DOMAIN got[t] : got[t][i].view \in Views
      <4>1. \A i \in DOMAIN got[t] : got[t][i] \in Gets(t[1])
        BY <3>1, LenProperties, ElementOfSeq DEF TaskInv
      <4> QED
        BY <4>1 DEF Gets, Own, Sure
    <3>6. view[t] \in Views \cup {NoView}
      BY <3>1 DEF TaskInv, Own, Sure
    <3> QED
      BY <3>3, <3>4, <3>5, <3>6
  <2> QED
    BY <2>1, <2>2, <2>3, <2>4 DEF TypeOK, ReadInv, Base
<1> QED
  BY <1>1, AlwaysInv, PTL

(***************************************************************************)
(* No answer holds a view of another registry, whatever other processes    *)
(* persist, nor one that knows of fewer senders than its snapshot.         *)
(***************************************************************************)
THEOREM OwnViewsOnly == Spec => []AnswerOwn
<1>1. ReadInv => AnswerOwn
  <2> SUFFICES ASSUME ReadInv, NEW t \in Tasks, NEW i \in DOMAIN got[t]
               PROVE  /\ got[t][i].view.registry = registry[t[1]]
                      /\ captured[got[t][i].view.snap] <= got[t][i].view.senders
    BY DEF AnswerOwn
  <2>1. got[t][i] \in Gets(t[1])
    <3>1. got[t] \in Seq(Gets(t[1]))
      BY DEF ReadInv, TaskInv
    <3> QED
      BY <3>1, LenProperties, ElementOfSeq
  <2> QED
    BY <2>1 DEF Gets, Own, Sure
<1> QED
  BY <1>1, AlwaysInv, PTL

(***************************************************************************)
(* However rows and protocols match, a value of DefiLlama is on one row of *)
(* an answer, and the rows that share it name an active one that has it.   *)
(***************************************************************************)
THEOREM ValueOnce == Spec => []TvlCountedOnce
<1>1. ReadInv => TvlCountedOnce
  <2> SUFFICES ASSUME ReadInv, NEW t \in Tasks, pc[t] = "answer"
               PROVE  TvlOnce(got[t][1].tvl)
    BY DEF TvlCountedOnce, TvlOnce
  <2>1. got[t] \in Seq(Gets(t[1])) /\ got[t] # <<>>
    BY DEF ReadInv, TaskInv
  <2>2. got[t][1] \in Gets(t[1])
    BY <2>1, EmptySeq, ElementOfSeq
  <2> QED
    BY <2>2, EnrichedOnce DEF Gets
<1> QED
  BY <1>1, AlwaysInv, PTL

(***************************************************************************)
(* A self-heal that ends without failing leaves the snapshot it found with *)
(* a view of its process's registry.                                       *)
(***************************************************************************)
THEOREM LatestHealed == Spec => HealsLatest
<1> DEFINE Healed == \A p \in Procs :
        LET t == <<p, "heal">> IN
        t \in Tasks /\ boots' = boots =>
            (pc[t] \in {"check", "persist"} /\ pc'[t] = "idle" =>
                \E v \in persisted' : v.snap = todo[t][1] /\ v.registry = registry[p])
<1>1. ReadInv /\ [Next]_vars => Healed
  <2> SUFFICES ASSUME ReadInv, [Next]_vars, NEW p \in Procs, <<p, "heal">> \in Tasks, boots' = boots,
                      pc[<<p, "heal">>] \in {"check", "persist"}, pc'[<<p, "heal">>] = "idle"
               PROVE  \E v \in persisted' : v.snap = todo[<<p, "heal">>][1] /\ v.registry = registry[p]
    OBVIOUS
  <2> DEFINE t == <<p, "heal">>
  <2>0. pc \in [Tasks -> PCs] /\ t \in Tasks /\ pc'[t] # pc[t] /\ t[1] = p /\ t[2] = "heal"
    BY DEF ReadInv, Base
  <2>a. pc[t] \in {"check", "persist"} /\ pc'[t] = "idle"
    OBVIOUS
  <2> HIDE DEF t
  <2>1. CASE HealCheck(p)
    <3>1. Current(p, todo[t][1]) # {} /\ persisted' = persisted
      BY <2>0, <2>a, <2>1 DEF HealCheck, At, t
    <3> QED
      BY <3>1 DEF Current, t
  <2>2. CASE Persist(t)
    <3>1. view[t] \in persisted' /\ pc[t] = "persist"
      BY <2>2 DEF Persist, At
    <3>2. view[t].snap = todo[t][1] /\ view[t].registry = registry[p]
      BY <3>1, <2>0 DEF ReadInv, TaskInv, Own
    <3> QED
      BY <3>1, <3>2 DEF t
  <2>3. HealCheck(p) \/ Persist(t)
    <3>1. ASSUME NEW q \in Procs, Process(q) PROVE HealCheck(p)
      <4>1. CASE \E r \in Registries : Boot(q, r)
        <5>1. boots'[q] = boots[q] + 1 /\ boots[q] \in Nat
          BY <4>1, ReadPathAssumption DEF Boot, ReadInv, Base
        <5> QED
          BY <5>1
      <4>2. CASE Publish(q) \/ CaptureSkips(q) \/ Invalidate(q) \/ AskLatest(q) \/ AskGrowth(q)
        <5>1. \E slot \in {"capture", "latest", "growth"} : pc'[t] = pc[t]
          BY <4>2, <2>0 DEF Publish, CaptureSkips, Invalidate, AskLatest, AskGrowth, At, t
        <5> QED
          BY <5>1, <2>0
      <4>3. CASE HealFind(q)
        BY <4>3, <2>0, <2>a DEF HealFind, At, t
      <4>4. CASE HealFails(q)
        BY <4>4, <2>0, <2>a DEF HealFails, t
      <4>5. CASE HealCheck(q)
        <5>1. CASE q = p
          BY <4>5, <5>1
        <5>2. CASE q # p
          BY <4>5, <5>2, <2>0 DEF HealCheck, At, t
        <5> QED
          BY <5>1, <5>2
      <4> QED
        BY <3>1, <4>1, <4>2, <4>3, <4>4, <4>5 DEF Process, Heal
    <3>2. ASSUME NEW u \in Tasks, Task(u) PROVE Persist(t)
      <4>1. CASE u = t
        <5>1. pc[t] # "classify" /\ pc[t] # "lookup" /\ pc[t] # "load" /\ pc[t] # "put"
              /\ pc[t] # "enrich" /\ pc[t] # "answer" /\ t[2] \notin Requests
          BY <2>0, <2>a DEF Requests
        <5> QED
          BY <3>2, <4>1, <5>1 DEF Task, Classify, Hit, Miss, Load, Put, RequestFails,
             EnrichCached, EnrichFetched, EnrichFails, Answer, At
      <4>2. CASE u # t
        BY <3>2, <4>2, <2>0 DEF Task, Classify, Persist, Hit, Miss, Load, Put, RequestFails, Take,
           EnrichCached, EnrichFetched, EnrichFails, Answer, At
      <4> QED
        BY <4>1, <4>2
    <3>3. CASE StoreSender \/ UNCHANGED vars
      BY <3>3, <2>0 DEF StoreSender, vars
    <3> QED
      BY <3>1, <3>2, <3>3 DEF Next
  <2> QED
    BY <2>1, <2>2, <2>3
<1>2. ReadInv /\ [Next]_vars => [Healed]_vars
  BY <1>1
<1> HIDE DEF Healed
<1>3. Spec => [][Healed]_vars
  BY <1>2, AlwaysInv, PTL DEF Spec
<1> QED
  BY <1>3 DEF HealsLatest, Healed


-----------------------------------------------------------------------------
(* The activity chart. *)

(***************************************************************************)
(* The activity chart of a project (ActivityWindow), another endpoint.     *)
(*                                                                         *)
(* The inductive invariant.  A chain is sorted by day; its read goes down  *)
(* from the newest event there was when its first request ended, and is at *)
(* the start only when it has reached the oldest one that the indexer held *)
(* then, which is not newer than the oldest it holds now.  The snapshot is *)
(* not newer than any of these requests: its count is at most that of the  *)
(* events there were, for each chain, when its first request ended, or     *)
(* that there are while it has not ended.                                  *)
(***************************************************************************)
Begun(c) == fetch[c].pages > 0 \/ fetch[c].status \in {"blank", "cut"}

Counted ==
    {e \in Events(All) :
        e[1] \in Probed /\ Begun(e[1]) => e[2] <= fetch[e[1]].top}

ReadOf(c) ==
    /\ fetch[c].top <= Length(c)
    /\ fetch[c].status = "start" => fetch[c].pages > 0 /\ fetch[c].low <= floor[c] + 1
    /\ fetch[c].status = "reading" => fetch[c].pages < MaxPages
    /\ fetch[c].status = "waiting" => fetch[c].pages = 0

Chains ==
    /\ DOMAIN chain \in {1 .. n : n \in 1 .. MaxChains}
    /\ \A c \in All : chain[c] \in Histories

Floors == floor \in [Probed -> 0 .. MaxLength] /\ \A c \in Probed : floor[c] <= Length(c)

PastDays == \A c \in All : \A i \in 1 .. Length(c) : chain[c][i] <= today

ChartInv ==
    /\ ChartTypeOK
    /\ PastDays
    /\ \A c \in Probed : ReadOf(c)
    /\ lifetime <= Cardinality(Counted)

(***************************************************************************)
(* What the type of a chain says of its length and of its events.          *)
(***************************************************************************)
LEMMA ChainFacts ==
    ASSUME Chains
    PROVE  /\ \A c \in All :
                /\ Length(c) \in 0 .. MaxLength
                /\ chain[c] \in [1 .. Length(c) -> Days]
                /\ \A i, j \in 1 .. Length(c) : i <= j => chain[c][i] <= chain[c][j]
           /\ Probed \subseteq All
           /\ \E n \in 1 .. MaxChains : DOMAIN chain = 1 .. n
           /\ IsFiniteSet(All)
<1>1. PICK n \in 1 .. MaxChains : DOMAIN chain = 1 .. n
  BY DEF Chains
<1>2. IsFiniteSet(1 .. n)
  BY <1>1, FS_Interval
<1>3. ASSUME NEW c \in All
      PROVE  /\ Length(c) \in 0 .. MaxLength
             /\ chain[c] \in [1 .. Length(c) -> Days]
             /\ \A i, j \in 1 .. Length(c) : i <= j => chain[c][i] <= chain[c][j]
  <2>1. PICK m \in 0 .. MaxLength : chain[c] \in [1 .. m -> Days]
    BY DEF Chains, Histories
  <2>2. \A i, j \in DOMAIN chain[c] : i <= j => chain[c][i] <= chain[c][j]
    BY DEF Chains, Histories
  <2>3. m \in Nat /\ Len(chain[c]) = m /\ DOMAIN chain[c] = 1 .. m
    BY <2>1, ActivityAssumption
  <2> QED BY <2>1, <2>2, <2>3 DEF Length
<1>4. Probed \subseteq All
  BY DEF Probed
<1> QED BY <1>1, <1>2, <1>3, <1>4 DEF All

(***************************************************************************)
(* There are finitely many events.                                         *)
(***************************************************************************)
LEMMA EventsFinite ==
    Chains =>
        \A S \in SUBSET Events(All) : IsFiniteSet(S) /\ Cardinality(S) \in Nat
<1> SUFFICES ASSUME Chains, NEW S \in SUBSET Events(All)
             PROVE  IsFiniteSet(S) /\ Cardinality(S) \in Nat
  OBVIOUS
<1>1. IsFiniteSet(1 .. MaxLength)
  BY FS_Interval, ActivityAssumption
<1>2. IsFiniteSet(All \X (1 .. MaxLength))
  BY <1>1, ChainFacts, FS_Product
<1>3. S \subseteq All \X (1 .. MaxLength)
  BY DEF Events
<1> QED BY <1>2, <1>3, FS_Subset, FS_CardinalityType

(***************************************************************************)
(* A bounded set of numbers has a greatest one.                            *)
(***************************************************************************)
LEMMA Greatest ==
    ASSUME NEW n \in Nat, NEW S, S \subseteq 0 .. n, S # {}
    PROVE  Max(S) \in S /\ \A x \in S : x <= Max(S)
<1> DEFINE T == {1 .. n - x : x \in S}
<1>1. T \subseteq SUBSET (1 .. n) /\ T # {} /\ IsFiniteSet(1 .. n)
  <2>1. \A x \in S : x \in Int /\ 1 .. n - x \subseteq 1 .. n
    OBVIOUS
  <2>2. IsFiniteSet(1 .. n)
    BY FS_Interval
  <2> QED BY <2>1, <2>2
<1>2. PICK t \in T : \A u \in T : <<u, t>> \notin StrictSubsetOrdering(1 .. n)
  <2>1. T \subseteq FiniteSubsetsOf(1 .. n)
    BY <1>1, FS_FiniteSubsetsOfFinite
  <2> HIDE DEF T
  <2> QED BY <1>1, <2>1, FS_StrictSubsetOrderingWellFounded, WFMin
<1>3. PICK m \in S : t = 1 .. n - m
  OBVIOUS
<1>4. ASSUME NEW x \in S, m < x PROVE FALSE
  <2>1. /\ 1 .. n - x \subseteq 1 .. n - m /\ n - m \in 1 .. n - m /\ n - m \notin 1 .. n - x
        /\ 1 .. n - m \subseteq 1 .. n
    BY <1>4
  <2>2. <<1 .. n - x, 1 .. n - m>> \in StrictSubsetOrdering(1 .. n)
    BY <2>1 DEF StrictSubsetOrdering
  <2> QED BY <1>2, <1>3, <2>2
<1>5. \A x \in S : m >= x
  BY <1>4
<1> QED BY <1>5 DEF Max

(***************************************************************************)
(* The chains of a typed state are typed, and so is what is pruned.        *)
(***************************************************************************)
LEMMA TypedChains == ChartInv => Chains /\ Floors
BY DEF ChartInv, ChartTypeOK, Chains, Floors

(***************************************************************************)
(* The count of the snapshot stays below that of the events, as they       *)
(* become more.                                                            *)
(***************************************************************************)
LEMMA CountKept ==
    ASSUME ChartInv, Chains', lifetime' = lifetime,
           Counted \subseteq Counted'
    PROVE  (lifetime <= Cardinality(Counted))'
<1>1. PICK A, B : A = Counted /\ B = Counted'
  OBVIOUS
<1>2. IsFiniteSet(A) /\ Cardinality(A) \in Nat
  BY <1>1, EventsFinite, TypedChains DEF Counted
<1>3. IsFiniteSet(B) /\ Cardinality(B) \in Nat
  <2>2. (\A S \in SUBSET Events(All) : IsFiniteSet(S) /\ Cardinality(S) \in Nat)'
    BY EventsFinite, PTL
  <2>3. Counted' \in (SUBSET Events(All))'
    BY DEF Counted
  <2> QED BY <1>1, <2>2, <2>3
<1>4. Cardinality(A) <= Cardinality(B)
  BY <1>1, <1>3, FS_Subset
<1>5. lifetime \in Nat /\ lifetime <= Cardinality(A)
  <2>1. Cardinality(Events(All)) \in Nat
    BY EventsFinite, TypedChains
  <2> QED BY <1>1, <2>1 DEF ChartInv, ChartTypeOK
<1> QED BY <1>1, <1>2, <1>3, <1>4, <1>5

(***************************************************************************)
(* The initial states satisfy the invariant.                               *)
(***************************************************************************)
LEMMA InitChart ==
    ASSUME ChartInit
    PROVE  ChartInv
<1>1. PICK n \in 1 .. MaxChains : chain \in [1 .. n -> Histories]
  BY DEF ChartInit
<1>2. Chains
  BY <1>1 DEF Chains, All
<1>3. PICK E : E = Events(All)
  OBVIOUS
<1>4. IsFiniteSet(E) /\ Cardinality(E) \in Nat
  BY <1>2, <1>3, EventsFinite
<1>5. ASSUME NEW e \in E PROVE DayOf(e) \in Days
  <2>1. e[1] \in All /\ e[2] \in 1 .. Length(e[1])
    BY <1>2, <1>3, ChainFacts, ActivityAssumption DEF Events
  <2> QED BY <1>2, <2>1, ChainFacts DEF DayOf
<1>6. PICK D : D = {1} \cup {DayOf(e) : e \in E}
  OBVIOUS
<1>7. D \subseteq 1 .. MaxDay /\ D # {} /\ MaxDay \in Nat
  BY <1>5, <1>6, ActivityAssumption DEF Days
<1>8. today = Max(D)
  BY <1>3, <1>6 DEF ChartInit
<1>9. today \in D /\ \A x \in D : x <= today
  <2>1. D \subseteq 0 .. MaxDay
    BY <1>7
  <2> QED BY <1>7, <1>8, <2>1, Greatest
<1>10. PastDays
  <2> SUFFICES ASSUME NEW c \in All, NEW i \in 1 .. Length(c)
               PROVE  chain[c][i] <= today
    BY DEF PastDays
  <2>1. <<c, i>> \in E
    BY <1>2, <1>3, ChainFacts, ActivityAssumption DEF Events
  <2>2. DayOf(<<c, i>>) = chain[c][i]
    BY DEF DayOf
  <2> QED BY <1>6, <1>9, <2>1, <2>2
<1>11. \A c \in Probed :
           fetch[c] = [status |-> "waiting", pages |-> 0, low |-> 1, top |-> 0]
  BY DEF ChartInit
<1>12. fetch \in [Probed -> Fetches]
  BY ActivityAssumption DEF ChartInit, Fetches
<1>13. Cardinality(Reading) <= Workers
  <2>1. Reading = {}
    BY <1>11 DEF Reading
  <2> QED BY <2>1, FS_EmptySet, ActivityAssumption
<1>14. ChartTypeOK
  <2>1. today \in Days
    BY <1>7, <1>9 DEF Days
  <2>2. lifetime \in 0 .. Cardinality(Events(All))
    BY DEF ChartInit
  <2>3. Floors
    BY DEF ChartInit, Floors
  <2> QED BY <1>2, <1>12, <1>13, <2>1, <2>2, <2>3 DEF ChartTypeOK, Chains, Floors
<1>15. \A c \in Probed : ReadOf(c)
  BY <1>2, <1>11, ChainFacts DEF ReadOf
<1>16. Counted = E
  BY <1>3, <1>11 DEF Counted, Begun
<1>17. lifetime <= Cardinality(Counted)
  BY <1>3, <1>4, <1>16 DEF ChartInit
<1> QED BY <1>10, <1>14, <1>15, <1>17 DEF ChartInv

(***************************************************************************)
(* An event is emitted: it is of today, and no request counts it that has  *)
(* ended.                                                                  *)
(***************************************************************************)
LEMMA EmitKeeps ==
    ASSUME ChartInv, NEW c \in All, Emit(c)
    PROVE  ChartInv'
<1>1. PICK n : n = Length(c)
  OBVIOUS
<1>2. /\ n < MaxLength /\ chain' = [chain EXCEPT ![c] = Append(@, today)]
      /\ UNCHANGED <<floor, today, lifetime, fetch>>
  BY <1>1 DEF Emit
<1>3. /\ Chains /\ n \in Nat /\ MaxLength \in Nat /\ chain[c] \in [1 .. n -> Days]
      /\ \A i, j \in 1 .. n : i <= j => chain[c][i] <= chain[c][j]
      /\ today \in Days /\ \A i \in 1 .. n : chain[c][i] <= today
  BY <1>1, TypedChains, ChainFacts, ActivityAssumption DEF ChartInv, PastDays, ChartTypeOK
<1>4. PICK h : h = Append(chain[c], today)
  OBVIOUS
<1>5. /\ h \in [1 .. n + 1 -> Days] /\ Len(h) = n + 1
      /\ h[n + 1] = today /\ \A i \in 1 .. n : h[i] = chain[c][i]
  <2>1. chain[c] \in Seq(Days) /\ Len(chain[c]) = n
    BY <1>3
  <2>2. /\ h \in Seq(Days) /\ Len(h) = n + 1
        /\ h[n + 1] = today /\ \A i \in 1 .. n : h[i] = chain[c][i]
    BY <1>3, <1>4, <2>1, AppendProperties
  <2> QED BY <1>3, <2>2
<1>6. \A i, j \in 1 .. n + 1 : i <= j => h[i] <= h[j]
  <2> SUFFICES ASSUME NEW i \in 1 .. n + 1, NEW j \in 1 .. n + 1, i <= j PROVE h[i] <= h[j]
    OBVIOUS
  <2>1. CASE j \in 1 .. n
    BY <1>3, <1>5, <2>1
  <2>2. CASE j = n + 1 /\ i \in 1 .. n
    BY <1>3, <1>5, <2>2
  <2>3. CASE j = n + 1 /\ i = n + 1
    BY <1>3, <1>5, <2>3 DEF Days
  <2> QED BY <1>3, <2>1, <2>2, <2>3
<1>7. h \in Histories
  <2>1. h \in UNION {[1 .. m -> Days] : m \in 0 .. MaxLength}
    BY <1>2, <1>3, <1>5
  <2>2. DOMAIN h = 1 .. n + 1
    BY <1>5
  <2> QED BY <1>6, <2>1, <2>2 DEF Histories
<1>8. /\ DOMAIN chain' = DOMAIN chain /\ chain'[c] = h
      /\ \A b \in DOMAIN chain : b # c => chain'[b] = chain[b]
  BY <1>2, <1>4 DEF All
<1>9. All' = All /\ Probed' = Probed /\ c \in All
  BY <1>8 DEF All, Probed
<1>10. Chains'
  BY <1>3, <1>7, <1>8, <1>9 DEF Chains, All
<1>11. \A b \in All : Length(b)' = IF b = c THEN n + 1 ELSE Length(b)
  BY <1>5, <1>8 DEF Length, All
<1>12. PastDays'
  <2> SUFFICES ASSUME NEW b \in All, NEW i \in 1 .. Length(b)'
               PROVE  chain'[b][i] <= today
    BY <1>2, <1>9 DEF PastDays
  <2>1. CASE b # c
    BY <1>8, <1>11, <2>1 DEF ChartInv, PastDays, All
  <2>2. CASE b = c
    <3>1. i \in 1 .. n + 1 /\ chain'[b][i] = h[i]
      BY <1>8, <1>11, <2>2
    <3>2. CASE i \in 1 .. n
      BY <1>3, <1>5, <3>1, <3>2
    <3>3. CASE i = n + 1
      BY <1>3, <1>5, <3>1, <3>3 DEF Days
    <3> QED BY <1>3, <3>1, <3>2, <3>3
  <2> QED BY <2>1, <2>2
<1>13. \A b \in Probed' : ReadOf(b)'
  <2> SUFFICES ASSUME NEW b \in Probed PROVE ReadOf(b)'
    BY <1>9
  <2>1. ReadOf(b) /\ fetch[b] \in Fetches /\ b \in All
    BY <1>3, ChainFacts DEF ChartInv, ChartTypeOK
  <2>2. fetch[b].top <= Length(b)'
    BY <1>1, <1>3, <1>11, <2>1 DEF ReadOf, Fetches
  <2> QED BY <1>2, <2>1, <2>2 DEF ReadOf
<1>14. Events(All) \subseteq (Events(All))'
  <2> SUFFICES ASSUME NEW e \in Events(All)
               PROVE  e \in (Events(All))'
    OBVIOUS
  <2>1. e \in All \X (1 .. MaxLength) /\ e[2] <= Length(e[1]) /\ e[1] \in All
    BY DEF Events
  <2>2. e[2] <= Length(e[1])'
    BY <1>1, <1>3, <1>11, <2>1
  <2> QED BY <1>9, <2>1, <2>2 DEF Events
<1>15. Counted \subseteq Counted'
  BY <1>2, <1>9, <1>14 DEF Counted, Begun
<1>16. (lifetime <= Cardinality(Counted))'
  BY <1>2, <1>10, <1>15, CountKept
<1>17. lifetime' \in 0 .. (Cardinality(Events(All)))'
  <2>1. PICK A, B : A = Events(All) /\ B = (Events(All))'
    OBVIOUS
  <2>3. (\A S \in SUBSET Events(All) : IsFiniteSet(S) /\ Cardinality(S) \in Nat)'
    BY <1>10, EventsFinite, PTL
  <2>4. IsFiniteSet(B) /\ Cardinality(B) \in Nat
    BY <2>1, <2>3
  <2>5. Cardinality(A) <= Cardinality(B)
    BY <1>14, <2>1, <2>4, FS_Subset
  <2>6. Cardinality(A) \in Nat /\ lifetime \in 0 .. Cardinality(A)
    BY <1>3, <2>1, EventsFinite DEF ChartInv, ChartTypeOK
  <2> QED BY <1>2, <2>1, <2>4, <2>5, <2>6
<1>18. ChartTypeOK'
  <2>1. Reading' = Reading /\ Cardinality(Reading) <= Workers
    BY <1>2, <1>9 DEF ChartInv, ChartTypeOK, Reading
  <2>2. (Cardinality(Reading))' <= Workers
    BY <2>1
  <2>3. lifetime' \in 0 .. (Cardinality(Events(All)))'
    BY <1>17
  <2>4. today' \in Days /\ fetch' \in [Probed' -> Fetches]
    BY <1>2, <1>9 DEF ChartInv, ChartTypeOK
  <2>5. Floors'
    <3> SUFFICES ASSUME NEW b \in Probed PROVE floor[b] <= Length(b)'
      BY <1>2, <1>3, <1>9, TypedChains DEF Floors
    <3>1. floor[b] \in 0 .. MaxLength /\ floor[b] <= Length(b) /\ b \in All
      BY <1>3, TypedChains, ChainFacts DEF Floors
    <3> QED BY <1>1, <1>3, <1>11, <3>1
  <2> QED BY <1>10, <2>2, <2>3, <2>4, <2>5 DEF ChartTypeOK, Chains, Floors
<1> QED BY <1>12, <1>13, <1>16, <1>18 DEF ChartInv

(***************************************************************************)
(* A day goes by.                                                          *)
(***************************************************************************)
LEMMA NextDayKeeps ==
    ASSUME ChartInv, NextDay
    PROVE  ChartInv'
<1>1. /\ today' = today + 1 /\ today < MaxDay /\ UNCHANGED <<chain, floor, lifetime, fetch>>
      /\ today \in 1 .. MaxDay /\ MaxDay \in Nat /\ Chains
  BY TypedChains, ActivityAssumption DEF NextDay, ChartInv, ChartTypeOK, Days
<1>2. /\ All' = All /\ Probed' = Probed
      /\ \A c : Length(c)' = Length(c)
  BY <1>1 DEF All, Probed, Length
<1>3. (Events(All))' = Events(All) /\ Reading' = Reading
  BY <1>1, <1>2 DEF Events, Reading
<1>4. ChartTypeOK'
  <2>1. (Cardinality(Reading))' <= Workers
    BY <1>3 DEF ChartInv, ChartTypeOK
  <2>2. lifetime' \in 0 .. (Cardinality(Events(All)))'
    BY <1>1, <1>3 DEF ChartInv, ChartTypeOK
  <2>3. today' \in Days /\ fetch' \in [Probed' -> Fetches]
    BY <1>1, <1>2 DEF ChartInv, ChartTypeOK, Days
  <2>4. Chains' /\ Floors'
    BY <1>1, <1>2, TypedChains DEF Chains, Floors
  <2> QED BY <2>1, <2>2, <2>3, <2>4 DEF ChartTypeOK, Chains, Floors
<1>5. PastDays'
  <2> SUFFICES ASSUME NEW c \in All, NEW i \in 1 .. Length(c)
               PROVE  chain[c][i] <= today + 1
    BY <1>1, <1>2 DEF PastDays
  <2>1. chain[c][i] \in Days /\ chain[c][i] <= today
    BY <1>1, ChainFacts DEF ChartInv, PastDays
  <2> QED BY <1>1, <2>1 DEF Days
<1>6. \A c \in Probed' : ReadOf(c)'
  BY <1>1, <1>2 DEF ChartInv, ReadOf
<1>7. Counted' = Counted
  BY <1>1, <1>2, <1>3 DEF Counted, Begun
<1>8. (lifetime <= Cardinality(Counted))'
  BY <1>1, <1>7 DEF ChartInv
<1> QED BY <1>4, <1>5, <1>6, <1>8 DEF ChartInv

(***************************************************************************)
(* A step of the read of one chain: what is left to show is about this     *)
(* read.                                                                   *)
(***************************************************************************)
LEMMA FetchStep ==
    ASSUME ChartInv, NEW c \in Probed, NEW f \in Fetches,
           fetch' = [fetch EXCEPT ![c] = f], UNCHANGED <<chain, floor, today, lifetime>>,
           Cardinality(Reading') <= Workers, ReadOf(c)',
           IF Begun(c) THEN f.top = fetch[c].top
           ELSE Begun(c)' => f.top = Length(c)
    PROVE  ChartInv'
<1>1. Chains /\ fetch \in [Probed -> Fetches] /\ Probed \subseteq All
  BY TypedChains, ChainFacts DEF ChartInv, ChartTypeOK
<1>2. /\ All' = All /\ Probed' = Probed
      /\ \A b : Length(b)' = Length(b)
  BY DEF All, Probed, Length
<1>3. (Events(All))' = Events(All)
  BY <1>2 DEF Events
<1>4. fetch'[c] = f /\ \A b \in Probed : b # c => fetch'[b] = fetch[b]
  BY <1>1
<1>5. ChartTypeOK'
  <2>1. (Cardinality(Reading))' <= Workers
    OBVIOUS
  <2>2. lifetime' \in 0 .. (Cardinality(Events(All)))'
    BY <1>3 DEF ChartInv, ChartTypeOK
  <2>3. today' \in Days /\ fetch' \in [Probed' -> Fetches]
    BY <1>1, <1>2 DEF ChartInv, ChartTypeOK
  <2>4. Chains' /\ Floors'
    BY <1>1, <1>2, TypedChains DEF Chains, Floors
  <2> QED BY <2>1, <2>2, <2>3, <2>4 DEF ChartTypeOK, Chains, Floors
<1>6. PastDays'
  BY <1>2 DEF ChartInv, PastDays
<1>7. \A b \in Probed' : ReadOf(b)'
  <2> SUFFICES ASSUME NEW b \in Probed, b # c PROVE ReadOf(b)'
    BY <1>2
  <2> QED BY <1>2, <1>4 DEF ChartInv, ReadOf
<1>8. Counted \subseteq Counted'
  <2> SUFFICES ASSUME NEW e \in Counted PROVE e \in Counted'
    OBVIOUS
  <2>1. e \in Events(All) /\ e[2] <= Length(e[1])
    BY DEF Counted, Events
  <2>2. ASSUME e[1] \in Probed, Begun(e[1])' PROVE e[2] <= fetch'[e[1]].top
    <3>1. CASE e[1] = c
      BY <1>4, <2>1, <2>2, <3>1 DEF Counted
    <3>2. CASE e[1] # c
      BY <1>4, <2>2, <3>2 DEF Counted, Begun
    <3> QED BY <3>1, <3>2
  <2> QED BY <1>2, <1>3, <2>1, <2>2 DEF Counted
<1>9. (lifetime <= Cardinality(Counted))'
  <2>1. Chains'
    BY <1>1, <1>2 DEF Chains
  <2> QED BY <1>8, <2>1, CountKept
<1> QED BY <1>5, <1>6, <1>7, <1>9 DEF ChartInv

(***************************************************************************)
(* The chains being read, when one more is, or one less.                   *)
(***************************************************************************)
LEMMA ReadingFinite ==
    ASSUME ChartInv
    PROVE  /\ IsFiniteSet(Reading) /\ Cardinality(Reading) \in Nat
           /\ Cardinality(Reading) <= Workers /\ Workers \in Nat
           /\ \A S \in SUBSET Reading : Cardinality(S) <= Workers
<1>1. PICK R : R = Reading
  OBVIOUS
<1>2. IsFiniteSet(R)
  <2>1. R \subseteq All /\ IsFiniteSet(All)
    BY <1>1, TypedChains, ChainFacts DEF Reading
  <2> QED BY <2>1, FS_Subset
<1>3. Cardinality(R) \in Nat /\ Cardinality(R) <= Workers /\ Workers \in Nat
  BY <1>1, <1>2, FS_CardinalityType, ActivityAssumption DEF ChartInv, ChartTypeOK
<1>4. ASSUME NEW S \in SUBSET R PROVE Cardinality(S) <= Workers
  <2>1. IsFiniteSet(S) /\ Cardinality(S) \in Nat /\ Cardinality(S) <= Cardinality(R)
    BY <1>2, FS_Subset, FS_CardinalityType
  <2> QED BY <1>3, <2>1
<1> QED BY <1>1, <1>2, <1>3, <1>4

(***************************************************************************)
(* A worker takes a chain.                                                 *)
(***************************************************************************)
LEMMA TakeKeeps ==
    ASSUME ChartInv, NEW c \in Probed, TakeChain(c)
    PROVE  ChartInv'
<1>1. PICK f : f = [fetch[c] EXCEPT !.status = "reading"]
  OBVIOUS
<1>2. /\ fetch[c] \in Fetches /\ fetch[c].status = "waiting" /\ ReadOf(c)
      /\ fetch \in [Probed -> Fetches]
  BY DEF TakeChain, ChartInv, ChartTypeOK
<1>3. /\ fetch' = [fetch EXCEPT ![c] = f] /\ UNCHANGED <<chain, floor, today, lifetime>>
      /\ Cardinality(Reading) < Workers
  BY <1>1 DEF TakeChain
<1>4. f \in Fetches /\ f.status = "reading" /\ f.pages = fetch[c].pages /\ f.top = fetch[c].top
  BY <1>1, <1>2 DEF Fetches
<1>5. fetch'[c] = f /\ \A b \in Probed : b # c => fetch'[b] = fetch[b]
  BY <1>2, <1>3
<1>6. Length(c)' = Length(c) /\ Probed' = Probed
  BY <1>3 DEF Length, Probed, All
<1>7. Cardinality(Reading') <= Workers
  <2>1. Reading' = Reading \cup {c} /\ c \notin Reading
    BY <1>2, <1>4, <1>5, <1>6 DEF Reading
  <2>2. Cardinality(Reading') = Cardinality(Reading) + 1
    BY <2>1, ReadingFinite, FS_AddElement
  <2> QED BY <1>3, <2>2, ReadingFinite
<1>8. ReadOf(c)'
  BY <1>2, <1>4, <1>5, <1>6, ActivityAssumption DEF ReadOf
<1>9. ~Begun(c) /\ ~Begun(c)'
  BY <1>2, <1>4, <1>5 DEF ReadOf, Begun
<1> QED BY <1>3, <1>4, <1>7, <1>8, <1>9, FetchStep

(***************************************************************************)
(* A page is read: only the first one of a chain fixes the newest event.   *)
(***************************************************************************)
LEMMA PageKeeps ==
    ASSUME ChartInv, NEW c \in Probed, Page(c)
    PROVE  ChartInv'
<1>t. PICK top : top = IF fetch[c].pages = 0 THEN Length(c) ELSE fetch[c].top
  OBVIOUS
<1>b. PICK before : before = IF fetch[c].pages = 0 THEN top + 1 ELSE fetch[c].low
  OBVIOUS
<1>l. PICK low : low = CASE before <= floor[c] + 1 -> before
                         [] before > floor[c] + 1 + PageSize -> before - PageSize
                         [] OTHER -> floor[c] + 1
  OBVIOUS
<1>s. PICK status :
          status = CASE low <= floor[c] + 1 -> "start"
                     [] low > floor[c] + 1 /\ fetch[c].pages + 1 = MaxPages -> "cut"
                     [] OTHER -> "reading"
  OBVIOUS
<1>f. PICK f :
          f = [status |-> status, pages |-> fetch[c].pages + 1, low |-> low, top |-> top]
  OBVIOUS
<1>2. /\ fetch[c].status = "reading" /\ fetch' = [fetch EXCEPT ![c] = f]
      /\ UNCHANGED <<chain, floor, today, lifetime>>
  BY <1>t, <1>b, <1>l, <1>s, <1>f DEF Page
<1>3. /\ fetch[c] \in Fetches /\ ReadOf(c) /\ fetch \in [Probed -> Fetches]
      /\ Length(c) \in 0 .. MaxLength /\ MaxLength \in Nat /\ PageSize \in Nat \ {0}
      /\ MaxPages \in Nat /\ floor[c] \in 0 .. MaxLength
  BY TypedChains, ChainFacts, ActivityAssumption DEF ChartInv, ChartTypeOK, Floors
<1>4. /\ top \in 0 .. MaxLength /\ top <= Length(c)
      /\ before \in 1 .. MaxLength + 1 /\ low \in 1 .. MaxLength + 1
  <2>1. /\ top \in 0 .. MaxLength /\ top <= Length(c)
        /\ before \in 1 .. MaxLength + 1
    BY <1>t, <1>b, <1>3 DEF ReadOf, Fetches
  <2>2. CASE before <= floor[c] + 1
    <3>1. low = before
      BY <1>l, <1>3, <2>1, <2>2
    <3> QED BY <2>1, <3>1
  <2>3. CASE before > floor[c] + 1 + PageSize
    <3>1. low = before - PageSize
      BY <1>l, <1>3, <2>1, <2>3
    <3> QED BY <1>3, <2>1, <2>3, <3>1
  <2>4. CASE before > floor[c] + 1 /\ ~(before > floor[c] + 1 + PageSize)
    <3>1. low = floor[c] + 1
      BY <1>l, <1>3, <2>1, <2>4
    <3> QED BY <1>3, <2>1, <2>4, <3>1
  <2> QED BY <1>3, <2>1, <2>2, <2>3, <2>4
<1>5. /\ fetch[c].pages \in 0 .. MaxPages /\ fetch[c].pages < MaxPages
      /\ status \in {"start", "cut", "reading"}
      /\ status = "start" => low <= floor[c] + 1
      /\ status = "reading" => fetch[c].pages + 1 < MaxPages
  <2>1. fetch[c].pages \in 0 .. MaxPages /\ fetch[c].pages < MaxPages
    BY <1>2, <1>3 DEF ReadOf, Fetches
  <2>2. CASE low <= floor[c] + 1
    <3>1. status = "start"
      BY <1>s, <1>3, <1>4, <2>2
    <3> QED BY <2>1, <2>2, <3>1
  <2>3. CASE low > floor[c] + 1 /\ fetch[c].pages + 1 = MaxPages
    <3>1. status = "cut"
      BY <1>s, <1>3, <1>4, <2>3
    <3> QED BY <2>1, <3>1
  <2>4. CASE low > floor[c] + 1 /\ fetch[c].pages + 1 # MaxPages
    <3>1. status = "reading"
      BY <1>s, <1>3, <1>4, <2>4
    <3>2. fetch[c].pages + 1 < MaxPages
      BY <1>3, <2>1, <2>4
    <3> QED BY <2>1, <3>1, <3>2
  <2> QED BY <1>3, <1>4, <2>2, <2>3, <2>4
<1>6. /\ f \in Fetches /\ f.status = status /\ f.low = low /\ f.top = top
      /\ f.pages = fetch[c].pages + 1 /\ f.pages > 0
  BY <1>f, <1>3, <1>4, <1>5 DEF Fetches
<1>7. fetch'[c] = f /\ \A b \in Probed : b # c => fetch'[b] = fetch[b]
  BY <1>2, <1>3
<1>8. Length(c)' = Length(c) /\ Probed' = Probed
  BY <1>2 DEF Length, Probed, All
<1>9. Cardinality(Reading') <= Workers
  <2>1. Reading' \in SUBSET Reading
    BY <1>2, <1>7, <1>8 DEF Reading
  <2> QED BY <2>1, ReadingFinite
<1>10. ReadOf(c)'
  BY <1>2, <1>4, <1>5, <1>6, <1>7, <1>8 DEF ReadOf
<1>11. IF Begun(c) THEN f.top = fetch[c].top ELSE Begun(c)' => f.top = Length(c)
  BY <1>t, <1>2, <1>3, <1>6 DEF Begun, Fetches
<1> QED BY <1>2, <1>6, <1>9, <1>10, <1>11, FetchStep

(***************************************************************************)
(* The read of a chain ends without a page, whatever is made of it: what   *)
(* was read of the chain is kept.                                          *)
(***************************************************************************)
LEMMA NoPageKeeps ==
    ASSUME ChartInv, NEW c \in Probed, NEW end \in {"blank", "cut"}, NoPage(c, end)
    PROVE  ChartInv'
<1>1. PICK top, f :
        /\ top = IF fetch[c].pages = 0 THEN Length(c) ELSE fetch[c].top
        /\ f = [fetch[c] EXCEPT !.status = end, !.top = top]
  OBVIOUS
<1>2. /\ fetch[c].status = "reading" /\ UNCHANGED <<chain, floor, today, lifetime>>
      /\ fetch[c] \in Fetches /\ ReadOf(c) /\ fetch \in [Probed -> Fetches]
      /\ Length(c) \in 0 .. MaxLength
  BY TypedChains, ChainFacts DEF NoPage, ChartInv, ChartTypeOK
<1>3. fetch' = [fetch EXCEPT ![c] = f]
  BY <1>1, <1>2 DEF NoPage, Fetches
<1>4. /\ f \in Fetches /\ f.status = end /\ f.top = top /\ f.pages = fetch[c].pages
      /\ top <= Length(c)
  <2>1. top \in 0 .. MaxLength /\ top <= Length(c)
    BY <1>1, <1>2 DEF Fetches, ReadOf
  <2>2. f \in Fetches
    BY <1>1, <1>2, <2>1 DEF Fetches
  <2>3. f.status = end /\ f.top = top /\ f.pages = fetch[c].pages
    BY <1>1, <1>2 DEF Fetches
  <2> QED BY <2>1, <2>2, <2>3
<1>5. fetch'[c] = f /\ \A b \in Probed : b # c => fetch'[b] = fetch[b]
  BY <1>2, <1>3
<1>6. Length(c)' = Length(c) /\ Probed' = Probed
  BY <1>2 DEF Length, Probed, All
<1>7. Cardinality(Reading') <= Workers
  <2>1. Reading' \in SUBSET Reading
    BY <1>2, <1>5, <1>6 DEF Reading
  <2> QED BY <2>1, ReadingFinite
<1>8. ReadOf(c)'
  BY <1>4, <1>5, <1>6 DEF ReadOf
<1>9. IF Begun(c) THEN f.top = fetch[c].top ELSE Begun(c)' => f.top = Length(c)
  BY <1>1, <1>2, <1>4 DEF Begun, Fetches
<1> QED BY <1>2, <1>3, <1>4, <1>7, <1>8, <1>9, FetchStep

(***************************************************************************)
(* An event is pruned: a chain that was read to the oldest event held is   *)
(* so still.                                                               *)
(***************************************************************************)
LEMMA PruneKeeps ==
    ASSUME ChartInv, NEW c \in Probed, Prune(c)
    PROVE  ChartInv'
<1>1. /\ Chains /\ Floors /\ Probed \subseteq All /\ MaxLength \in Nat
      /\ floor[c] < Length(c) /\ floor' = [floor EXCEPT ![c] = @ + 1]
      /\ UNCHANGED <<chain, today, lifetime, fetch>>
  BY TypedChains, ChainFacts, ActivityAssumption DEF Prune
<1>2. /\ All' = All /\ Probed' = Probed
      /\ \A b : Length(b)' = Length(b)
  BY <1>1 DEF All, Probed, Length
<1>3. (Events(All))' = Events(All) /\ Reading' = Reading
  BY <1>1, <1>2 DEF Events, Reading
<1>4. ASSUME NEW b \in Probed
      PROVE  /\ floor[b] \in 0 .. MaxLength /\ floor'[b] \in 0 .. MaxLength
             /\ floor[b] <= floor'[b] /\ floor'[b] <= Length(b)
  <2>1. /\ floor[b] \in 0 .. MaxLength /\ floor[b] <= Length(b)
        /\ Length(b) \in 0 .. MaxLength
        /\ floor'[b] = IF b = c THEN floor[b] + 1 ELSE floor[b]
    BY <1>1, ChainFacts DEF Floors
  <2>2. floor'[b] <= Length(b)
    BY <1>1, <2>1
  <2> QED BY <1>1, <2>1, <2>2
<1>5. Floors'
  BY <1>1, <1>2, <1>4 DEF Floors
<1>6. ChartTypeOK'
  <2>1. (Cardinality(Reading))' <= Workers
    BY <1>3 DEF ChartInv, ChartTypeOK
  <2>2. lifetime' \in 0 .. (Cardinality(Events(All)))'
    BY <1>1, <1>3 DEF ChartInv, ChartTypeOK
  <2>3. today' \in Days /\ fetch' \in [Probed' -> Fetches]
    BY <1>1, <1>2 DEF ChartInv, ChartTypeOK
  <2>4. Chains'
    BY <1>1, <1>2 DEF Chains
  <2> QED BY <1>5, <2>1, <2>2, <2>3, <2>4 DEF ChartTypeOK, Chains, Floors
<1>7. PastDays'
  BY <1>1, <1>2 DEF ChartInv, PastDays
<1>8. \A b \in Probed' : ReadOf(b)'
  <2> SUFFICES ASSUME NEW b \in Probed PROVE ReadOf(b)'
    BY <1>2
  <2>1. ReadOf(b) /\ fetch[b] \in Fetches
    BY DEF ChartInv, ChartTypeOK
  <2>2. fetch[b].low <= floor[b] + 1 => fetch[b].low <= floor'[b] + 1
    BY <1>1, <1>4, <2>1 DEF Fetches
  <2> QED BY <1>1, <1>2, <2>1, <2>2 DEF ReadOf
<1>9. Counted' = Counted
  BY <1>1, <1>2, <1>3 DEF Counted, Begun
<1>10. (lifetime <= Cardinality(Counted))'
  BY <1>1, <1>9 DEF ChartInv
<1> QED BY <1>6, <1>7, <1>8, <1>10 DEF ChartInv

(***************************************************************************)
(* The invariant holds throughout.                                         *)
(***************************************************************************)
LEMMA NextChart == ChartInv /\ [ChartNext]_chartVars => ChartInv'
<1> SUFFICES ASSUME ChartInv, [ChartNext]_chartVars PROVE ChartInv'
  OBVIOUS
<1>1. CASE UNCHANGED chartVars
  <2>1. UNCHANGED <<chain, floor, today, lifetime, fetch>>
    BY <1>1 DEF chartVars
  <2> QED BY <2>1 DEF ChartInv, ChartTypeOK, PastDays, ReadOf, Counted, Begun, All,
            Probed, Length, Events, Reading
<1>2. CASE NextDay
  BY <1>2, NextDayKeeps
<1>3. ASSUME NEW c \in All, Emit(c) PROVE ChartInv'
  BY <1>3, EmitKeeps
<1>4. ASSUME NEW c \in Probed,
             Prune(c) \/ TakeChain(c) \/ Page(c) \/ PageFails(c) \/ PageBlank(c)
      PROVE  ChartInv'
  <2>1. CASE PageFails(c) \/ PageBlank(c)
    BY <2>1, NoPageKeeps DEF PageFails, PageBlank
  <2> QED BY <1>4, <2>1, PruneKeeps, TakeKeeps, PageKeeps
<1> QED BY <1>1, <1>2, <1>3, <1>4 DEF ChartNext

(***************************************************************************)
(* And so from every initial state.                                        *)
(***************************************************************************)
LEMMA ChartAlways == ChartSpec => []ChartInv
<1>1. ChartInit => ChartInv
  BY InitChart
<1> QED BY <1>1, NextChart, PTL DEF ChartSpec

(***************************************************************************)
(* TypeOK of ActivityWindow, for any chains: the endpoint keeps its bound  *)
(* on the chains read at a time.                                           *)
(***************************************************************************)
THEOREM ChartTyped == ChartSpec => []ChartTypeOK
<1>1. ChartInv => ChartTypeOK
  BY DEF ChartInv
<1> QED BY <1>1, ChartAlways, PTL

(***************************************************************************)
(* What the read of a chain that has ended leaves out: its oldest events,  *)
(* which are of days up to the partial one.                                *)
(***************************************************************************)
LEMMA OldestRead ==
    ASSUME ChartInv, NEW c \in Probed, NEW e \in Got(c)
    PROVE  /\ <<c, fetch[c].low>> \in Got(c)
           /\ OldestDay(c) = chain[c][fetch[c].low]
           /\ OldestDay(c) \in 1 .. MaxDay
<1>1. PICK low, top : low = fetch[c].low /\ top = fetch[c].top
  OBVIOUS
<1>2. /\ low \in 1 .. MaxLength + 1 /\ top \in 0 .. MaxLength /\ top <= Length(c)
      /\ Length(c) \in 0 .. MaxLength /\ MaxLength \in Nat
      /\ chain[c] \in [1 .. Length(c) -> 1 .. MaxDay] /\ MaxDay \in Nat
      /\ \A i, j \in 1 .. Length(c) : i <= j => chain[c][i] <= chain[c][j]
  BY <1>1, TypedChains, ChainFacts, ActivityAssumption DEF ChartInv, ChartTypeOK, Fetches, ReadOf, Days
<1>3. /\ fetch[c].pages > 0 /\ e = <<c, e[2]>> /\ e[2] \in low .. top
  BY <1>1 DEF Got, Events
<1>4. low \in 1 .. Length(c) /\ low <= top /\ low \in 1 .. MaxLength
  BY <1>2, <1>3
<1>5. <<c, low>> \in Got(c)
  BY <1>1, <1>2, <1>3, <1>4 DEF Got, Events
<1>6. \A g \in Got(c) : DayOf(g) >= chain[c][low]
  <2> SUFFICES ASSUME NEW g \in Got(c) PROVE chain[c][low] <= DayOf(g)
    BY <1>2, <1>4 DEF Got, Events, DayOf
  <2>1. g = <<c, g[2]>> /\ g[2] \in low .. top
    BY <1>1 DEF Got, Events
  <2>2. g[2] \in 1 .. Length(c) /\ low <= g[2]
    BY <1>2, <1>4, <2>1
  <2>3. DayOf(g) = chain[c][g[2]]
    BY <2>1 DEF DayOf
  <2> QED BY <1>2, <1>4, <2>2, <2>3
<1>7. PICK D : D = {DayOf(g) : g \in Got(c)}
  OBVIOUS
<1>8. chain[c][low] \in D /\ \A x \in D : chain[c][low] <= x
  <2>1. DayOf(<<c, low>>) = chain[c][low]
    BY DEF DayOf
  <2>2. \A g \in Got(c) : chain[c][low] <= DayOf(g)
    <3> SUFFICES ASSUME NEW g \in Got(c) PROVE chain[c][low] <= DayOf(g)
      OBVIOUS
    <3>1. g[2] \in 1 .. Length(c) /\ DayOf(g) = chain[c][g[2]]
      BY <1>1, <1>2, <1>4 DEF Got, Events, DayOf
    <3> QED BY <1>2, <1>4, <1>6, <3>1
  <2> QED BY <1>5, <1>7, <2>1, <2>2
<1>9. Min(D) = chain[c][low]
  <2>1. D \subseteq Int
    <3> SUFFICES ASSUME NEW g \in Got(c) PROVE DayOf(g) \in Int
      BY <1>7
    <3>1. g[2] \in 1 .. Length(c) /\ DayOf(g) = chain[c][g[2]]
      BY <1>1, <1>2, <1>4 DEF Got, Events, DayOf
    <3> QED BY <1>2, <3>1
  <2>2. PICK m : m = CHOOSE x \in D : \A y \in D : x <= y
    OBVIOUS
  <2>3. m \in D /\ \A y \in D : m <= y
    BY <1>8, <2>2
  <2>4. m <= chain[c][low] /\ chain[c][low] <= m
    BY <1>8, <2>3
  <2>5. m \in Int /\ chain[c][low] \in Int
    BY <1>8, <2>1, <2>3
  <2>6. m = chain[c][low]
    BY <2>4, <2>5
  <2> QED BY <2>2, <2>6 DEF Min
<1>10. OldestDay(c) = chain[c][low]
  BY <1>5, <1>7, <1>9 DEF OldestDay
<1> QED BY <1>1, <1>2, <1>4, <1>5, <1>10

(***************************************************************************)
(* The partial day is the newest of the oldest days read of the chains     *)
(* that were cut off.                                                      *)
(***************************************************************************)
LEMMA PartialDayIs ==
    ASSUME ChartInv
    PROVE  /\ PartialDay \in 0 .. MaxDay
           /\ \A c \in Truncated : OldestDay(c) <= PartialDay
<1>1. PICK D : D = {0} \cup {OldestDay(c) : c \in Truncated}
  OBVIOUS
<1>2. ASSUME NEW c \in Truncated PROVE OldestDay(c) \in 0 .. MaxDay
  <2>1. c \in Probed /\ MaxDay \in Nat
    BY ActivityAssumption DEF Truncated
  <2>2. CASE Got(c) = {}
    BY <2>1, <2>2 DEF OldestDay
  <2>3. CASE Got(c) # {}
    <3>1. PICK e : e \in Got(c)
      BY <2>3
    <3>2. OldestDay(c) \in 1 .. MaxDay
      BY <2>1, <3>1, OldestRead
    <3> QED BY <2>1, <3>2
  <2> QED BY <2>2, <2>3
<1>3. D \subseteq 0 .. MaxDay /\ MaxDay \in Nat
  BY <1>1, <1>2, ActivityAssumption
<1>4. D # {} /\ PartialDay = Max(D)
  BY <1>1 DEF PartialDay
<1>5. Max(D) \in D /\ \A x \in D : x <= Max(D)
  BY <1>3, <1>4, Greatest
<1> QED BY <1>1, <1>3, <1>4, <1>5

(***************************************************************************)
(* The events shown are those fetched of the days after the partial one.   *)
(***************************************************************************)
LEMMA ShownAre ==
    ASSUME ChartInv, Windowed
    PROVE  /\ Visible = {e \in Fetched : DayOf(e) > PartialDay}
           /\ Visible \subseteq Real /\ Real \in SUBSET Events(All)
           /\ \A e \in Events(All) : DayOf(e) \in 1 .. MaxDay
<1>1. /\ Chains /\ Probed \subseteq All /\ PartialDay \in 0 .. MaxDay
      /\ MaxDay \in Nat /\ MaxLength \in Nat
  BY TypedChains, ChainFacts, PartialDayIs, ActivityAssumption
<1>2. Real \in SUBSET Events(All)
  BY <1>1 DEF Real, Events
<1>3. ASSUME NEW e \in Events(All) PROVE DayOf(e) \in 1 .. MaxDay
  <2>1. e[1] \in All /\ e[2] \in 1 .. Length(e[1])
    BY <1>1, ChainFacts DEF Events
  <2> QED BY <1>1, <2>1, ChainFacts DEF DayOf, Days
<1>4. Fetched \subseteq Real
  BY DEF Fetched, Got, Real, Events
<1>5. Visible = Kept
  <2>1. CASE Kept # {}
    BY <2>1 DEF Visible
  <2>2. CASE Kept = {}
    <3>1. PartialDay = 0
      BY <2>2 DEF Windowed
    <3>2. \A e \in Fetched : e \in Kept
      BY <1>1, <1>2, <1>3, <1>4, <3>1 DEF Kept
    <3> QED BY <2>2, <3>2 DEF Visible
  <2> QED BY <2>1, <2>2
<1> QED BY <1>2, <1>3, <1>4, <1>5 DEF Kept

(***************************************************************************)
(* An event that the indexer holds, of a chain that answered and of a day  *)
(* after the partial one, is shown.                                        *)
(***************************************************************************)
LEMMA HeldShown ==
    ASSUME ChartInv, Windowed, NEW c \in Answering, NEW e \in Real \cap Held(c),
           DayOf(e) > PartialDay
    PROVE  e \in Visible
<1>1. PICK i : i = e[2]
  OBVIOUS
<1>2. /\ Chains /\ Floors /\ Probed \subseteq All /\ PartialDay \in 0 .. MaxDay
      /\ MaxDay \in Nat /\ MaxLength \in Nat
  BY TypedChains, ChainFacts, PartialDayIs, ActivityAssumption
<1>3. /\ c \in Probed /\ e = <<c, i>> /\ e \in Events({c}) /\ DayOf(e) = chain[c][i]
      /\ i \in 1 .. Length(c) /\ i <= fetch[c].top /\ i > floor[c]
      /\ i \in Nat /\ floor[c] \in Nat
  BY <1>1, <1>2, ChainFacts DEF Answering, Held, Real, Events, DayOf, Floors
<1>4. /\ ReadOf(c) /\ fetch[c] \in Fetches
  BY <1>3 DEF ChartInv, ChartTypeOK
<1>5. /\ fetch[c].pages > 0 /\ fetch[c].low \in Nat /\ fetch[c].top \in Nat
      /\ i >= fetch[c].low
  <2>1. CASE fetch[c].status = "start"
    BY <1>2, <1>3, <1>4, <2>1 DEF ReadOf, Fetches
  <2>2. CASE fetch[c].status = "cut" /\ Got(c) # {}
    <3>1. c \in Truncated
      BY <1>3, <2>2 DEF Truncated
    <3>2. PICK g : g \in Got(c)
      BY <2>2
    <3>3. /\ <<c, fetch[c].low>> \in Got(c)
          /\ OldestDay(c) = chain[c][fetch[c].low]
          /\ OldestDay(c) \in 1 .. MaxDay
          /\ OldestDay(c) <= PartialDay
      BY <1>3, <3>1, <3>2, OldestRead, PartialDayIs
    <3>4. fetch[c].pages > 0 /\ fetch[c].low \in 1 .. Length(c)
      BY <1>2, <1>3, <3>3, ChainFacts DEF Got, Events
    <3>5. ASSUME i < fetch[c].low PROVE FALSE
      <4>1. chain[c][i] <= chain[c][fetch[c].low]
        BY <1>2, <1>3, <3>4, <3>5, ChainFacts
      <4>2. DayOf(e) \in 1 .. MaxDay
        BY ShownAre
      <4> QED BY <1>2, <1>3, <3>3, <4>1, <4>2
    <3> QED BY <1>2, <1>3, <1>4, <3>4, <3>5 DEF Fetches
  <2> QED BY <2>1, <2>2 DEF Answering
<1>6. e \in Fetched
  <2>1. e[2] = i /\ e[2] \in fetch[c].low .. fetch[c].top
    BY <1>3, <1>4, <1>5 DEF Fetches
  <2>2. e \in Got(c)
    BY <1>3, <1>5, <2>1 DEF Got
  <2> QED BY <1>3, <2>2 DEF Fetched
<1> QED BY <1>6, ShownAre

(***************************************************************************)
(* No event is pruned of a day after the edge.                             *)
(***************************************************************************)
LEMMA EdgeIs ==
    ASSUME ChartInv, Windowed
    PROVE  /\ EdgeDay \in 0 .. MaxDay
           /\ \A e \in Real : DayOf(e) > EdgeDay => e[1] \in Probed /\ e \in Held(e[1])
<1>1. PICK P : P = Events(Probed) \ UNION {Held(c) : c \in Probed}
  OBVIOUS
<1>2. PICK D : D = {0} \cup {DayOf(e) : e \in P}
  OBVIOUS
<1>3. P \subseteq Events(All) /\ Chains /\ MaxDay \in Nat
  BY <1>1, TypedChains, ChainFacts, ActivityAssumption DEF Events
<1>4. D \subseteq 0 .. MaxDay /\ D # {} /\ EdgeDay = Max(D)
  <2>1. \A e \in P : DayOf(e) \in 1 .. MaxDay
    BY <1>3, ShownAre
  <2>2. D \subseteq 0 .. MaxDay /\ D # {}
    BY <1>2, <1>3, <2>1
  <2>3. EdgeDay = Max(D)
    BY <1>1, <1>2 DEF EdgeDay
  <2> QED BY <2>2, <2>3
<1>5. EdgeDay \in D /\ \A x \in D : x <= EdgeDay
  BY <1>3, <1>4, Greatest
<1>6. ASSUME NEW e \in Real, DayOf(e) > EdgeDay
      PROVE  e[1] \in Probed /\ e \in Held(e[1])
  <2>1. e \in Events(Probed) /\ e[1] \in Probed
    BY DEF Real, Events
  <2>2. e \notin P
    <3>1. ASSUME e \in P PROVE FALSE
      <4>1. DayOf(e) \in D
        BY <1>2, <3>1
      <4>2. DayOf(e) <= EdgeDay
        BY <1>5, <4>1
      <4>3. D \subseteq Int
        BY <1>3, <1>4
      <4>4. DayOf(e) \in Int /\ EdgeDay \in Int
        BY <1>5, <4>1, <4>3, Zenon
      <4> QED BY <1>6, <4>2, <4>4
    <3> QED BY <3>1
  <2>3. PICK c \in Probed : e \in Held(c)
    BY <1>1, <2>1, <2>2
  <2>4. e[1] = c
    BY <2>3 DEF Held, Events
  <2> QED BY <2>3, <2>4
<1> QED BY <1>4, <1>5, <1>6

(***************************************************************************)
(* The events up to a day: as many are missing of the shown ones as of the *)
(* real ones, if those after the day are all shown.                        *)
(***************************************************************************)
ShownOf(R, V, d) ==
    /\ R \in SUBSET Events(All) /\ \A e \in R : DayOf(e) \in Nat
    /\ d \in Nat /\ V \subseteq R
    /\ \A e \in R : DayOf(e) > d => e \in V

\* Then the events that are not shown are of this day or an earlier one.
LEMMA UpToShown ==
    ASSUME Chains, NEW R, NEW V, NEW d, ShownOf(R, V, d)
    PROVE  /\ Cardinality(R) \in Nat /\ Cardinality(V) \in Nat
           /\ UpTo(V, d) \in Nat /\ UpTo(R, d) \in Nat
           /\ Cardinality(R) - UpTo(R, d) = Cardinality(V) - UpTo(V, d)
           /\ UpTo(V, d) <= UpTo(R, d)
<1> USE DEF ShownOf
<1>3. PICK L, A, B : /\ L = {e \in R : DayOf(e) > d}
                     /\ A = {e \in R : DayOf(e) <= d}
                     /\ B = {e \in V : DayOf(e) <= d}
  OBVIOUS
<1>4. UpTo(R, d) = Cardinality(A) /\ UpTo(V, d) = Cardinality(B)
  BY <1>3 DEF UpTo
<1>5. /\ A \subseteq R /\ L \subseteq R /\ B \subseteq A /\ V \subseteq R
      /\ A \cap L = {} /\ A \cup L = R
      /\ B \cap L = {} /\ B \cup L = V
  BY <1>3
<1>6. /\ IsFiniteSet(R) /\ IsFiniteSet(A) /\ IsFiniteSet(B) /\ IsFiniteSet(L)
      /\ Cardinality(R) \in Nat /\ Cardinality(V) \in Nat
      /\ Cardinality(A) \in Nat /\ Cardinality(B) \in Nat /\ Cardinality(L) \in Nat
  <2>1. /\ R \in SUBSET Events(All) /\ A \in SUBSET Events(All)
        /\ B \in SUBSET Events(All) /\ L \in SUBSET Events(All)
        /\ V \in SUBSET Events(All)
    BY <1>5
  <2> QED BY <2>1, EventsFinite
<1>7. Cardinality(A \cup L) = Cardinality(A) + Cardinality(L)
  <2>1. Cardinality(A \cup L) = Cardinality(A) + Cardinality(L) - Cardinality(A \cap L)
    BY <1>6, FS_Union
  <2>2. Cardinality(A \cap L) = 0
    BY <1>5, FS_EmptySet, Zenon
  <2> QED BY <1>6, <2>1, <2>2
<1>8. Cardinality(B \cup L) = Cardinality(B) + Cardinality(L)
  <2>1. Cardinality(B \cup L) = Cardinality(B) + Cardinality(L) - Cardinality(B \cap L)
    BY <1>6, FS_Union
  <2>2. Cardinality(B \cap L) = 0
    BY <1>5, FS_EmptySet, Zenon
  <2> QED BY <1>6, <2>1, <2>2
<1>9. /\ Cardinality(R) = Cardinality(A) + Cardinality(L)
      /\ Cardinality(V) = Cardinality(B) + Cardinality(L)
  BY <1>5, <1>7, <1>8, Zenon
<1>10. Cardinality(B) <= Cardinality(A)
  BY <1>5, <1>6, FS_Subset
<1> QED BY <1>4, <1>6, <1>9, <1>10

(***************************************************************************)
(* When every chain is probed, the snapshot counts no event that the       *)
(* requests did not find.                                                  *)
(***************************************************************************)
LEMMA LifetimeFound ==
    ASSUME ChartInv, Answered, ScopeComplete
    PROVE  lifetime \in Nat /\ lifetime <= Cardinality(Real)
<1>1. \A c \in Probed : Begun(c)
  BY DEF Answered, Done, ChartInv, ReadOf, Begun
<1>2. Counted = Real
  BY <1>1 DEF Counted, Real, ScopeComplete, Events
<1>3. Cardinality(Events(All)) \in Nat
  BY TypedChains, EventsFinite
<1>4. lifetime \in Nat
  BY <1>3 DEF ChartInv, ChartTypeOK
<1> QED BY <1>2, <1>4, Zenon DEF ChartInv

(***************************************************************************)
(* ChartHonest.  A day of the chart has every event that the indexer holds *)
(* of the day, of each chain that answered.  If all chains answered, a day *)
(* after the newest pruned event is complete, and, if all are probed, from *)
(* that event's day on the curve never claims an event too many and lacks  *)
(* at most those emitted since the snapshot.                               *)
(***************************************************************************)
THEOREM ChartIsHonest == ChartSpec => []ChartHonest
<1>1. ChartInv => ChartHonest
  <2> SUFFICES ASSUME ChartInv, Windowed, NEW d \in ShownDays
               PROVE  /\ \A c \in Answering : \A e \in Real \cap Held(c) :
                            DayOf(e) = d => e \in Visible
                      /\ ScopeComplete /\ Answering = Probed /\ EdgeDay <= d =>
                            /\ Curve(d) <= UpTo(Real, d)
                            /\ Curve(d) + (Cardinality(Real) - lifetime)
                                   >= UpTo(Real, d)
                      /\ Answering = Probed /\ EdgeDay < d =>
                            OnDay(Visible, d) = OnDay(Real, d)
    BY DEF ChartHonest
  <2>1. PICK R, V, p : R = Real /\ V = Visible /\ p = PartialDay
    OBVIOUS
  <2>2. /\ V = {e \in Fetched : DayOf(e) > p} /\ V \subseteq R
        /\ R \in SUBSET Events(All)
        /\ \A e \in R : DayOf(e) \in 1 .. MaxDay
        /\ p \in 0 .. MaxDay /\ MaxDay \in Nat /\ Chains
    BY <2>1, ShownAre, PartialDayIs, TypedChains, ActivityAssumption
  <2>3. d \in Nat /\ d > p /\ p \in Nat /\ \A e \in R : DayOf(e) \in Nat
    BY <2>1, <2>2 DEF ShownDays
  <2>4. \A c \in Answering : \A e \in Real \cap Held(c) : DayOf(e) = d => e \in Visible
    BY <2>1, <2>3, HeldShown
  <2>5. ASSUME Answering = Probed
        PROVE  \A e \in R : DayOf(e) > EdgeDay /\ DayOf(e) >= d => e \in V
    <3> SUFFICES ASSUME NEW e \in R, DayOf(e) > EdgeDay, DayOf(e) >= d
                 PROVE  e \in V
      OBVIOUS
    <3>1. e[1] \in Answering /\ e \in Real \cap Held(e[1])
      BY <2>1, <2>5, EdgeIs
    <3>2. DayOf(e) > PartialDay
      BY <2>1, <2>3
    <3> QED BY <2>1, <3>1, <3>2, HeldShown
  <2>6. EdgeDay \in Nat
    BY <2>2, EdgeIs
  <2>7. ASSUME Answering = Probed, EdgeDay < d PROVE OnDay(V, d) = OnDay(R, d)
    <3>1. \A e \in R : DayOf(e) = d => e \in V
      BY <2>3, <2>5, <2>6, <2>7
    <3>2. {e \in V : DayOf(e) = d} = {e \in R : DayOf(e) = d}
      BY <2>2, <3>1
    <3> QED BY <3>2, Zenon DEF OnDay
  <2>8. ASSUME ScopeComplete, Answering = Probed, EdgeDay <= d
        PROVE  /\ Curve(d) <= UpTo(R, d)
               /\ Curve(d) + (Cardinality(R) - lifetime) >= UpTo(R, d)
    <3>1. lifetime \in Nat /\ lifetime <= Cardinality(R)
      BY <2>1, <2>8, LifetimeFound DEF Windowed
    <3>2. EarlierEvents = IF lifetime > Cardinality(V) THEN lifetime - Cardinality(V) ELSE 0
      BY <2>1, <2>8 DEF EarlierEvents, Anchor
    <3>3. Curve(d) = EarlierEvents + UpTo(V, d)
      BY <2>1 DEF Curve
    <3>4. \A e \in R : DayOf(e) > d => e \in V
      BY <2>3, <2>5, <2>6, <2>8
    <3>5. ShownOf(R, V, d)
      BY <2>2, <2>3, <3>4 DEF ShownOf
    <3>6. Chains
      BY <2>2
    <3>7. /\ Cardinality(R) \in Nat /\ Cardinality(V) \in Nat
          /\ UpTo(V, d) \in Nat /\ UpTo(R, d) \in Nat
          /\ Cardinality(R) - UpTo(R, d) = Cardinality(V) - UpTo(V, d)
          /\ UpTo(V, d) <= UpTo(R, d)
      BY <3>5, <3>6, UpToShown, Zenon
    <3> QED BY <3>1, <3>2, <3>3, <3>7
  <2> QED BY <2>1, <2>4, <2>7, <2>8
<1> QED BY <1>1, ChartAlways, PTL

===============================================================================
