------------------------- MODULE EpochSnapshotsProofs --------------------------
(***************************************************************************)
(* Proofs about EpochSnapshots: for any processes, any tasks and any       *)
(* number of epochs and writes, answers are as new as the head that their  *)
(* request saw, and a backfill never takes what a live capture wrote.      *)
(***************************************************************************)
EXTENDS EpochSnapshots, FiniteSetTheorems, WellFoundedInduction, TLAPS

(***************************************************************************)
(* A non-empty set of natural numbers has a least element: the initial     *)
(* intervals of its members are finite sets, and inclusion is well-founded *)
(* on those.                                                               *)
(***************************************************************************)
LEMMA Least ==
    ASSUME NEW S \in SUBSET Nat, S # {}
    PROVE  \E i \in S : \A j \in S : i <= j
<1> DEFINE T == {1 .. i : i \in S}
<1>1. T \subseteq FiniteSubsetsOf(Nat)
  <2> SUFFICES ASSUME NEW i \in S PROVE 1 .. i \in FiniteSubsetsOf(Nat)
    OBVIOUS
  <2>1. IsFiniteSet(1 .. i)
    BY FS_Interval
  <2>2. 1 .. i \subseteq Nat
    OBVIOUS
  <2> QED
    BY <2>1, <2>2 DEF FiniteSubsetsOf
<1>2. T # {}
  OBVIOUS
<1>3. PICK t \in T : \A u \in T : <<u, t>> \notin StrictSubsetOrdering(Nat)
  <2> HIDE DEF T
  <2> QED
    BY <1>1, <1>2, FS_StrictSubsetOrderingWellFounded, WFMin
<1>4. PICK i \in S : t = 1 .. i
  OBVIOUS
<1>5. ASSUME NEW j \in S, j < i PROVE FALSE
  <2>1. <<1 .. j, 1 .. i>> \in StrictSubsetOrdering(Nat)
    <3>1. i \in 1 .. i /\ i \notin 1 .. j
      BY <1>5
    <3>2. 1 .. j \subseteq 1 .. i /\ 1 .. i \subseteq Nat
      BY <1>5
    <3> QED
      BY <3>1, <3>2 DEF StrictSubsetOrdering
  <2> QED
    BY <2>1, <1>3, <1>4
<1> QED
  BY <1>5

(***************************************************************************)
(* The loop of a backfill takes one of the epochs that are left.           *)
(***************************************************************************)
LEMMA NextIsLeft ==
    ASSUME NEW t, work[t] \in SUBSET Epochs, work[t] # {}
    PROVE  NextEpoch(t) \in work[t]
<1>1. work[t] \in SUBSET Nat
  BY BoundAssumption DEF Epochs
<1>2. \E i \in work[t] : \A j \in work[t] : i <= j
  BY <1>1, Least
<1> QED
  BY <1>2 DEF NextEpoch

(***************************************************************************)
(* The head of a collection is its greatest epoch, 0 if it is empty: the   *)
(* least of the distances to the last epoch belongs to the greatest.       *)
(***************************************************************************)
LEMMA HeadIsGreatest ==
    ASSUME NEW d \in Docs
    PROVE  /\ Head(d) \in 0 .. MaxEpoch
           /\ \A e \in Stored(d) : e <= Head(d)
           /\ Head(d) # 0 => Head(d) \in Stored(d)
<1>1. CASE Stored(d) = {}
  BY <1>1, BoundAssumption DEF Head
<1>2. CASE Stored(d) # {}
  <2> DEFINE S == {MaxEpoch - e : e \in Stored(d)}
  <2>1. Stored(d) \subseteq 1 .. MaxEpoch /\ MaxEpoch \in Nat
    BY BoundAssumption DEF Stored, Epochs
  <2>2. S \in SUBSET Nat /\ S # {}
    BY <2>1, <1>2
  <2>3. PICK i \in S : \A j \in S : i <= j
    <3> HIDE DEF S
    <3> QED
      BY <2>2, Least
  <2>4. PICK e \in Stored(d) : i = MaxEpoch - e
    BY <2>3
  <2>5. \A f \in Stored(d) : f <= e
    <3> TAKE f \in Stored(d)
    <3>1. i <= MaxEpoch - f
      BY <2>3
    <3> QED
      BY <3>1, <2>1, <2>4
  <2>6. /\ Head(d) \in Stored(d)
        /\ \A f \in Stored(d) : f <= Head(d)
    BY <1>2, <2>5 DEF Head
  <2> QED
    BY <2>1, <2>6
<1> QED
  BY <1>1, <1>2

(***************************************************************************)
(* Documents are only added, and only written anew: a collection that is   *)
(* as new as a head that somebody saw stays so.                            *)
(***************************************************************************)
Covers(d, head, at) == Head(d) > head \/ (Head(d) = head /\ d[head].updatedAt >= at)

Later(c, d) == \A e \in Stored(c) : e \in Stored(d) /\ c[e].updatedAt <= d[e].updatedAt

\* What covered a head still does when documents are added or renumbered upward.
LEMMA CoversLater ==
    ASSUME NEW c \in Docs, NEW d \in Docs, Later(c, d),
           NEW head \in 1 .. MaxEpoch, NEW at \in Nat, Covers(c, head, at)
    PROVE  Covers(d, head, at)
<1>1. /\ Head(c) \in 0 .. MaxEpoch /\ Head(d) \in 0 .. MaxEpoch
      /\ Head(c) # 0 => Head(c) \in Stored(c)
      /\ \A e \in Stored(d) : e <= Head(d)
  BY HeadIsGreatest
<1>2. MaxEpoch \in Nat /\ MaxWrites \in Nat
  BY BoundAssumption
<1>3. Head(c) # 0
  BY <1>1, <1>2 DEF Covers
<1>4. Head(c) \in Stored(d) /\ Head(c) <= Head(d)
  BY <1>1, <1>3 DEF Later
<1>5. CASE Head(d) = head
  <2>1. Head(c) = head /\ c[head].updatedAt >= at
    BY <1>1, <1>2, <1>4, <1>5 DEF Covers
  <2>2. c[head].updatedAt <= d[head].updatedAt
    BY <1>1, <1>3, <2>1 DEF Later
  <2>3. c[head].updatedAt \in Nat /\ d[head].updatedAt \in Nat
    BY <1>2 DEF Docs, Epochs
  <2> QED
    BY <1>5, <2>1, <2>2, <2>3 DEF Covers
<1>6. CASE Head(d) # head
  BY <1>1, <1>2, <1>4, <1>6 DEF Covers
<1> QED
  BY <1>5, <1>6

-----------------------------------------------------------------------------
(***************************************************************************)
(* The inductive invariant.  CaptureAt: a capture is about a complete      *)
(* epoch from the time it is fetched.  FillAt: a backfill is bounded by an *)
(* epoch that has begun.  RequestAt: what a request saw of the head is     *)
(* covered by the collection ever after, and by the answer that it reads.  *)
(***************************************************************************)
CaptureAt(t) == pc[t] \in {"find", "update", "create"} => target[t] \in 1 .. current - 1

FillAt(t) ==
    /\ pc[t] \in {"distinct", "summary", "filled"} => target[t] <= current
    /\ pc[t] = "summary" => work[t] \subseteq 1 .. current - 1
    /\ pc[t] = "enrich" => work[t] \subseteq Stored(docs)

RequestAt(p) ==
    LET t == <<p, "request">> IN
    /\ pc[t] \in {"down", "idle", "compare", "all", "set"}
    /\ pc[t] \in {"compare", "all", "set"} =>
            target[t] \in 1 .. MaxEpoch /\ Covers(docs, target[t], probe[p])
    /\ pc[t] = "set" => Covers(read[t], target[t], probe[p])

TaskInv(t) == CaptureAt(t) /\ FillAt(t) /\ (t[2] = "request" => RequestAt(t[1]))

Numbered == \A e \in Epochs : docs[e].updatedAt <= writes

Begun == DefaultEpoch <= current

EpochInv == TypeOK /\ Begun /\ Numbered /\ \A t \in Tasks : TaskInv(t)

(***************************************************************************)
(* A step of one task: the others keep their part of the invariant, since  *)
(* time only goes on and the collection only becomes newer.                *)
(***************************************************************************)
Others(t) ==
    \A u \in Tasks \ {t} :
        /\ pc'[u] = pc[u] /\ target'[u] = target[u] /\ work'[u] = work[u] /\ read'[u] = read[u]
        /\ u[2] = "request" => probe'[u[1]] = probe[u[1]]

\* A step of one task: the others have lost nothing.
LEMMA Frame ==
    ASSUME EpochInv, NEW t \in Tasks, TypeOK', Numbered', Later(docs, docs'), current <= current',
           Others(t), TaskInv(t)'
    PROVE  EpochInv'
<1>0. Begun'
  BY BoundAssumption DEF EpochInv, TypeOK, Begun
<1> SUFFICES ASSUME NEW u \in Tasks, u # t PROVE TaskInv(u)'
  BY <1>0 DEF EpochInv
<1>1. /\ pc'[u] = pc[u] /\ target'[u] = target[u] /\ work'[u] = work[u] /\ read'[u] = read[u]
      /\ u[2] = "request" => probe'[u[1]] = probe[u[1]]
  BY DEF Others
<1>2. TaskInv(u) /\ current \in Nat /\ current' \in Nat /\ target[u] \in Nat
  BY BoundAssumption DEF EpochInv, TypeOK
<1>3. CaptureAt(u)'
  BY <1>1, <1>2 DEF CaptureAt, TaskInv
<1>4. FillAt(u)'
  BY <1>1, <1>2 DEF FillAt, TaskInv, Later
<1>5. ASSUME u[2] = "request" PROVE RequestAt(u[1])'
  <2>1. RequestAt(u[1]) /\ u = <<u[1], "request">> /\ u[1] \in Procs
    BY <1>2, <1>5 DEF TaskInv, Tasks
  <2>2. docs \in Docs /\ docs' \in Docs /\ probe[u[1]] \in Nat
    BY <2>1, BoundAssumption DEF EpochInv, TypeOK
  <2>3. ASSUME target[u] \in 1 .. MaxEpoch, Covers(docs, target[u], probe[u[1]])
        PROVE  Covers(docs', target[u], probe[u[1]])
    BY <2>2, <2>3, CoversLater
  <2> QED
    BY <1>1, <1>5, <2>1, <2>3 DEF RequestAt
<1> QED
  BY <1>3, <1>4, <1>5 DEF TaskInv

(***************************************************************************)
(* A write makes one document newer than every other.                      *)
(***************************************************************************)
Written == [updatedAt : Nat, totals : BOOLEAN, fees : {"absent", "zero", "final"}, live : BOOLEAN]

\* A write adds a document of an epoch that is over, or renumbers it upward.
LEMMA WriteKeeps ==
    ASSUME EpochInv, NEW e \in 1 .. current - 1, e \in Epochs, NEW doc \in Written, Write(e, doc)
    PROVE  /\ docs' \in Docs /\ writes' \in 0 .. MaxWrites /\ Numbered' /\ Later(docs, docs')
           /\ Stored(docs') \subseteq 1 .. current - 1
<1>1. /\ docs \in Docs /\ writes \in Nat /\ writes < MaxWrites /\ MaxWrites \in Nat
      /\ writes' = writes + 1
      /\ docs' = [docs EXCEPT ![e] = [doc EXCEPT !.updatedAt = writes + 1]]
  BY BoundAssumption DEF EpochInv, TypeOK, Write
<1>2. \A f \in Epochs : docs'[f] = IF f = e THEN [doc EXCEPT !.updatedAt = writes + 1] ELSE docs[f]
  BY <1>1 DEF Docs
<1>3. [doc EXCEPT !.updatedAt = writes + 1] \in
          [updatedAt : 0 .. MaxWrites, totals : BOOLEAN,
           fees : {"absent", "zero", "final"}, live : BOOLEAN]
  BY <1>1 DEF Written
<1>4. [doc EXCEPT !.updatedAt = writes + 1].updatedAt = writes + 1
  BY DEF Written
<1>5. docs' \in Docs
  BY <1>1, <1>3 DEF Docs
<1>6. \A f \in Epochs : docs[f].updatedAt \in Nat /\ docs[f].updatedAt <= writes
  BY <1>1 DEF EpochInv, Numbered, Docs
<1>7. \A f \in Epochs : docs'[f].updatedAt = IF f = e THEN writes + 1 ELSE docs[f].updatedAt
  BY <1>2, <1>4
<1>8. Numbered'
  BY <1>1, <1>6, <1>7 DEF Numbered
<1>9. Later(docs, docs')
  BY <1>1, <1>6, <1>7 DEF Later, Stored
<1>10. Stored(docs') \subseteq 1 .. current - 1
  BY <1>7 DEF EpochInv, TypeOK, Stored
<1>11. writes' \in 0 .. MaxWrites
  BY <1>1
<1> QED
  BY <1>5, <1>8, <1>9, <1>10, <1>11

\* An empty collection is one.
LEMMA NoDocsTyped == NoDocs \in Docs
BY BoundAssumption DEF NoDocs, Docs, Absent

\* Where nothing is written, the documents are no older.
LEMMA LaterSame ==
    ASSUME docs \in Docs
    PROVE  Later(docs, docs)
<1>1. \A e \in Epochs : docs[e].updatedAt \in Nat
  BY BoundAssumption DEF Docs
<1> QED
  BY <1>1 DEF Later, Stored

(***************************************************************************)
(* A step that writes no document.                                         *)
(***************************************************************************)
LEMMA Quiet ==
    ASSUME EpochInv, NEW t \in Tasks, UNCHANGED <<current, docs, writes>>, TypeOK', Others(t),
           TaskInv(t)'
    PROVE  EpochInv'
<1>1. Later(docs, docs')
  BY LaterSame DEF EpochInv, TypeOK
<1>2. Numbered'
  BY DEF EpochInv, Numbered
<1>3. current <= current'
  BY DEF EpochInv, TypeOK
<1> QED
  BY <1>1, <1>2, <1>3, Frame

\* A rebuild reads every document.
LEMMA ReadAllKeeps ==
    ASSUME EpochInv, NEW t \in Tasks, ReadAll(t)
    PROVE  EpochInv'
<1>1. t[1] \in Procs /\ t[2] \in Slots /\ t = <<t[1], t[2]>>
  BY DEF Tasks
<1>2. TypeOK'
  BY <1>1, HeadIsGreatest, BoundAssumption DEF EpochInv, TypeOK, PCs, Epochs, ReadAll, At
<1>3. Others(t)
  BY <1>1 DEF EpochInv, TypeOK, Others, ReadAll, At, Tasks
<1>4. TaskInv(t)'
  <2>1. /\ pc[t] = "all" /\ pc'[t] = "set" /\ read'[t] = docs
        /\ UNCHANGED <<target, probe>>
    BY DEF EpochInv, TypeOK, ReadAll, At
  <2>2. CaptureAt(t)' /\ FillAt(t)'
    BY <2>1 DEF CaptureAt, FillAt
  <2>3. ASSUME t[2] = "request" PROVE RequestAt(t[1])'
    <3>1. RequestAt(t[1]) /\ t = <<t[1], "request">> /\ UNCHANGED docs
      BY <1>1, <2>3 DEF EpochInv, TaskInv, ReadAll
    <3> QED
      BY <2>1, <3>1 DEF RequestAt
  <2> QED
    BY <2>2, <2>3 DEF TaskInv
<1>5. UNCHANGED <<current, docs, writes>>
  BY DEF ReadAll
<1> QED
  BY <1>1, <1>2, <1>3, <1>4, <1>5, Quiet

\* It replaces the aggregates.
LEMMA SetAggregatesKeeps ==
    ASSUME EpochInv, NEW t \in Tasks, SetAggregates(t)
    PROVE  EpochInv'
<1>1. t[1] \in Procs /\ t[2] \in Slots /\ t = <<t[1], t[2]>>
  BY DEF Tasks
<1>2. TypeOK'
  <2>1. read[t] \in Docs /\ Then(t) \in PCs
    BY DEF EpochInv, TypeOK, Then, PCs
  <2> QED
    BY <1>1, <2>1, NoDocsTyped DEF EpochInv, TypeOK, SetAggregates, At
<1>3. Others(t)
  BY <1>1 DEF EpochInv, TypeOK, Others, SetAggregates, At, Tasks
<1>4. TaskInv(t)'
  BY <1>1, HeadIsGreatest, BoundAssumption DEF EpochInv, TypeOK, TaskInv, CaptureAt, FillAt, RequestAt,
     Epochs, Docs, Covers, SetAggregates, At, Then
<1>5. UNCHANGED <<current, docs, writes>>
  BY DEF SetAggregates
<1> QED
  BY <1>1, <1>2, <1>3, <1>4, <1>5, Quiet

\* A capture asks the chain for the current epoch.
LEMMA FetchKeeps ==
    ASSUME EpochInv, NEW t \in Tasks, Fetch(t)
    PROVE  EpochInv'
<1>1. t[1] \in Procs /\ t[2] \in Slots /\ t = <<t[1], t[2]>>
  BY DEF Tasks
<1>2. TypeOK'
  BY <1>1, HeadIsGreatest, BoundAssumption DEF EpochInv, TypeOK, PCs, Epochs, Fetch, At
<1>3. Others(t)
  BY <1>1 DEF EpochInv, TypeOK, Others, Fetch, At, Tasks
<1>4. TaskInv(t)'
  <2>1. /\ pc'[t] = "find" /\ target'[t] = current - 1 /\ current' = current
        /\ current \in 2 .. MaxEpoch + 1 /\ MaxEpoch \in Nat
        /\ pc[t] = "fetch" \/ t[2] = "cron"
    BY BoundAssumption DEF EpochInv, TypeOK, Fetch
  <2>2. t[2] # "request"
    BY <1>1, <2>1 DEF EpochInv, TaskInv, RequestAt
  <2>3. CaptureAt(t)' /\ FillAt(t)'
    BY <2>1 DEF CaptureAt, FillAt
  <2> QED
    BY <2>2, <2>3 DEF TaskInv
<1>5. UNCHANGED <<current, docs, writes>>
  BY DEF Fetch
<1> QED
  BY <1>1, <1>2, <1>3, <1>4, <1>5, Quiet

\* It looks for the document of the epoch that is over.
LEMMA FindKeeps ==
    ASSUME EpochInv, NEW t \in Tasks, Find(t)
    PROVE  EpochInv'
<1>1. t[1] \in Procs /\ t[2] \in Slots /\ t = <<t[1], t[2]>>
  BY DEF Tasks
<1>2. TypeOK'
  BY <1>1, HeadIsGreatest, BoundAssumption DEF EpochInv, TypeOK, PCs, Epochs, Find, At, Stored
<1>3. Others(t)
  BY <1>1 DEF EpochInv, TypeOK, Others, Find, At, Tasks
<1>4. TaskInv(t)'
  <2>1. /\ pc[t] = "find" /\ pc'[t] \in {"update", "create"}
        /\ UNCHANGED <<target, current>>
    BY DEF EpochInv, TypeOK, Find, At
  <2>2. t[2] # "request"
    BY <1>1, <2>1 DEF EpochInv, TaskInv, RequestAt
  <2>3. CaptureAt(t)' /\ FillAt(t)'
    BY <2>1 DEF EpochInv, TaskInv, CaptureAt, FillAt
  <2> QED
    BY <2>2, <2>3 DEF TaskInv
<1>5. UNCHANGED <<current, docs, writes>>
  BY DEF Find
<1> QED
  BY <1>1, <1>2, <1>3, <1>4, <1>5, Quiet

\* It fails.
LEMMA CaptureFailsKeeps ==
    ASSUME EpochInv, NEW t \in Tasks, CaptureFails(t)
    PROVE  EpochInv'
<1>1. t[1] \in Procs /\ t[2] \in Slots /\ t = <<t[1], t[2]>>
  BY DEF Tasks
<1>2. TypeOK'
  <2>1. Then(t) \in PCs
    BY DEF Then, PCs
  <2> QED
    BY <2>1, NoDocsTyped, BoundAssumption DEF EpochInv, TypeOK, CaptureFails
<1>3. Others(t)
  BY <1>1 DEF EpochInv, TypeOK, Others, CaptureFails, At, Tasks
<1>4. TaskInv(t)'
  BY <1>1, HeadIsGreatest, BoundAssumption DEF EpochInv, TypeOK, TaskInv, CaptureAt, FillAt, RequestAt,
     Epochs, Docs, Covers, CaptureFails, At, Then, Docs, NoDocs, Absent
<1>5. UNCHANGED <<current, docs, writes>>
  BY DEF CaptureFails
<1> QED
  BY <1>1, <1>2, <1>3, <1>4, <1>5, Quiet

\* The boot counts the documents.
LEMMA CountKeeps ==
    ASSUME EpochInv, NEW p \in Procs, Count(p)
    PROVE  EpochInv'
<1> DEFINE t == <<p, "boot">>
<1>1. t \in Tasks /\ t[1] = p /\ t[2] = "boot"
  BY DEF Tasks, Slots
<1>2. TypeOK'
  BY <1>1, HeadIsGreatest, BoundAssumption DEF EpochInv, TypeOK, PCs, Epochs, Count, At
<1>3. Others(t)
  BY <1>1 DEF EpochInv, TypeOK, Others, Count, At, Tasks
<1>4. TaskInv(t)'
  BY <1>1, HeadIsGreatest, BoundAssumption DEF EpochInv, TypeOK, TaskInv, CaptureAt, FillAt, RequestAt,
     Epochs, Docs, Covers, Count, At
<1>5. UNCHANGED <<current, docs, writes>>
  BY DEF Count
<1> QED
  BY <1>1, <1>2, <1>3, <1>4, <1>5, Quiet

\* A backfill reads the newest document.
LEMMA LatestKeeps ==
    ASSUME EpochInv, NEW p \in Procs, Latest(p)
    PROVE  EpochInv'
<1> DEFINE t == <<p, "boot">>
<1>1. t \in Tasks /\ t[1] = p /\ t[2] = "boot"
  BY DEF Tasks, Slots
<1>2. TypeOK'
  BY <1>1, HeadIsGreatest, BoundAssumption DEF EpochInv, TypeOK, PCs, Epochs, Latest, At
<1>3. Others(t)
  BY <1>1 DEF EpochInv, TypeOK, Others, Latest, At, Tasks
<1>4. TaskInv(t)'
  <2>1. Head(docs) \in 0 .. MaxEpoch /\ (Head(docs) # 0 => Head(docs) \in Stored(docs))
    BY HeadIsGreatest DEF EpochInv, TypeOK
  <2>2. current \in Nat /\ MaxEpoch \in Nat /\ DefaultEpoch \in Nat
    BY BoundAssumption DEF EpochInv, TypeOK
  <2>3. Head(docs) # 0 => Head(docs) <= current
    BY <2>1, <2>2 DEF EpochInv, TypeOK
  <2>4. /\ pc'[t] = "distinct" /\ current' = current
        /\ target'[t] = IF Head(docs) = 0 THEN DefaultEpoch ELSE Head(docs)
    BY <1>1 DEF EpochInv, TypeOK, Latest, At
  <2>5. DefaultEpoch <= current
    BY DEF EpochInv, Begun
  <2>6. CaptureAt(t)' /\ FillAt(t)'
    BY <2>3, <2>4, <2>5 DEF CaptureAt, FillAt
  <2> QED
    BY <1>1, <2>6 DEF TaskInv
<1>5. UNCHANGED <<current, docs, writes>>
  BY DEF Latest
<1> QED
  BY <1>1, <1>2, <1>3, <1>4, <1>5, Quiet

\* It reads the epochs that have one.
LEMMA DistinctKeeps ==
    ASSUME EpochInv, NEW p \in Procs, Distinct(p)
    PROVE  EpochInv'
<1> DEFINE t == <<p, "boot">>
<1>1. t \in Tasks /\ t[1] = p /\ t[2] = "boot"
  BY DEF Tasks, Slots
<1>2. TypeOK'
  <2>1. (1 .. target[t] - 1) \ Stored(docs) \in SUBSET Epochs
    BY <1>1, BoundAssumption DEF EpochInv, TypeOK, Epochs
  <2>2. "summary" \in PCs
    BY DEF PCs
  <2> QED
    BY <1>1, <2>1, <2>2 DEF EpochInv, TypeOK, Distinct, At
<1>3. Others(t)
  BY <1>1 DEF EpochInv, TypeOK, Others, Distinct, At, Tasks
<1>4. TaskInv(t)'
  <2>1. /\ pc[t] = "distinct" /\ pc'[t] = "summary" /\ UNCHANGED <<target, current>>
        /\ work'[t] = (1 .. target[t] - 1) \ Stored(docs)
    BY <1>1 DEF EpochInv, TypeOK, Distinct, At
  <2>2. target[t] \in Nat /\ current \in Nat /\ target[t] <= current
    BY <1>1, <2>1, BoundAssumption DEF EpochInv, TypeOK, TaskInv, FillAt
  <2>3. CaptureAt(t)' /\ FillAt(t)'
    BY <2>1, <2>2 DEF CaptureAt, FillAt
  <2> QED
    BY <1>1, <2>3 DEF TaskInv
<1>5. UNCHANGED <<current, docs, writes>>
  BY DEF Distinct
<1> QED
  BY <1>1, <1>2, <1>3, <1>4, <1>5, Quiet

\* An epoch that cannot be read is skipped.
LEMMA SkipEpochKeeps ==
    ASSUME EpochInv, NEW p \in Procs, SkipEpoch(p)
    PROVE  EpochInv'
<1> DEFINE t == <<p, "boot">>
<1>1. t \in Tasks /\ t[1] = p /\ t[2] = "boot"
  BY DEF Tasks, Slots
<1>2. TypeOK'
  <2>1. work[t] \in SUBSET Epochs /\ work[t] # {}
    BY <1>1 DEF EpochInv, TypeOK, SkipEpoch
  <2>2. NextEpoch(t) \in Epochs
    BY <2>1, NextIsLeft
  <2> QED
    BY <1>1, <2>1, <2>2 DEF EpochInv, TypeOK, SkipEpoch
<1>3. Others(t)
  BY <1>1 DEF EpochInv, TypeOK, Others, SkipEpoch, At, Tasks
<1>4. TaskInv(t)'
  BY <1>1, HeadIsGreatest, BoundAssumption DEF EpochInv, TypeOK, TaskInv, CaptureAt, FillAt, RequestAt,
     Epochs, Docs, Covers, SkipEpoch, At
<1>5. UNCHANGED <<current, docs, writes>>
  BY DEF SkipEpoch
<1> QED
  BY <1>1, <1>2, <1>3, <1>4, <1>5, Quiet

\* A backfill ends.
LEMMA BackfillEndsKeeps ==
    ASSUME EpochInv, NEW p \in Procs, BackfillEnds(p)
    PROVE  EpochInv'
<1> DEFINE t == <<p, "boot">>
<1>1. t \in Tasks /\ t[1] = p /\ t[2] = "boot"
  BY DEF Tasks, Slots
<1>2. TypeOK'
  BY <1>1, HeadIsGreatest, BoundAssumption DEF EpochInv, TypeOK, PCs, Epochs, BackfillEnds, At
<1>3. Others(t)
  BY <1>1 DEF EpochInv, TypeOK, Others, BackfillEnds, At, Tasks
<1>4. TaskInv(t)'
  BY <1>1, HeadIsGreatest, BoundAssumption DEF EpochInv, TypeOK, TaskInv, CaptureAt, FillAt, RequestAt,
     Epochs, Docs, Covers, BackfillEnds, At
<1>5. UNCHANGED <<current, docs, writes>>
  BY DEF BackfillEnds
<1> QED
  BY <1>1, <1>2, <1>3, <1>4, <1>5, Quiet

\* It fails.
LEMMA BackfillFailsKeeps ==
    ASSUME EpochInv, NEW p \in Procs, BackfillFails(p)
    PROVE  EpochInv'
<1> DEFINE t == <<p, "boot">>
<1>1. t \in Tasks /\ t[1] = p /\ t[2] = "boot"
  BY DEF Tasks, Slots
<1>2. TypeOK'
  BY <1>1, HeadIsGreatest, BoundAssumption DEF EpochInv, TypeOK, PCs, Epochs, BackfillFails, At
<1>3. Others(t)
  BY <1>1 DEF EpochInv, TypeOK, Others, BackfillFails, At, Tasks
<1>4. TaskInv(t)'
  BY <1>1, HeadIsGreatest, BoundAssumption DEF EpochInv, TypeOK, TaskInv, CaptureAt, FillAt, RequestAt,
     Epochs, Docs, Covers, BackfillFails, At
<1>5. UNCHANGED <<current, docs, writes>>
  BY DEF BackfillFails
<1> QED
  BY <1>1, <1>2, <1>3, <1>4, <1>5, Quiet

\* The fee backfill lists the documents without fees.
LEMMA FeesListKeeps ==
    ASSUME EpochInv, NEW p \in Procs, FeesList(p)
    PROVE  EpochInv'
<1> DEFINE t == <<p, "fees">>
<1>1. t \in Tasks /\ t[1] = p /\ t[2] = "fees"
  BY DEF Tasks, Slots
<1>2. TypeOK'
  BY <1>1, HeadIsGreatest, BoundAssumption DEF EpochInv, TypeOK, PCs, Epochs, FeesList, At
<1>3. Others(t)
  BY <1>1 DEF EpochInv, TypeOK, Others, FeesList, At, Tasks
<1>4. TaskInv(t)'
  BY <1>1, HeadIsGreatest, BoundAssumption DEF EpochInv, TypeOK, TaskInv, CaptureAt, FillAt, RequestAt,
     Epochs, Docs, Covers, FeesList, At
<1>5. UNCHANGED <<current, docs, writes>>
  BY DEF FeesList
<1> QED
  BY <1>1, <1>2, <1>3, <1>4, <1>5, Quiet

\* An epoch without an answer stays without fees.
LEMMA EnrichSkipsKeeps ==
    ASSUME EpochInv, NEW p \in Procs, EnrichSkips(p)
    PROVE  EpochInv'
<1> DEFINE t == <<p, "fees">>
<1>1. t \in Tasks /\ t[1] = p /\ t[2] = "fees"
  BY DEF Tasks, Slots
<1>2. TypeOK'
  BY <1>1, HeadIsGreatest, BoundAssumption DEF EpochInv, TypeOK, PCs, Epochs, EnrichSkips, At
<1>3. Others(t)
  BY <1>1 DEF EpochInv, TypeOK, Others, EnrichSkips, At, Tasks
<1>4. TaskInv(t)'
  BY <1>1, HeadIsGreatest, BoundAssumption DEF EpochInv, TypeOK, TaskInv, CaptureAt, FillAt, RequestAt,
     Epochs, Docs, Covers, EnrichSkips, At
<1>5. UNCHANGED <<current, docs, writes>>
  BY DEF EnrichSkips
<1> QED
  BY <1>1, <1>2, <1>3, <1>4, <1>5, Quiet

\* A request reads the head document.
LEMMA ProbeKeeps ==
    ASSUME EpochInv, NEW p \in Procs, Probe(p)
    PROVE  EpochInv'
<1> DEFINE t == <<p, "request">>
<1>1. t \in Tasks /\ t[1] = p /\ t[2] = "request"
  BY DEF Tasks, Slots
<1>2. TypeOK'
  <2>1. Head(docs) \in 0 .. MaxEpoch
    BY HeadIsGreatest DEF EpochInv, TypeOK
  <2>2. Head(docs) # 0 => docs[Head(docs)].updatedAt \in 0 .. MaxWrites
    BY <2>1, BoundAssumption DEF EpochInv, TypeOK, Docs, Epochs
  <2>3. {"idle", "compare"} \subseteq PCs
    BY DEF PCs
  <2> QED
    BY <1>1, <2>1, <2>2, <2>3, BoundAssumption DEF EpochInv, TypeOK, Probe, At
<1>3. Others(t)
  BY <1>1 DEF EpochInv, TypeOK, Others, Probe, At, Tasks
<1>4. TaskInv(t)'
  BY <1>1, HeadIsGreatest, BoundAssumption DEF EpochInv, TypeOK, TaskInv, CaptureAt, FillAt, RequestAt,
     Epochs, Docs, Covers, Probe, At
<1>5. UNCHANGED <<current, docs, writes>>
  BY DEF Probe
<1> QED
  BY <1>1, <1>2, <1>3, <1>4, <1>5, Quiet

\* It answers from memory.
LEMMA AnswerCachedKeeps ==
    ASSUME EpochInv, NEW p \in Procs, AnswerCached(p)
    PROVE  EpochInv'
<1> DEFINE t == <<p, "request">>
<1>1. t \in Tasks /\ t[1] = p /\ t[2] = "request"
  BY DEF Tasks, Slots
<1>2. TypeOK'
  BY <1>1, HeadIsGreatest, BoundAssumption DEF EpochInv, TypeOK, PCs, Epochs, AnswerCached, At
<1>3. Others(t)
  BY <1>1 DEF EpochInv, TypeOK, Others, AnswerCached, At, Tasks
<1>4. TaskInv(t)'
  BY <1>1, HeadIsGreatest, BoundAssumption DEF EpochInv, TypeOK, TaskInv, CaptureAt, FillAt, RequestAt,
     Epochs, Docs, Covers, AnswerCached, At
<1>5. UNCHANGED <<current, docs, writes>>
  BY DEF AnswerCached
<1> QED
  BY <1>1, <1>2, <1>3, <1>4, <1>5, Quiet

\* It starts a rebuild.
LEMMA RebuildKeeps ==
    ASSUME EpochInv, NEW p \in Procs, Rebuild(p)
    PROVE  EpochInv'
<1> DEFINE t == <<p, "request">>
<1>1. t \in Tasks /\ t[1] = p /\ t[2] = "request"
  BY DEF Tasks, Slots
<1>2. TypeOK'
  BY <1>1, HeadIsGreatest, BoundAssumption DEF EpochInv, TypeOK, PCs, Epochs, Rebuild, At
<1>3. Others(t)
  BY <1>1 DEF EpochInv, TypeOK, Others, Rebuild, At, Tasks
<1>4. TaskInv(t)'
  BY <1>1, HeadIsGreatest, BoundAssumption DEF EpochInv, TypeOK, TaskInv, CaptureAt, FillAt, RequestAt,
     Epochs, Docs, Covers, Rebuild, At
<1>5. UNCHANGED <<current, docs, writes>>
  BY DEF Rebuild
<1> QED
  BY <1>1, <1>2, <1>3, <1>4, <1>5, Quiet

\* It answers from its rebuild.
LEMMA AnswerRebuiltKeeps ==
    ASSUME EpochInv, NEW p \in Procs, AnswerRebuilt(p)
    PROVE  EpochInv'
<1> DEFINE t == <<p, "request">>
<1>1. t \in Tasks /\ t[1] = p /\ t[2] = "request"
  BY DEF Tasks, Slots
<1>2. TypeOK'
  <2>1. read[t] \in Docs /\ "idle" \in PCs
    BY <1>1 DEF EpochInv, TypeOK, PCs
  <2> QED
    BY <1>1, <2>1, NoDocsTyped, BoundAssumption DEF EpochInv, TypeOK, AnswerRebuilt, At
<1>3. Others(t)
  BY <1>1 DEF EpochInv, TypeOK, Others, AnswerRebuilt, At, Tasks
<1>4. TaskInv(t)'
  BY <1>1, HeadIsGreatest, BoundAssumption DEF EpochInv, TypeOK, TaskInv, CaptureAt, FillAt, RequestAt,
     Epochs, Docs, Covers, AnswerRebuilt, At
<1>5. UNCHANGED <<current, docs, writes>>
  BY DEF AnswerRebuilt
<1> QED
  BY <1>1, <1>2, <1>3, <1>4, <1>5, Quiet

\* It fails.
LEMMA RequestFailsKeeps ==
    ASSUME EpochInv, NEW p \in Procs, RequestFails(p)
    PROVE  EpochInv'
<1> DEFINE t == <<p, "request">>
<1>1. t \in Tasks /\ t[1] = p /\ t[2] = "request"
  BY DEF Tasks, Slots
<1>2. TypeOK'
  <2>1. "idle" \in PCs
    BY DEF PCs
  <2> QED
    BY <1>1, <2>1, NoDocsTyped, BoundAssumption DEF EpochInv, TypeOK, RequestFails
<1>3. Others(t)
  BY <1>1 DEF EpochInv, TypeOK, Others, RequestFails, At, Tasks
<1>4. TaskInv(t)'
  BY <1>1, HeadIsGreatest, BoundAssumption DEF EpochInv, TypeOK, TaskInv, CaptureAt, FillAt, RequestAt,
     Epochs, Docs, Covers, RequestFails, At
<1>5. UNCHANGED <<current, docs, writes>>
  BY DEF RequestFails
<1> QED
  BY <1>1, <1>2, <1>3, <1>4, <1>5, Quiet

(***************************************************************************)
(* The steps that write a document.                                        *)
(***************************************************************************)
KeepsLive == \A e \in Epochs : docs[e].live => docs'[e].live

\* A write that keeps the live fields of its own document keeps all of them.
LEMMA LiveWritten ==
    ASSUME EpochInv, NEW e \in Epochs, NEW doc \in Written, Write(e, doc),
           docs[e].live => doc.live
    PROVE  KeepsLive
<1>1. \A f \in Epochs : docs'[f] = IF f = e THEN [doc EXCEPT !.updatedAt = writes + 1] ELSE docs[f]
  BY DEF EpochInv, TypeOK, Write, Docs
<1>2. [doc EXCEPT !.updatedAt = writes + 1].live = doc.live
  BY DEF Written
<1> QED
  BY <1>1, <1>2 DEF KeepsLive

\* What a capture writes has its live fields.
LEMMA CapturedTyped ==
    ASSUME NEW ok \in BOOLEAN
    PROVE  Captured(ok) \in Written /\ Captured(ok).live
BY DEF Captured, Written

\* A capture updates a document.
LEMMA UpdateKeeps ==
    ASSUME EpochInv, NEW t \in Tasks, Update(t)
    PROVE  EpochInv' /\ KeepsLive
<1>1. t[1] \in Procs /\ t[2] \in Slots
  BY DEF Tasks
<1>2. target[t] \in 1 .. current - 1 /\ target[t] \in Epochs
  BY BoundAssumption DEF EpochInv, TypeOK, TaskInv, CaptureAt, Update, At, Epochs
<1>3. Captured(known[t]) \in Written /\ Captured(known[t]).live /\ Write(target[t], Captured(known[t]))
  BY CapturedTyped DEF EpochInv, TypeOK, Update
<1>4. /\ docs' \in Docs /\ writes' \in 0 .. MaxWrites /\ Numbered' /\ Later(docs, docs')
      /\ Stored(docs') \subseteq 1 .. current - 1
  BY <1>2, <1>3, WriteKeeps
<1>5. AfterWrite(t) \in {"all", "latest", "idle"} /\ AfterWrite(t) \in PCs
  BY DEF AfterWrite, Then, PCs
<1>6. t[2] # "request"
  <2> SUFFICES ASSUME t[2] = "request" PROVE FALSE
    OBVIOUS
  <2>1. t = <<t[1], "request">> /\ RequestAt(t[1])
    BY DEF EpochInv, TaskInv, Tasks
  <2> QED
    BY <2>1 DEF RequestAt, Update, At
<1>7. TypeOK'
  BY <1>4, <1>5, BoundAssumption DEF EpochInv, TypeOK, Update, At
<1>8. TaskInv(t)'
  <2>1. pc'[t] = AfterWrite(t)
    BY DEF EpochInv, TypeOK, Update, At
  <2> QED
    BY <1>5, <1>6, <2>1 DEF TaskInv, CaptureAt, FillAt
<1>9. Others(t)
  BY DEF EpochInv, TypeOK, Others, Update, At, Tasks
<1>10. current <= current'
  BY DEF EpochInv, TypeOK, Update
<1>11. EpochInv'
  BY <1>4, <1>7, <1>8, <1>9, <1>10, Frame
<1>12. KeepsLive
  BY <1>2, <1>3, LiveWritten
<1> QED
  BY <1>11, <1>12

\* A capture creates one.
LEMMA CreateKeeps ==
    ASSUME EpochInv, NEW t \in Tasks, Create(t)
    PROVE  EpochInv' /\ KeepsLive
<1>1. t[1] \in Procs /\ t[2] \in Slots
  BY DEF Tasks
<1>2. target[t] \in 1 .. current - 1 /\ target[t] \in Epochs
  BY BoundAssumption DEF EpochInv, TypeOK, TaskInv, CaptureAt, Create, At, Epochs
<1>3. Captured(known[t]) \in Written /\ Captured(known[t]).live /\ Write(target[t], Captured(known[t]))
  BY CapturedTyped DEF EpochInv, TypeOK, Create
<1>4. /\ docs' \in Docs /\ writes' \in 0 .. MaxWrites /\ Numbered' /\ Later(docs, docs')
      /\ Stored(docs') \subseteq 1 .. current - 1
  BY <1>2, <1>3, WriteKeeps
<1>5. AfterWrite(t) \in {"all", "latest", "idle"} /\ AfterWrite(t) \in PCs
  BY DEF AfterWrite, Then, PCs
<1>6. t[2] # "request"
  <2> SUFFICES ASSUME t[2] = "request" PROVE FALSE
    OBVIOUS
  <2>1. t = <<t[1], "request">> /\ RequestAt(t[1])
    BY DEF EpochInv, TaskInv, Tasks
  <2> QED
    BY <2>1 DEF RequestAt, Create, At
<1>7. TypeOK'
  BY <1>4, <1>5, BoundAssumption DEF EpochInv, TypeOK, Create, At
<1>8. TaskInv(t)'
  <2>1. pc'[t] = AfterWrite(t)
    BY DEF EpochInv, TypeOK, Create, At
  <2> QED
    BY <1>5, <1>6, <2>1 DEF TaskInv, CaptureAt, FillAt
<1>9. Others(t)
  BY DEF EpochInv, TypeOK, Others, Create, At, Tasks
<1>10. current <= current'
  BY DEF EpochInv, TypeOK, Create
<1>11. EpochInv'
  BY <1>4, <1>7, <1>8, <1>9, <1>10, Frame
<1>12. KeepsLive
  BY <1>2, <1>3, LiveWritten
<1> QED
  BY <1>11, <1>12

\* A backfill writes what it knows of an epoch.
LEMMA UpsertKeeps ==
    ASSUME EpochInv, NEW p \in Procs, Upsert(p)
    PROVE  EpochInv' /\ KeepsLive
<1> DEFINE t == <<p, "boot">>
           e == NextEpoch(t)
           doc == [Summary EXCEPT !.live = docs[e].live]
<1>1. t \in Tasks /\ t[1] = p /\ t[2] = "boot"
  BY DEF Tasks, Slots
<1>2. e \in work[t] /\ e \in 1 .. current - 1 /\ e \in Epochs
  <2>1. pc[t] = "summary" /\ work[t] \in SUBSET Epochs /\ work[t] # {}
    BY <1>1 DEF EpochInv, TypeOK, Upsert
  <2>2. e \in work[t]
    BY <2>1, NextIsLeft
  <2>3. work[t] \subseteq 1 .. current - 1
    BY <1>1, <2>1 DEF EpochInv, TypeOK, TaskInv, FillAt
  <2> QED
    BY <2>1, <2>2, <2>3
<1>3. doc \in Written /\ (docs[e].live => doc.live) /\ Write(e, doc)
  <2>1. docs[e] \in Written
    BY <1>2, BoundAssumption DEF EpochInv, TypeOK, Docs, Written
  <2>2. doc \in Written /\ (docs[e].live => doc.live)
    BY <2>1 DEF Written, Summary
  <2> QED
    BY <2>2 DEF Upsert
<1>4. /\ docs' \in Docs /\ writes' \in 0 .. MaxWrites /\ Numbered' /\ Later(docs, docs')
      /\ Stored(docs') \subseteq 1 .. current - 1
  <2> HIDE DEF doc, e
  <2> QED
    BY <1>2, <1>3, WriteKeeps
<1>5. work' = [work EXCEPT ![t] = @ \ {e}] /\ UNCHANGED <<current, boots, aggregates, pc, target, known, read, probe, unfilled>>
  BY DEF Upsert
<1>6. TypeOK'
  <2> HIDE DEF e
  <2> QED
    BY <1>1, <1>4, <1>5, BoundAssumption DEF EpochInv, TypeOK
<1>7. TaskInv(t)'
  <2> HIDE DEF e
  <2>1. work'[t] \subseteq work[t]
    BY <1>1, <1>5 DEF EpochInv, TypeOK
  <2>2. Stored(docs) \subseteq Stored(docs')
    BY <1>4 DEF Later
  <2> QED
    BY <1>1, <1>5, <2>1, <2>2 DEF EpochInv, TaskInv, CaptureAt, FillAt
<1>8. Others(t)
  <2> HIDE DEF e
  <2> QED
    BY <1>1, <1>5 DEF EpochInv, TypeOK, Others
<1>9. current <= current'
  BY <1>5 DEF EpochInv, TypeOK
<1>10. EpochInv'
  BY <1>1, <1>4, <1>6, <1>7, <1>8, <1>9, Frame
<1>11. KeepsLive
  <2> HIDE DEF doc, e
  <2> QED
    BY <1>2, <1>3, LiveWritten
<1> QED
  BY <1>10, <1>11

\* The fee backfill writes the fees of an epoch.
LEMMA EnrichKeeps ==
    ASSUME EpochInv, NEW p \in Procs, Enrich(p)
    PROVE  EpochInv' /\ KeepsLive
<1> DEFINE t == <<p, "fees">>
           e == NextEpoch(t)
           doc == [docs[e] EXCEPT !.fees = "final"]
<1>1. t \in Tasks /\ t[1] = p /\ t[2] = "fees"
  BY DEF Tasks, Slots
<1>2. e \in work[t] /\ e \in 1 .. current - 1 /\ e \in Epochs
  <2>1. pc[t] = "enrich" /\ work[t] \in SUBSET Epochs /\ work[t] # {}
    BY <1>1 DEF EpochInv, TypeOK, Enrich
  <2>2. e \in work[t]
    BY <2>1, NextIsLeft
  <2>3. work[t] \subseteq 1 .. current - 1
    BY <1>1, <2>1 DEF EpochInv, TypeOK, TaskInv, FillAt
  <2> QED
    BY <2>1, <2>2, <2>3
<1>3. doc \in Written /\ (docs[e].live => doc.live) /\ Write(e, doc)
  <2>1. docs[e] \in Written
    BY <1>2, BoundAssumption DEF EpochInv, TypeOK, Docs, Written
  <2>2. doc \in Written /\ (docs[e].live => doc.live)
    BY <2>1 DEF Written, Summary
  <2> QED
    BY <2>2 DEF Enrich
<1>4. /\ docs' \in Docs /\ writes' \in 0 .. MaxWrites /\ Numbered' /\ Later(docs, docs')
      /\ Stored(docs') \subseteq 1 .. current - 1
  <2> HIDE DEF doc, e
  <2> QED
    BY <1>2, <1>3, WriteKeeps
<1>5. work' = [work EXCEPT ![t] = @ \ {e}] /\ UNCHANGED <<current, boots, aggregates, pc, target, known, read, probe, unfilled>>
  BY DEF Enrich
<1>6. TypeOK'
  <2> HIDE DEF e
  <2> QED
    BY <1>1, <1>4, <1>5, BoundAssumption DEF EpochInv, TypeOK
<1>7. TaskInv(t)'
  <2> HIDE DEF e
  <2>1. work'[t] \subseteq work[t]
    BY <1>1, <1>5 DEF EpochInv, TypeOK
  <2>2. Stored(docs) \subseteq Stored(docs')
    BY <1>4 DEF Later
  <2> QED
    BY <1>1, <1>5, <2>1, <2>2 DEF EpochInv, TaskInv, CaptureAt, FillAt
<1>8. Others(t)
  <2> HIDE DEF e
  <2> QED
    BY <1>1, <1>5 DEF EpochInv, TypeOK, Others
<1>9. current <= current'
  BY <1>5 DEF EpochInv, TypeOK
<1>10. EpochInv'
  BY <1>1, <1>4, <1>6, <1>7, <1>8, <1>9, Frame
<1>11. KeepsLive
  <2> HIDE DEF doc, e
  <2> QED
    BY <1>2, <1>3, LiveWritten
<1> QED
  BY <1>10, <1>11

(***************************************************************************)
(* The steps of a whole process, and of the chain.                         *)
(***************************************************************************)
LEMMA BootKeeps ==
    ASSUME EpochInv, NEW p \in Procs, Boot(p)
    PROVE  EpochInv'
<1>1. \A t \in Tasks :
          pc'[t] = IF t[1] # p THEN pc[t] ELSE pc'[t]
  BY DEF Boot
<1>2. \A t \in Tasks : t[1] = p => pc'[t] \in {"idle", "all", "count", "list"}
  BY DEF Boot
<1>3. \A t \in Tasks : t[1] = p /\ t[2] = "request" => pc'[t] = "idle"
  BY DEF Boot
<1>4. \A t \in Tasks : t[1] # p => pc'[t] = pc[t]
  BY DEF Boot
<1>5. pc' \in [Tasks -> PCs]
  <2>1. \A t \in Tasks : pc'[t] \in PCs
    BY <1>2, <1>4 DEF EpochInv, TypeOK, PCs
  <2>2. pc' = [t \in Tasks |-> pc'[t]]
    BY DEF Boot
  <2> QED
    BY <2>1, <2>2
<1>6. TypeOK'
  BY <1>5, BoundAssumption DEF EpochInv, TypeOK, Boot
<1>7. UNCHANGED <<current, docs, writes, target, work, read, probe>>
  BY DEF Boot
<1>8. ASSUME NEW t \in Tasks PROVE TaskInv(t)'
  <2>1. CASE t[1] # p
    <3>1. pc'[t] = pc[t] /\ TaskInv(t) /\ (t[2] = "request" => t = <<t[1], "request">>)
      BY <1>4, <2>1 DEF EpochInv, Tasks
    <3> QED
      BY <1>7, <3>1 DEF TaskInv, CaptureAt, FillAt, RequestAt
  <2>2. CASE t[1] = p
    <3>1. t[2] = "request" => t = <<t[1], "request">>
      BY DEF Tasks
    <3> QED
      BY <1>2, <1>3, <2>2, <3>1 DEF TaskInv, CaptureAt, FillAt, RequestAt
  <2> QED
    BY <2>1, <2>2
<1> QED
  BY <1>6, <1>7, <1>8 DEF EpochInv, Numbered, Begun

\* A process ends, with all its tasks and its memory.
LEMMA ExitKeeps ==
    ASSUME EpochInv, NEW p \in Procs, Exit(p)
    PROVE  EpochInv'
<1>1. \A t \in Tasks : t[1] = p => pc'[t] = "down"
  BY DEF Exit
<1>2. \A t \in Tasks :
          t[1] # p => /\ pc'[t] = pc[t] /\ target'[t] = target[t] /\ work'[t] = work[t]
                      /\ read'[t] = read[t] /\ probe'[t[1]] = probe[t[1]]
  BY DEF Exit, EpochInv, TypeOK, Tasks
<1>3. TypeOK'
  <2>1. "down" \in PCs /\ 0 \in 0 .. MaxEpoch /\ 0 \in 0 .. MaxWrites
    BY BoundAssumption DEF PCs
  <2>2. /\ pc' \in [Tasks -> PCs] /\ target' \in [Tasks -> 0 .. MaxEpoch]
        /\ known' \in [Tasks -> BOOLEAN] /\ work' \in [Tasks -> SUBSET Epochs]
    BY <2>1 DEF EpochInv, TypeOK, Exit
  <2>3. read' \in [Tasks -> Docs] /\ aggregates' \in [Procs -> Docs]
    BY NoDocsTyped DEF EpochInv, TypeOK, Exit
  <2>4. probe' \in [Procs -> 0 .. MaxWrites] /\ unfilled' \in [Procs -> SUBSET Epochs]
    BY <2>1 DEF EpochInv, TypeOK, Exit
  <2> QED
    BY <2>2, <2>3, <2>4 DEF EpochInv, TypeOK, Exit
<1>4. UNCHANGED <<current, docs, writes>>
  BY DEF Exit
<1>5. ASSUME NEW t \in Tasks PROVE TaskInv(t)'
  <2>1. t[2] = "request" => t = <<t[1], "request">>
    BY DEF Tasks
  <2>2. CASE t[1] # p
    BY <1>2, <1>4, <2>1, <2>2 DEF EpochInv, TaskInv, CaptureAt, FillAt, RequestAt
  <2>3. CASE t[1] = p
    BY <1>1, <2>1, <2>3 DEF TaskInv, CaptureAt, FillAt, RequestAt
  <2> QED
    BY <2>2, <2>3
<1> QED
  BY <1>3, <1>4, <1>5 DEF EpochInv, Numbered, Begun

\* The chain goes on to the next epoch.
LEMMA EpochEndsKeeps ==
    ASSUME EpochInv, EpochEnds
    PROVE  EpochInv'
<1>1. /\ current \in Nat /\ current' = current + 1
      /\ UNCHANGED <<docs, writes, boots, aggregates, pc, target, known, work, read, probe, unfilled>>
  BY BoundAssumption DEF EpochInv, TypeOK, EpochEnds
<1>2. TypeOK'
  BY <1>1, BoundAssumption DEF EpochInv, TypeOK, EpochEnds
<1>3. ASSUME NEW t \in Tasks PROVE TaskInv(t)'
  <2>1. TaskInv(t) /\ target[t] \in Nat
    BY BoundAssumption DEF EpochInv, TypeOK
  <2> QED
    BY <1>1, <2>1 DEF TaskInv, CaptureAt, FillAt, RequestAt
<1>4. Begun' /\ Numbered'
  BY <1>1, BoundAssumption DEF EpochInv, Begun, Numbered
<1> QED
  BY <1>2, <1>3, <1>4 DEF EpochInv

-----------------------------------------------------------------------------
\* The invariant holds at the start, whatever earlier versions have written.
LEMMA InitInv == Init => EpochInv
<1> SUFFICES ASSUME Init PROVE EpochInv
  OBVIOUS
<1>1. current \in 2 .. MaxEpoch + 1 /\ DefaultEpoch <= current
  BY DEF Init
<1>2. docs \in Docs /\ Numbered /\ Stored(docs) \subseteq 1 .. current - 1
  <2>1. PICK S \in SUBSET (1 .. current - 1), f \in {"absent", "final"} : docs = Earlier(S, f)
    BY DEF Init
  <2>2. docs \in Docs
    BY <2>1, BoundAssumption DEF Docs, Absent, Earlier
  <2>3. \A e \in Epochs : docs[e].updatedAt = IF e \in S THEN 1 ELSE 0
    BY <2>1 DEF Absent, Earlier
  <2>4. writes = 1
    BY DEF Init
  <2>5. Numbered
    BY <2>3, <2>4 DEF Numbered
  <2>6. Stored(docs) \subseteq 1 .. current - 1
    BY <2>3 DEF Stored
  <2> QED
    BY <2>2, <2>5, <2>6
<1>3. TypeOK
  <2>1. "down" \in PCs
    BY DEF PCs
  <2> QED
    BY <1>1, <1>2, <2>1, NoDocsTyped, BoundAssumption DEF Init, TypeOK
<1>4. ASSUME NEW t \in Tasks PROVE TaskInv(t)
  <2>1. pc[t] = "down" /\ (t[2] = "request" => t = <<t[1], "request">>)
    BY DEF Init, Tasks
  <2> QED
    BY <2>1 DEF TaskInv, CaptureAt, FillAt, RequestAt
<1> QED
  BY <1>1, <1>2, <1>3, <1>4 DEF EpochInv, Begun

\* Every step of a task keeps it.
LEMMA TaskKeeps ==
    ASSUME EpochInv, NEW t \in Tasks, Task(t)
    PROVE  EpochInv' /\ KeepsLive
<1>1. CASE ReadAll(t)
  BY <1>1, ReadAllKeeps DEF ReadAll, KeepsLive
<1>2. CASE SetAggregates(t)
  BY <1>2, SetAggregatesKeeps DEF SetAggregates, KeepsLive
<1>3. CASE Fetch(t)
  BY <1>3, FetchKeeps DEF Fetch, KeepsLive
<1>4. CASE Find(t)
  BY <1>4, FindKeeps DEF Find, KeepsLive
<1>5. CASE CaptureFails(t)
  BY <1>5, CaptureFailsKeeps DEF CaptureFails, KeepsLive
<1>6. CASE Update(t)
  BY <1>6, UpdateKeeps
<1>7. CASE Create(t)
  BY <1>7, CreateKeeps
<1> QED
  BY <1>1, <1>2, <1>3, <1>4, <1>5, <1>6, <1>7 DEF Task

\* So does every step of a process.
LEMMA ProcessKeeps ==
    ASSUME EpochInv, NEW p \in Procs, Process(p)
    PROVE  EpochInv' /\ KeepsLive
<1>1. CASE Boot(p)
  BY <1>1, BootKeeps DEF Boot, KeepsLive
<1>2. CASE Exit(p)
  BY <1>2, ExitKeeps DEF Exit, KeepsLive
<1>3. CASE Count(p)
  BY <1>3, CountKeeps DEF Count, KeepsLive
<1>4. CASE Latest(p)
  BY <1>4, LatestKeeps DEF Latest, KeepsLive
<1>5. CASE Distinct(p)
  BY <1>5, DistinctKeeps DEF Distinct, KeepsLive
<1>6. CASE SkipEpoch(p)
  BY <1>6, SkipEpochKeeps DEF SkipEpoch, KeepsLive
<1>7. CASE BackfillEnds(p)
  BY <1>7, BackfillEndsKeeps DEF BackfillEnds, KeepsLive
<1>8. CASE BackfillFails(p)
  BY <1>8, BackfillFailsKeeps DEF BackfillFails, KeepsLive
<1>9. CASE FeesList(p)
  BY <1>9, FeesListKeeps DEF FeesList, KeepsLive
<1>10. CASE EnrichSkips(p)
  BY <1>10, EnrichSkipsKeeps DEF EnrichSkips, KeepsLive
<1>11. CASE Probe(p)
  BY <1>11, ProbeKeeps DEF Probe, KeepsLive
<1>12. CASE AnswerCached(p)
  BY <1>12, AnswerCachedKeeps DEF AnswerCached, KeepsLive
<1>13. CASE Rebuild(p)
  BY <1>13, RebuildKeeps DEF Rebuild, KeepsLive
<1>14. CASE AnswerRebuilt(p)
  BY <1>14, AnswerRebuiltKeeps DEF AnswerRebuilt, KeepsLive
<1>15. CASE RequestFails(p)
  BY <1>15, RequestFailsKeeps DEF RequestFails, KeepsLive
<1>16. CASE Upsert(p)
  BY <1>16, UpsertKeeps
<1>17. CASE Enrich(p)
  BY <1>17, EnrichKeeps
<1> QED
  BY <1>1, <1>2, <1>3, <1>4, <1>5, <1>6, <1>7, <1>8, <1>9, <1>10, <1>11, <1>12, <1>13, <1>14, <1>15, <1>16, <1>17 DEF Process

\* So does every step.
LEMMA NextInv == EpochInv /\ [Next]_vars => EpochInv' /\ KeepsLive
<1> SUFFICES ASSUME EpochInv, [Next]_vars PROVE EpochInv' /\ KeepsLive
  OBVIOUS
<1>1. CASE EpochEnds
  BY <1>1, EpochEndsKeeps DEF EpochEnds, KeepsLive
<1>2. ASSUME NEW t \in Tasks, Task(t) PROVE EpochInv' /\ KeepsLive
  BY <1>2, TaskKeeps
<1>3. ASSUME NEW p \in Procs, Process(p) PROVE EpochInv' /\ KeepsLive
  BY <1>3, ProcessKeeps
<1>4. CASE UNCHANGED vars
  BY <1>4 DEF vars, EpochInv, TypeOK, Begun, Numbered, TaskInv, CaptureAt, FillAt, RequestAt, KeepsLive
<1> QED
  BY <1>1, <1>2, <1>3, <1>4 DEF Next

\* So it holds throughout a run.
LEMMA AlwaysInv == Spec => []EpochInv
BY InitInv, NextInv, PTL DEF Spec

(***************************************************************************)
(* The state is well-formed, and only complete epochs have documents,      *)
(* whoever writes them (capture, backfillEpochs).                          *)
(***************************************************************************)
THEOREM TypeCorrect == Spec => []TypeOK
<1>1. EpochInv => TypeOK
  BY DEF EpochInv
<1> QED
  BY <1>1, AlwaysInv, PTL

(***************************************************************************)
(* A backfill never replaces what a live capture wrote ($setOnInsert).     *)
(***************************************************************************)
THEOREM LiveStays == Spec => LiveKept
<1>1. EpochInv /\ [Next]_vars => [\A e \in Epochs : docs[e].live => docs'[e].live]_vars
  BY NextInv DEF KeepsLive
<1> QED
  BY <1>1, AlwaysInv, PTL DEF Spec, LiveKept

(***************************************************************************)
(* getAggregates never returns aggregates older than the head document     *)
(* that the request has just looked at, however rebuilds overlap.          *)
(***************************************************************************)
THEOREM NeverOutdated == Spec => AnswersFresh
<1> DEFINE Fresh == \A p \in Procs :
                        AnswerCached(p) \/ AnswerRebuilt(p) => CoversHead(p, aggregates'[p])
<1>1. EpochInv /\ [Next]_vars => [Fresh]_vars
  <2> SUFFICES ASSUME EpochInv, NEW p \in Procs, AnswerCached(p) \/ AnswerRebuilt(p)
               PROVE  CoversHead(p, aggregates'[p])
    OBVIOUS
  <2> DEFINE t == <<p, "request">>
  <2>1. t \in Tasks /\ t[1] = p /\ t[2] = "request" /\ probe[p] \in Nat
    BY BoundAssumption DEF Tasks, Slots, EpochInv, TypeOK
  <2>2. CASE AnswerCached(p)
    BY <2>1, <2>2 DEF AnswerCached, Stale, CoversHead, EpochInv, TypeOK
  <2>3. CASE AnswerRebuilt(p)
    <3>1. Covers(read[t], target[t], probe[p])
      BY <2>1, <2>3 DEF AnswerRebuilt, At, EpochInv, TaskInv, RequestAt
    <3>2. aggregates'[p] = read[t]
      BY <2>3 DEF AnswerRebuilt, EpochInv, TypeOK
    <3> QED
      BY <3>1, <3>2 DEF Covers, CoversHead
  <2> QED
    BY <2>2, <2>3
<1> QED
  BY <1>1, AlwaysInv, PTL DEF Spec, AnswersFresh

===============================================================================
