--------------------------- MODULE TestnetTickProofs ----------------------------
(***************************************************************************)
(* Proofs about TestnetTick, for any number of runs and packages and any   *)
(* page size.  The inductive invariant TickInv says of every run what its  *)
(* rows are at each stage, in terms of its local variables (RowsInv), that *)
(* its walk has discovered exactly the packages between its cursor and the *)
(* newest one (WalkInv), and of every header that is published or whole    *)
(* that its run is over (LogInv), so that its rows do not change any more. *)
(***************************************************************************)
EXTENDS TestnetTick, FiniteSetTheorems, SequenceTheorems, TLAPS

(***************************************************************************)
(* The parts of the inductive invariant.                                   *)
(***************************************************************************)
\* A run is idle until it is started; its facts come from runs up to itself
\* and concern packages on chain.
OrderInv == \A r \in Runs : (pc[r] = "idle" => r > started) /\ (r > started => pc[r] = "idle")

PastOnly(f, r) == \A k \in Packages : f[k] <= r /\ (f[k] # NoRow => k <= head)

OnChain(K) == \A k \in K : k <= head

\* Discovery meets nothing that prev knows, and while it walks it has found
\* what lies between the cursor and the newest package.
WalkInv(r) ==
    /\ \A k \in loc[r].found : loc[r].prev[k] = NoRow
    /\ loc[r].upto <= head
    /\ loc[r].base => \E u \in 0 .. MaxPackages : Rows(loc[r].prev) = 1 .. u
    /\ pc[r] = "walk" =>
          /\ ~loc[r].ended
          /\ loc[r].found = {k \in Packages : loc[r].at < k /\ k <= loc[r].upto}
          /\ \/ loc[r].at = MaxPackages
             \/ /\ loc[r].at < loc[r].upto
                /\ \A k \in Rows(loc[r].prev) : k <= loc[r].upto
    /\ loc[r].ended /\ (loc[r].base \/ loc[r].found = 1 .. loc[r].upto)
          => Rows(loc[r].prev) \cup loc[r].found = 1 .. loc[r].upto

\* The rows of a run, stage by stage.
RowsInv(r) ==
    \A k \in Packages :
        /\ pc[r] \in {"walk", "shallow"} => facts[r][k] = NoRow
        /\ pc[r] \in {"probe", "drop"} =>
              facts[r][k] = IF k \in loc[r].found THEN Shallow ELSE NoRow
        /\ pc[r] = "deep" =>
              facts[r][k] = IF k \in DiscoveredKept(r) THEN Shallow ELSE NoRow
        /\ pc[r] = "carry" =>
              facts[r][k] = IF k \in loc[r].probed THEN r
                            ELSE IF k \in loc[r].found THEN Shallow ELSE NoRow
        /\ pc[r] = "header" =>
              facts[r][k] = IF k \in loc[r].probed THEN r
                            ELSE IF k \in loc[r].found THEN Shallow ELSE loc[r].prev[k]

RunInv(r) ==
    /\ PastOnly(facts[r], r)
    /\ pc[r] = "idle" => facts[r] = Empty /\ loc[r] = Blank
    /\ Ticking(r) =>
          /\ PastOnly(loc[r].prev, r)
          /\ OnChain(loc[r].found) /\ OnChain(loc[r].probed)
          /\ pc[r] \in {"walk", "shallow", "probe"} => loc[r].probed = {}
          /\ WalkInv(r)
          /\ RowsInv(r)
    /\ pc[r] = "bulk" => OnChain(loc[r].todo) /\ Rows(facts[r]) = loc[r].probed

EntryInv(h) ==
    /\ h.run <= started
    /\ h.stage = "complete" => pc[h.run] = "done" /\ h.total = Cardinality(Rows(facts[h.run]))
    /\ h.whole => pc[h.run] = "done" /\ h.upto <= head /\ Rows(facts[h.run]) = 1 .. h.upto

LogInv == \A i \in DOMAIN log : EntryInv(log[i])

TickInv == TypeOK /\ OrderInv /\ (\A r \in Runs : RunInv(r)) /\ LogInv

Stages == TickStages \cup {"idle", "bulk", "done", "dead"}

(***************************************************************************)
(* The headers of the log are headers.                                     *)
(***************************************************************************)
LEMMA LogEntry ==
    ASSUME TypeOK, NEW j \in DOMAIN log
    PROVE  log[j] \in Header /\ log[j].run \in Runs
<1>1. log \in Seq(Header)
  BY DEF TypeOK
<1>2. log[j] \in Header
  BY <1>1
<1> QED BY <1>2 DEF Header

(***************************************************************************)
(* A run whose rows, stage and local variables do not change keeps its     *)
(* part of the invariant, also when packages are published.                *)
(***************************************************************************)
LEMMA RunKept ==
    ASSUME TypeOK, NEW q \in Runs, RunInv(q), head' \in Nat, head <= head',
           facts'[q] = facts[q], pc'[q] = pc[q], loc'[q] = loc[q]
    PROVE  RunInv(q)'
<1>1. facts[q] \in [Packages -> Facts] /\ loc[q] \in Local /\ head \in Nat
  BY DEF TypeOK
<1>2. PastOnly(facts[q], q)' /\ (pc'[q] = "idle" => facts'[q] = Empty /\ loc'[q] = Blank)
  BY <1>1 DEF RunInv, PastOnly, Packages
<1>3. RowsInv(q) => RowsInv(q)'
  BY DEF RowsInv, DiscoveredKept
<1>4. ASSUME Ticking(q)' PROVE WalkInv(q)'
  <2>1. WalkInv(q)
    BY <1>4 DEF RunInv, Ticking
  <2> QED BY <1>1, <2>1 DEF WalkInv, Rows, Local, Packages
<1>5. ASSUME Ticking(q)'
      PROVE  /\ PastOnly(loc[q].prev, q)' /\ OnChain(loc[q].found)' /\ OnChain(loc[q].probed)'
             /\ pc'[q] \in {"walk", "shallow", "probe"} => loc'[q].probed = {}
             /\ RowsInv(q)'
  <2>1. Ticking(q)
    BY <1>5 DEF Ticking
  <2> QED BY <1>1, <1>3, <2>1 DEF RunInv, PastOnly, OnChain, Local, Packages
<1>6. ASSUME pc'[q] = "bulk"
      PROVE  OnChain(loc[q].todo)' /\ Rows(facts[q])' = loc'[q].probed
  BY <1>1, <1>6 DEF RunInv, OnChain, Rows, Local, Packages
<1> QED BY <1>2, <1>4, <1>5, <1>6 DEF RunInv

(***************************************************************************)
(* A header that is published or whole belongs to a run that is over.      *)
(***************************************************************************)
LEMMA EntryKept ==
    ASSUME TypeOK, NEW h \in Header, EntryInv(h), head' \in Nat, head <= head',
           started' \in Nat, started <= started',
           pc[h.run] = "done" => pc'[h.run] = "done" /\ facts'[h.run] = facts[h.run]
    PROVE  EntryInv(h)'
<1>1. head \in Nat /\ started \in Nat /\ h.run \in Nat /\ h.upto \in Nat
  BY DEF TypeOK, Header, Runs
<1> QED BY <1>1 DEF EntryInv, Rows

(***************************************************************************)
(* A step of one run keeps the invariant if it keeps the run's own part,   *)
(* starts no other run, and its new headers satisfy theirs.                *)
(***************************************************************************)
LEMMA RunStep ==
    ASSUME TickInv, NEW r \in Runs, pc[r] # "done",
           NEW to \in Stages \ {"idle"}, pc' = [pc EXCEPT ![r] = to],
           NEW v \in Local, loc' = [loc EXCEPT ![r] = v],
           NEW f \in [Packages -> Facts], facts' = [facts EXCEPT ![r] = f],
           head' = head, RunInv(r)',
           (started' = r /\ r = started + 1) \/ (started' = started /\ r <= started),
           log' \in Seq(Header),
           \A i \in DOMAIN log' : EntryInv(log[i])' \/ (\E j \in DOMAIN log : log'[i] = log[j])
    PROVE  TickInv'
<1> USE DEF Stages, TickStages
<1>1. TypeOK /\ head \in 0 .. MaxPackages /\ head \in Nat /\ started \in 0 .. MaxRuns
  BY TestnetAssumption DEF TickInv, TypeOK
<1>2. /\ \A q \in Runs : /\ pc'[q] = IF q = r THEN to ELSE pc[q]
                         /\ loc'[q] = IF q = r THEN v ELSE loc[q]
                         /\ facts'[q] = IF q = r THEN f ELSE facts[q]
      /\ pc' \in [Runs -> Stages] /\ loc' \in [Runs -> Local]
      /\ facts' \in [Runs -> [Packages -> Facts]]
  BY <1>1 DEF TypeOK
<1>3. started' \in 0 .. MaxRuns /\ started <= started' /\ started' \in Nat
  BY <1>1, TestnetAssumption DEF Runs
<1>4. TypeOK'
  BY <1>1, <1>2, <1>3 DEF TypeOK
<1>5. \A q \in Runs : RunInv(q)'
  <2> SUFFICES ASSUME NEW q \in Runs, q # r PROVE RunInv(q)'
    OBVIOUS
  <2>1. facts'[q] = facts[q] /\ pc'[q] = pc[q] /\ loc'[q] = loc[q]
    BY <1>2
  <2>2. RunInv(q) /\ head' \in Nat /\ head <= head'
    BY <1>1 DEF TickInv
  <2> QED BY <1>1, <2>1, <2>2, RunKept
<1>6. OrderInv'
  BY <1>1, <1>2, TestnetAssumption DEF OrderInv, TickInv, Runs
<1>7. LogInv'
  <2>1. ASSUME NEW h \in Header, EntryInv(h) PROVE EntryInv(h)'
    <3>1. h.run \in Runs
      BY DEF Header
    <3>2. pc[h.run] = "done" => pc'[h.run] = "done" /\ facts'[h.run] = facts[h.run]
      BY <1>2, <3>1
    <3> QED BY <1>1, <1>3, <2>1, <3>2, EntryKept
  <2>2. \A j \in DOMAIN log : log[j] \in Header /\ EntryInv(log[j])
    BY <1>1, LogEntry DEF TickInv, LogInv
  <2> QED BY <2>1, <2>2 DEF LogInv, EntryInv
<1> QED BY <1>4, <1>5, <1>6, <1>7 DEF TickInv

(***************************************************************************)
(* The steps that write no header: those that touch only the local         *)
(* variables, and those that touch only the rows.                          *)
(***************************************************************************)
LEMMA LocalStep ==
    ASSUME TickInv, NEW r \in Runs, pc[r] \notin {"idle", "done"},
           NEW to \in Stages \ {"idle"}, pc' = [pc EXCEPT ![r] = to],
           NEW v \in Local, loc' = [loc EXCEPT ![r] = v],
           UNCHANGED <<head, started, facts, log>>, RunInv(r)'
    PROVE  TickInv'
<1>1. facts[r] \in [Packages -> Facts] /\ facts' = [facts EXCEPT ![r] = facts[r]]
  BY DEF TickInv, TypeOK
<1>2. r <= started /\ log' \in Seq(Header)
  BY DEF TickInv, OrderInv, TypeOK, Runs
<1>3. \A i \in DOMAIN log' : \E j \in DOMAIN log : log'[i] = log[j]
  OBVIOUS
<1> QED BY <1>1, <1>2, <1>3, RunStep

(***************************************************************************)
(* The same with rows changed.                                             *)
(***************************************************************************)
LEMMA RowStep ==
    ASSUME TickInv, NEW r \in Runs, pc[r] \notin {"idle", "done"},
           NEW to \in Stages \ {"idle"}, pc' = [pc EXCEPT ![r] = to],
           NEW f \in [Packages -> Facts], facts' = [facts EXCEPT ![r] = f],
           NEW v \in Local, loc' = [loc EXCEPT ![r] = v],
           UNCHANGED <<head, started, log>>, RunInv(r)'
    PROVE  TickInv'
<1>1. r <= started /\ log' \in Seq(Header)
  BY DEF TickInv, OrderInv, TypeOK, Runs
<1>2. \A i \in DOMAIN log' : \E j \in DOMAIN log : log'[i] = log[j]
  OBVIOUS
<1> QED BY <1>1, <1>2, RunStep

(***************************************************************************)
(* The values that local variables start from have their types.            *)
(***************************************************************************)
LEMMA BlankType ==
    /\ Blank \in Local /\ Empty \in [Packages -> Facts]
    /\ \A f \in [Packages -> Facts], b \in BOOLEAN, K \in SUBSET Packages,
          P \in SUBSET Packages : Task(f, b, K, P) \in Local
<1>1. Empty \in [Packages -> Facts]
  BY DEF Empty, Facts
<1> QED BY <1>1, TestnetAssumption DEF Blank, Task, Local

(***************************************************************************)
(* What the types say of a run.                                            *)
(***************************************************************************)
LEMMA RunTypes ==
    ASSUME TickInv, NEW r \in Runs
    PROVE  /\ TypeOK /\ RunInv(r) /\ r \in Int /\ head \in Nat /\ head <= MaxPackages
           /\ started \in Nat /\ facts[r] \in [Packages -> Facts] /\ loc[r] \in Local
           /\ loc[r].prev \in [Packages -> Facts] /\ loc[r].at \in 0 .. MaxPackages
           /\ loc[r].found \in SUBSET Packages /\ loc[r].probed \in SUBSET Packages
           /\ loc[r].todo \in SUBSET Packages /\ loc[r].upto \in 0 .. MaxPackages
           /\ loc[r].base \in BOOLEAN /\ loc[r].late \in BOOLEAN /\ loc[r].ended \in BOOLEAN
<1>1. loc[r] \in Local /\ TypeOK /\ RunInv(r)
  BY DEF TickInv, TypeOK
<1> QED BY <1>1, TestnetAssumption DEF TypeOK, Local, Runs

(***************************************************************************)
(* The page that a walk fetches lies just below what it has found.         *)
(***************************************************************************)
LEMMA PageBounds ==
    ASSUME TickInv, NEW r \in Runs, pc[r] = "walk"
    PROVE  /\ Newest(r) \in Nat /\ Oldest(r) \in Nat /\ Newest(r) <= head /\ Oldest(r) >= 1
           /\ Newest(r) <= loc[r].at /\ Oldest(r) <= Newest(r) + 1
           /\ Oldest(r) = Newest(r) + 1 => Oldest(r) = 1
           /\ Page(r) \in SUBSET Packages
           /\ loc[r].at = MaxPackages => Newest(r) = head /\ loc[r].found = {}
           /\ loc[r].at # MaxPackages => Newest(r) = loc[r].at
<1>1. /\ head \in Nat /\ head <= MaxPackages /\ loc[r].at \in 0 .. MaxPackages
      /\ loc[r].upto \in 0 .. MaxPackages /\ MaxPackages \in Nat /\ PageSize \in Nat \ {0}
  BY RunTypes, TestnetAssumption
<1>2. WalkInv(r)
  BY RunTypes DEF RunInv, Ticking, TickStages
<1>3. loc[r].at = MaxPackages => loc[r].found = {}
  BY <1>1, <1>2 DEF WalkInv, Packages
<1>4. loc[r].at # MaxPackages => loc[r].at < head
  BY <1>1, <1>2 DEF WalkInv
<1>5. /\ Newest(r) \in Nat /\ Newest(r) <= head /\ Newest(r) <= loc[r].at
      /\ loc[r].at = MaxPackages => Newest(r) = head
      /\ loc[r].at # MaxPackages => Newest(r) = loc[r].at
  BY <1>1, <1>4 DEF Newest
<1>6. /\ Oldest(r) \in Nat /\ Oldest(r) >= 1 /\ Oldest(r) <= Newest(r) + 1
      /\ Oldest(r) = Newest(r) + 1 => Oldest(r) = 1
  BY <1>1, <1>5 DEF Oldest
<1>7. Page(r) \in SUBSET Packages
  BY <1>1, <1>5, <1>6 DEF Page, Packages
<1> QED BY <1>3, <1>5, <1>6, <1>7

(***************************************************************************)
(* A page step keeps the invariant if it takes only fresh packages, goes   *)
(* on only after a full page, and ends only at a known package or genesis. *)
(***************************************************************************)
LEMMA WalkStep ==
    ASSUME TickInv, NEW r \in Runs, pc[r] = "walk",
           NEW K \in SUBSET Fresh(r), NEW late \in BOOLEAN, NEW ended \in BOOLEAN,
           Discover(r, K, late, ended), UNCHANGED <<head, started, facts, log>>,
           NEW to \in {"walk", "shallow"}, pc' = [pc EXCEPT ![r] = to],
           to = "walk" => K = Page(r) /\ Oldest(r) # 1 /\ ~ended,
           ended => K = Fresh(r) /\ (Fresh(r) # Page(r) \/ Oldest(r) = 1)
    PROVE  TickInv'
<1> DEFINE n == Newest(r)
           o == Oldest(r)
           w == loc[r]
           v == [prev |-> w.prev, at |-> o - 1, found |-> w.found \cup K,
                 late |-> late, ended |-> ended, probed |-> {}, todo |-> {}, base |-> w.base,
                 upto |-> IF n > w.upto THEN n ELSE w.upto]
<1>1. /\ TypeOK /\ RunInv(r) /\ head \in Nat /\ head <= MaxPackages /\ w \in Local
      /\ w.prev \in [Packages -> Facts] /\ w.at \in 0 .. MaxPackages
      /\ w.found \in SUBSET Packages /\ w.upto \in 0 .. MaxPackages /\ w.base \in BOOLEAN
      /\ MaxPackages \in Nat
  BY RunTypes, TestnetAssumption
<1>2. /\ n \in Nat /\ o \in Nat /\ n <= head /\ o >= 1 /\ n <= w.at /\ o <= n + 1
      /\ o = n + 1 => o = 1
      /\ Page(r) \in SUBSET Packages /\ Page(r) = o .. n
      /\ w.at = MaxPackages => n = head /\ w.found = {}
      /\ w.at # MaxPackages => n = w.at
  BY PageBounds DEF Page
<1>3. /\ WalkInv(r) /\ PastOnly(w.prev, r) /\ OnChain(w.found)
      /\ \A k \in Packages : facts[r][k] = NoRow
  BY <1>1 DEF RunInv, Ticking, TickStages, RowsInv
<1>4. /\ K \subseteq Page(r) /\ \A k \in K : w.prev[k] = NoRow
      /\ Fresh(r) \subseteq Page(r)
  BY <1>2 DEF Fresh
<1> HIDE DEF n, o
<1>5. v \in Local /\ loc' = [loc EXCEPT ![r] = v]
  <2>1. (IF n > w.upto THEN n ELSE w.upto) \in 0 .. MaxPackages /\ o - 1 \in 0 .. MaxPackages
    BY <1>1, <1>2
  <2>2. w.found \cup K \in SUBSET Packages
    BY <1>1, <1>2, <1>4
  <2>3. loc' = [loc EXCEPT ![r] = v]
    BY DEF Discover, n, o
  <2> QED BY <1>1, <2>1, <2>2, <2>3 DEF Local
<1>6. /\ v.prev = w.prev /\ v.at = o - 1 /\ v.found = w.found \cup K /\ v.probed = {}
      /\ v.base = w.base /\ v.ended = ended /\ v.upto = IF n > w.upto THEN n ELSE w.upto
  OBVIOUS
<1> HIDE DEF v
<1>7. loc'[r] = v /\ pc'[r] = to /\ facts'[r] = facts[r] /\ head' = head
  BY <1>1, <1>5 DEF TypeOK
<1>8. /\ v.upto \in Nat /\ v.upto <= head /\ n <= v.upto
      /\ \A k \in Rows(w.prev) : k <= v.upto
  <2>1. v.upto \in Nat /\ v.upto <= head /\ n <= v.upto
    BY <1>1, <1>2, <1>3, <1>6 DEF WalkInv
  <2>2. CASE w.at = MaxPackages
    BY <2>1, <2>2, <1>1, <1>2, <1>3 DEF PastOnly, Rows, Packages
  <2>3. CASE w.at # MaxPackages
    <3>1. \A k \in Rows(w.prev) : k <= w.upto /\ k \in Nat
      BY <1>1, <1>3, <2>3 DEF WalkInv, Rows, Packages
    <3>2. w.upto <= v.upto
      BY <1>1, <1>2, <1>6
    <3> QED BY <1>1, <2>1, <3>1, <3>2
  <2> QED BY <2>1, <2>2, <2>3
<1>9. w.found = {k \in Packages : n < k /\ k <= v.upto}
  <2>1. CASE w.at = MaxPackages
    <3>1. w.found = {} /\ n = head
      BY <1>2, <2>1
    <3> QED BY <1>1, <1>8, <3>1 DEF Packages
  <2>2. CASE w.at # MaxPackages
    <3>1. w.found = {k \in Packages : w.at < k /\ k <= w.upto} /\ n = w.at /\ w.at < w.upto
      BY <1>2, <1>3, <2>2 DEF WalkInv
    <3>2. v.upto = w.upto
      BY <1>1, <1>2, <1>6, <3>1
    <3> QED BY <3>1, <3>2
  <2> QED BY <2>1, <2>2
<1>10. K = Page(r) => v.found = {k \in Packages : o - 1 < k /\ k <= v.upto}
  BY <1>1, <1>2, <1>6, <1>8, <1>9 DEF Packages
<1>11. ASSUME ended, w.base \/ v.found = 1 .. v.upto
       PROVE  Rows(w.prev) \cup v.found = 1 .. v.upto
  <2>1. CASE v.found = 1 .. v.upto
    BY <1>1, <1>8, <2>1 DEF Rows, Packages
  <2>2. CASE w.base /\ K = Page(r) /\ o = 1
    <3>1. v.found = {k \in Packages : 0 < k /\ k <= v.upto}
      BY <1>10, <2>2
    <3>2. v.found = 1 .. v.upto
      BY <1>1, <1>8, <3>1 DEF Packages
    <3> QED BY <3>2, <2>1
  <2>3. CASE w.base /\ ~(K = Page(r) /\ o = 1)
    <3>1. PICK u \in 0 .. MaxPackages : Rows(w.prev) = 1 .. u
      BY <1>3, <2>3 DEF WalkInv
    <3>2. \A j \in Packages : w.prev[j] = NoRow <=> u < j
      BY <1>1, <3>1 DEF Rows, Packages
    <3>3. PICK j \in Page(r) : w.prev[j] # NoRow
      <4>1. K = Fresh(r) /\ Fresh(r) # Page(r)
        BY <1>11, <2>3 DEF o
      <4>2. \E i \in Page(r) : i \notin Fresh(r)
        BY <4>1, <1>4
      <4> QED BY <4>2 DEF Fresh
    <3>4. j <= u /\ j \in o .. n /\ u \in Nat
      BY <1>1, <1>2, <3>2, <3>3 DEF Packages
    <3>5. K = {k \in Packages : u < k /\ k <= n}
      <4>1. K = {k \in o .. n : \A i \in o .. n : i >= k => w.prev[i] = NoRow}
        BY <1>2, <1>11 DEF Fresh
      <4>2. ASSUME NEW k \in Packages, u < k, k <= n PROVE k \in K
        <5>1. k \in o .. n
          BY <1>2, <3>4, <4>2 DEF Packages
        <5>2. \A i \in o .. n : i >= k => w.prev[i] = NoRow
          BY <1>1, <1>2, <3>2, <3>4, <4>2 DEF Packages
        <5> QED BY <4>1, <5>1, <5>2
      <4>3. ASSUME NEW k \in K PROVE k \in Packages /\ u < k /\ k <= n
        <5>1. k \in o .. n /\ w.prev[k] = NoRow /\ k \in Packages
          BY <1>2, <1>4, <4>3
        <5> QED BY <1>2, <3>2, <5>1
      <4> QED BY <4>2, <4>3
    <3>6. v.found = {k \in Packages : u < k /\ k <= v.upto}
      <4>1. \A k \in w.found : u < k
        BY <1>1, <1>3, <3>2 DEF WalkInv
      <4>2. ASSUME NEW k \in Packages, u < k, k <= v.upto PROVE k \in v.found
        <5>1. CASE k <= n
          BY <1>6, <3>5, <4>2, <5>1
        <5>2. CASE ~(k <= n)
          BY <1>2, <1>6, <1>9, <4>2, <5>2 DEF Packages
        <5> QED BY <5>1, <5>2
      <4>3. ASSUME NEW k \in v.found PROVE k \in Packages /\ u < k /\ k <= v.upto
        <5>1. CASE k \in w.found
          BY <1>9, <4>1, <5>1
        <5>2. CASE k \in K
          BY <1>2, <1>8, <3>4, <3>5, <5>2 DEF Packages
        <5> QED BY <1>6, <4>3, <5>1, <5>2
      <4> QED BY <4>2, <4>3
    <3>7. u <= v.upto
      <4>1. u = 0 \/ u \in Rows(w.prev)
        BY <3>1, <3>4
      <4> QED BY <1>8, <4>1
    <3> QED BY <1>1, <1>8, <3>1, <3>4, <3>6, <3>7 DEF Packages
  <2> QED BY <1>11, <2>1, <2>2, <2>3
<1>12. WalkInv(r)'
  <2>1. \A k \in v.found : w.prev[k] = NoRow
    BY <1>3, <1>4, <1>6 DEF WalkInv
  <2>2. w.base => \E u \in 0 .. MaxPackages : Rows(w.prev) = 1 .. u
    BY <1>3 DEF WalkInv
  <2>3. to = "walk" => /\ ~v.ended /\ v.found = {k \in Packages : v.at < k /\ k <= v.upto}
                       /\ v.at < v.upto
    BY <1>2, <1>6, <1>8, <1>10 DEF o
  <2> QED BY <1>6, <1>7, <1>8, <1>11, <2>1, <2>2, <2>3 DEF WalkInv, Rows
<1>13. OnChain(v.found)
  BY <1>1, <1>2, <1>3, <1>4, <1>6 DEF OnChain
<1>14. RunInv(r)'
  BY <1>1, <1>3, <1>6, <1>7, <1>12, <1>13
     DEF RunInv, PastOnly, OnChain, RowsInv, Ticking, TickStages
<1> QED BY <1>5, <1>14, LocalStep DEF Stages, TickStages

(***************************************************************************)
(* Pipeline A.                                                             *)
(***************************************************************************)
LEMMA FetchPageInv == ASSUME TickInv, NEW r \in Runs, FetchPage(r) PROVE TickInv'
<1> DEFINE ended == Fresh(r) # Page(r) \/ Oldest(r) = 1
           to == IF ended THEN "shallow" ELSE "walk"
<1>1. /\ pc[r] = "walk" /\ Discover(r, Fresh(r), FALSE, ended)
      /\ UNCHANGED <<head, started, facts, log>>
  BY DEF FetchPage
<1>2. pc' = [pc EXCEPT ![r] = to]
  BY <1>1, RunTypes DEF FetchPage, Goto, TypeOK
<1>3. to \in {"walk", "shallow"} /\ ended \in BOOLEAN
      /\ (to = "walk" => Fresh(r) = Page(r) /\ Oldest(r) # 1 /\ ~ended)
  OBVIOUS
<1> QED BY <1>1, <1>2, <1>3, WalkStep

(***************************************************************************)
(* The budget ends inside a page: what is newer is kept.                   *)
(***************************************************************************)
LEMMA DeadlineInv == ASSUME TickInv, NEW r \in Runs, DeadlineInPage(r) PROVE TickInv'
<1>1. PICK k \in Fresh(r) : Discover(r, {j \in Fresh(r) : j >= k}, TRUE, FALSE)
  BY DEF DeadlineInPage
<1>2. pc[r] = "walk" /\ pc' = [pc EXCEPT ![r] = "shallow"]
      /\ UNCHANGED <<head, started, facts, log>>
  BY DEF DeadlineInPage, Goto
<1> QED BY <1>1, <1>2, WalkStep

(***************************************************************************)
(* The budget ends before a page, or the page cannot be fetched.           *)
(***************************************************************************)
LEMMA WalkCutInv == ASSUME TickInv, NEW r \in Runs, WalkCut(r) PROVE TickInv'
<1>1. PICK late \in BOOLEAN : loc' = [loc EXCEPT ![r] = [loc[r] EXCEPT !.late = late]]
  BY DEF WalkCut
<1>2. pc[r] = "walk" /\ pc' = [pc EXCEPT ![r] = "shallow"]
      /\ UNCHANGED <<head, started, facts, log>>
  BY DEF WalkCut, Goto
<1> DEFINE v == [loc[r] EXCEPT !.late = late]
<1>3. v \in Local /\ v.prev = loc[r].prev /\ v.found = loc[r].found /\ v.probed = loc[r].probed
      /\ v.base = loc[r].base /\ v.ended = loc[r].ended /\ v.upto = loc[r].upto
  BY RunTypes DEF Local
<1> HIDE DEF v
<1>4. loc'[r] = v /\ pc'[r] = "shallow" /\ facts'[r] = facts[r]
  BY <1>1, <1>2, RunTypes DEF TypeOK, v
<1>5. RunInv(r)
  BY RunTypes
<1>6. WalkInv(r)'
  BY <1>2, <1>3, <1>4, <1>5 DEF RunInv, WalkInv, Ticking, TickStages, Rows
<1>7. RunInv(r)'
  BY <1>2, <1>3, <1>4, <1>5, <1>6
     DEF RunInv, PastOnly, OnChain, RowsInv, Ticking, TickStages
<1> QED BY <1>1, <1>2, <1>3, <1>7, LocalStep DEF Stages, TickStages, v

(***************************************************************************)
(* A stage after the walk that only changes the rows: what is left to show *)
(* is what they are now.                                                   *)
(***************************************************************************)
LEMMA StageStep ==
    ASSUME TickInv, NEW r \in Runs, Ticking(r), pc[r] # "walk",
           NEW to \in {"probe", "drop", "deep", "carry", "header"},
           pc' = [pc EXCEPT ![r] = to], UNCHANGED <<head, started, log>>,
           NEW f \in [Packages -> Facts], facts' = [facts EXCEPT ![r] = f],
           NEW P \in SUBSET Packages, OnChain(P), to = "probe" => P = {},
           loc' = [loc EXCEPT ![r] = [loc[r] EXCEPT !.probed = P]],
           PastOnly(f, r), RowsInv(r)'
    PROVE  TickInv'
<1> DEFINE v == [loc[r] EXCEPT !.probed = P]
<1>1. v \in Local /\ v.prev = loc[r].prev /\ v.found = loc[r].found /\ v.probed = P
      /\ v.base = loc[r].base /\ v.ended = loc[r].ended /\ v.upto = loc[r].upto
  BY RunTypes DEF Local
<1> HIDE DEF v
<1>2. loc'[r] = v /\ pc'[r] = to /\ facts'[r] = f
  BY RunTypes DEF TypeOK, v
<1>3. RunInv(r)
  BY RunTypes
<1>4. WalkInv(r)'
  BY <1>1, <1>2, <1>3 DEF RunInv, WalkInv, Rows
<1>5. PastOnly(loc[r].prev, r)' /\ OnChain(loc[r].found)' /\ OnChain(loc[r].probed)'
      /\ PastOnly(facts[r], r)'
  BY <1>1, <1>2, <1>3 DEF RunInv, PastOnly, OnChain
<1>6. RunInv(r)'
  BY <1>1, <1>2, <1>4, <1>5 DEF RunInv, Ticking, TickStages
<1> QED BY <1>1, <1>6, RowStep DEF Stages, TickStages, Ticking, v

(***************************************************************************)
(* A stage that leaves the local variables alone fits StageStep.           *)
(***************************************************************************)
LEMMA SameProbed ==
    ASSUME TickInv, NEW r \in Runs, loc' = loc
    PROVE  /\ loc' = [loc EXCEPT ![r] = [loc[r] EXCEPT !.probed = loc[r].probed]]
           /\ loc[r].probed \in SUBSET Packages
<1>1. loc \in [Runs -> Local] /\ loc[r] \in Local
  BY RunTypes DEF TypeOK
<1>2. [loc[r] EXCEPT !.probed = loc[r].probed] = loc[r]
  BY <1>1 DEF Local
<1> QED BY <1>1, <1>2, RunTypes

(***************************************************************************)
(* After the insert the rows are the discovered packages.                  *)
(***************************************************************************)
LEMMA InsertShallowInv == ASSUME TickInv, NEW r \in Runs, InsertShallow(r) PROVE TickInv'
<1> DEFINE f == [k \in Packages |-> IF k \in loc[r].found THEN Shallow ELSE facts[r][k]]
<1>1. /\ pc[r] = "shallow" /\ pc' = [pc EXCEPT ![r] = "probe"] /\ loc' = loc
      /\ UNCHANGED <<head, started, log>> /\ facts' = [facts EXCEPT ![r] = f]
  BY DEF InsertShallow, Insert, Goto
<1>2. /\ Ticking(r) /\ RunInv(r) /\ RowsInv(r) /\ OnChain(loc[r].found)
      /\ loc[r].probed = {}
  BY <1>1, RunTypes DEF Ticking, TickStages, RunInv
<1>3. f \in [Packages -> Facts] /\ PastOnly(f, r)
  BY <1>1, <1>2, RunTypes DEF PastOnly, RunInv, OnChain, Facts, Shallow, Runs
<1>4. facts'[r] = f /\ pc'[r] = "probe"
  BY <1>1, RunTypes DEF TypeOK
<1>5. RowsInv(r)'
  BY <1>1, <1>2, <1>4 DEF RowsInv
<1> QED BY <1>1, <1>2, <1>3, <1>5, SameProbed, StageStep DEF OnChain

(***************************************************************************)
(* Pipeline B.                                                             *)
(***************************************************************************)
LEMMA DeepProbeInv == ASSUME TickInv, NEW r \in Runs, DeepProbe(r) PROVE TickInv'
<1>1. PICK K \in SUBSET Pool : loc' = [loc EXCEPT ![r] = [loc[r] EXCEPT !.probed = K]]
  BY DEF DeepProbe
<1>2. /\ pc[r] = "probe" /\ pc' = [pc EXCEPT ![r] = "drop"]
      /\ UNCHANGED <<head, started, facts, log>>
  BY DEF DeepProbe, Goto
<1>3. K \in SUBSET Packages /\ OnChain(K)
  <2>1. \A q \in Runs : PastOnly(facts[q], q)
    BY DEF TickInv, RunInv
  <2> QED BY <2>1 DEF Pool, Known, PastOnly, OnChain
<1>4. /\ Ticking(r) /\ RunInv(r) /\ RowsInv(r) /\ PastOnly(facts[r], r)
  BY <1>2, RunTypes DEF Ticking, TickStages, RunInv
<1>5. facts[r] \in [Packages -> Facts] /\ facts' = [facts EXCEPT ![r] = facts[r]]
  BY <1>2, RunTypes DEF TypeOK
<1>6. /\ pc'[r] = "drop" /\ facts'[r] = facts[r] /\ loc'[r].found = loc[r].found
  BY <1>1, <1>2, RunTypes DEF TypeOK, Local
<1>7. RowsInv(r)'
  BY <1>2, <1>4, <1>6 DEF RowsInv
<1> QED BY <1>1, <1>2, <1>3, <1>4, <1>5, <1>7, StageStep

(***************************************************************************)
(* After the delete the rows are what is not probed.                       *)
(***************************************************************************)
LEMMA DropShallowInv == ASSUME TickInv, NEW r \in Runs, DropShallow(r) PROVE TickInv'
<1> DEFINE f == [k \in Packages |-> IF k \in loc[r].probed THEN NoRow ELSE facts[r][k]]
<1>1. /\ pc[r] = "drop" /\ pc' = [pc EXCEPT ![r] = "deep"] /\ loc' = loc
      /\ UNCHANGED <<head, started, log>> /\ facts' = [facts EXCEPT ![r] = f]
  BY DEF DropShallow, Goto
<1>2. /\ Ticking(r) /\ RunInv(r) /\ RowsInv(r) /\ OnChain(loc[r].probed)
  BY <1>1, RunTypes DEF Ticking, TickStages, RunInv
<1>3. f \in [Packages -> Facts] /\ PastOnly(f, r)
  BY <1>1, <1>2, RunTypes DEF PastOnly, RunInv, Facts, NoRow, Runs
<1>4. facts'[r] = f /\ pc'[r] = "deep"
  BY <1>1, RunTypes DEF TypeOK
<1>5. RowsInv(r)'
  BY <1>1, <1>2, <1>4 DEF RowsInv, DiscoveredKept
<1> QED BY <1>1, <1>2, <1>3, <1>5, SameProbed, StageStep

(***************************************************************************)
(* The rows of the probed packages come back, as of this run.              *)
(***************************************************************************)
LEMMA InsertDeepInv == ASSUME TickInv, NEW r \in Runs, InsertDeep(r) PROVE TickInv'
<1> DEFINE f == [k \in Packages |-> IF k \in loc[r].probed THEN r ELSE facts[r][k]]
<1>1. /\ pc[r] = "deep" /\ pc' = [pc EXCEPT ![r] = "carry"] /\ loc' = loc
      /\ UNCHANGED <<head, started, log>> /\ facts' = [facts EXCEPT ![r] = f]
  BY DEF InsertDeep, Insert, Goto
<1>2. /\ Ticking(r) /\ RunInv(r) /\ RowsInv(r) /\ OnChain(loc[r].probed)
  BY <1>1, RunTypes DEF Ticking, TickStages, RunInv
<1>3. f \in [Packages -> Facts] /\ PastOnly(f, r)
  BY <1>1, <1>2, RunTypes DEF PastOnly, RunInv, OnChain, Facts, Runs
<1>4. facts'[r] = f /\ pc'[r] = "carry"
  BY <1>1, RunTypes DEF TypeOK
<1>5. RowsInv(r)'
  BY <1>1, <1>2, <1>4 DEF RowsInv, DiscoveredKept
<1> QED BY <1>1, <1>2, <1>3, <1>5, SameProbed, StageStep

(***************************************************************************)
(* After the copy-forward every package of prev has a row.                 *)
(***************************************************************************)
LEMMA CarryForwardInv == ASSUME TickInv, NEW r \in Runs, CarryForward(r) PROVE TickInv'
<1> DEFINE f == [k \in Packages |-> IF k \in Carried(r) THEN loc[r].prev[k] ELSE facts[r][k]]
<1>1. /\ pc[r] = "carry" /\ pc' = [pc EXCEPT ![r] = "header"] /\ loc' = loc
      /\ UNCHANGED <<head, started, log>> /\ facts' = [facts EXCEPT ![r] = f]
  BY DEF CarryForward, Insert, Goto
<1>2. /\ Ticking(r) /\ RunInv(r) /\ RowsInv(r) /\ OnChain(loc[r].probed)
      /\ PastOnly(loc[r].prev, r)
  BY <1>1, RunTypes DEF Ticking, TickStages, RunInv
<1>3. f \in [Packages -> Facts] /\ PastOnly(f, r)
  BY <1>1, <1>2, RunTypes DEF PastOnly, RunInv
<1>4. facts'[r] = f /\ pc'[r] = "header"
  BY <1>1, RunTypes DEF TypeOK
<1>5. \A k \in Packages : k \in Carried(r) <=> /\ loc[r].prev[k] # NoRow
                                               /\ k \notin loc[r].found /\ k \notin loc[r].probed
  BY DEF Carried, Rows
<1>6. RowsInv(r)'
  BY <1>1, <1>2, <1>4, <1>5 DEF RowsInv
<1> QED BY <1>1, <1>2, <1>3, <1>6, SameProbed, StageStep

(***************************************************************************)
(* The header: three disjoint lists make up the rows.                      *)
(***************************************************************************)
LEMMA PackageCount ==
    ASSUME NEW A \in SUBSET Packages
    PROVE  IsFiniteSet(A) /\ Cardinality(A) \in 0 .. MaxPackages
<1>1. IsFiniteSet(Packages) /\ Cardinality(Packages) = MaxPackages
  BY FS_Interval, TestnetAssumption DEF Packages
<1>2. IsFiniteSet(A) /\ Cardinality(A) <= MaxPackages
  BY <1>1, FS_Subset
<1> QED BY <1>2, FS_CardinalityType, TestnetAssumption

(***************************************************************************)
(* The cardinality of three disjoint parts is the sum of theirs.           *)
(***************************************************************************)
LEMMA ThreeParts ==
    ASSUME NEW A \in SUBSET Packages, NEW B \in SUBSET Packages, NEW C \in SUBSET Packages,
           A \cap B = {}, A \cap C = {}, B \cap C = {}
    PROVE  Cardinality(A) + Cardinality(B) + Cardinality(C) = Cardinality(A \cup B \cup C)
<1>1. IsFiniteSet(A) /\ IsFiniteSet(B) /\ IsFiniteSet(C) /\ IsFiniteSet(A \cup B)
  BY PackageCount
<1>2. Cardinality(A \cup B) = Cardinality(A) + Cardinality(B)
  <2>1. Cardinality(A \cup B) = Cardinality(A) + Cardinality(B) - Cardinality({})
    BY <1>1, FS_Union
  <2> QED BY <1>1, <2>1, FS_EmptySet, FS_CardinalityType
<1>3. (A \cup B) \cap C = {}
  OBVIOUS
<1>4. Cardinality((A \cup B) \cup C) = Cardinality(A \cup B) + Cardinality(C) - Cardinality({})
  BY <1>1, <1>3, FS_Union
<1> QED BY <1>1, <1>2, <1>4, FS_EmptySet, FS_CardinalityType

(***************************************************************************)
(* At the header stage the three lists partition the stored rows.          *)
(***************************************************************************)
LEMMA HeaderCount ==
    ASSUME TickInv, NEW r \in Runs, pc[r] = "header"
    PROVE  /\ \A k \in Packages : k \in Rows(facts[r]) <=>
                 k \in loc[r].probed \/ k \in loc[r].found \/ k \in Rows(loc[r].prev)
           /\ Cardinality(DiscoveredKept(r)) + Cardinality(loc[r].probed)
                 + Cardinality(Carried(r)) = Cardinality(Rows(facts[r]))
<1>1. RowsInv(r) /\ r # NoRow
  BY RunTypes DEF Ticking, TickStages, RunInv, NoRow, Runs
<1>2. \A k \in Packages : k \in Rows(facts[r]) <=>
          k \in loc[r].probed \/ k \in loc[r].found \/ k \in Rows(loc[r].prev)
  BY <1>1 DEF RowsInv, Rows, NoRow, Shallow
<1>3. Rows(facts[r]) = DiscoveredKept(r) \cup loc[r].probed \cup Carried(r)
  <2>1. loc[r].probed \subseteq Packages /\ loc[r].found \subseteq Packages
        /\ Rows(loc[r].prev) \subseteq Packages /\ Rows(facts[r]) \subseteq Packages
    BY RunTypes DEF Rows
  <2> QED BY <1>2, <2>1 DEF DiscoveredKept, Carried
<1> DEFINE A == DiscoveredKept(r)
           B == loc[r].probed
           C == Carried(r)
<1>4. /\ A \in SUBSET Packages /\ B \in SUBSET Packages /\ C \in SUBSET Packages
      /\ A \cap B = {} /\ A \cap C = {} /\ B \cap C = {}
  BY RunTypes DEF DiscoveredKept, Carried, Rows
<1>5. Rows(facts[r]) = A \cup B \cup C
  BY <1>3
<1> HIDE DEF A, B, C
<1>6. Cardinality(A) + Cardinality(B) + Cardinality(C) = Cardinality(Rows(facts[r]))
  BY <1>4, <1>5, ThreeParts
<1> QED BY <1>2, <1>6 DEF A, B, C

(***************************************************************************)
(* The header that is written satisfies EntryInv.                          *)
(***************************************************************************)
LEMMA CreateHeaderInv == ASSUME TickInv, NEW r \in Runs, CreateHeader(r) PROVE TickInv'
<1> DEFINE h == [run |-> r, stage |-> "complete",
                 total |-> Cardinality(DiscoveredKept(r)) + Cardinality(loc[r].probed)
                              + Cardinality(Carried(r)),
                 whole |-> Whole(r), upto |-> loc[r].upto]
<1>1. /\ pc[r] = "header" /\ pc' = [pc EXCEPT ![r] = "done"]
      /\ loc' = [loc EXCEPT ![r] = Blank] /\ log' = Append(log, h)
      /\ UNCHANGED <<head, started, facts>>
  BY DEF CreateHeader, Goto
<1>2. /\ RunInv(r) /\ RowsInv(r) /\ WalkInv(r) /\ PastOnly(facts[r], r)
      /\ r <= started /\ log \in Seq(Header)
  BY <1>1, RunTypes DEF Ticking, TickStages, RunInv, TickInv, OrderInv, TypeOK, Runs
<1>3. /\ h.run = r /\ h.upto = loc[r].upto /\ h.whole = Whole(r)
      /\ h.total = Cardinality(Rows(facts[r]))
  BY <1>1, HeaderCount
<1>4. h.whole => Rows(facts[r]) = 1 .. h.upto
  <2>1. SUFFICES ASSUME Whole(r) PROVE Rows(facts[r]) = 1 .. loc[r].upto
    OBVIOUS
  <2>2. Rows(loc[r].prev) \cup loc[r].found = 1 .. loc[r].upto
    BY <1>2, <2>1 DEF Whole, WalkInv
  <2>3. loc[r].probed \subseteq 1 .. loc[r].upto
    BY <2>1 DEF Whole
  <2> QED BY <1>1, HeaderCount, <2>2, <2>3, RunTypes DEF Rows
<1>5. h \in Header
  <2>1. Whole(r) \in BOOLEAN /\ loc[r].upto \in 0 .. MaxPackages
    BY RunTypes DEF Whole
  <2>2. Cardinality(Rows(facts[r])) \in 0 .. MaxPackages
    BY PackageCount DEF Rows
  <2>3. h = [run |-> r, stage |-> "complete", total |-> Cardinality(Rows(facts[r])),
             whole |-> Whole(r), upto |-> loc[r].upto]
    BY <1>1, HeaderCount
  <2> QED BY <2>1, <2>2, <2>3 DEF Header
<1>6. PICK x \in Header : x = h
  BY <1>5
<1> HIDE DEF h
<1>7. /\ x.run = r /\ x.upto <= head /\ x.total = Cardinality(Rows(facts[r]))
      /\ x.whole => Rows(facts[r]) = 1 .. x.upto
  BY <1>2, <1>3, <1>4, <1>6 DEF WalkInv
<1>8. log' \in Seq(Header)
      /\ \A i \in DOMAIN log' : log'[i] = x \/ (\E j \in DOMAIN log : log'[i] = log[j])
  BY <1>1, <1>2, <1>6
<1>9. pc'[r] = "done" /\ facts'[r] = facts[r] /\ loc'[r] = Blank
  BY <1>1, RunTypes DEF TypeOK
<1>10. EntryInv(x)'
  BY <1>1, <1>2, <1>7, <1>9 DEF EntryInv, Rows
<1>11. \A i \in DOMAIN log' : EntryInv(log[i])' \/ (\E j \in DOMAIN log : log'[i] = log[j])
  BY <1>8, <1>10 DEF EntryInv
<1>12. RunInv(r)'
  BY <1>1, <1>2, <1>9 DEF RunInv, PastOnly, Ticking, TickStages
<1>13. Blank \in Local /\ facts[r] \in [Packages -> Facts]
       /\ facts' = [facts EXCEPT ![r] = facts[r]]
  BY <1>1, RunTypes, BlankType DEF TypeOK
<1>14. UNCHANGED head /\ started' = started /\ pc[r] # "done"
  BY <1>1
<1> QED BY <1>1, <1>2, <1>8, <1>11, <1>12, <1>13, <1>14, RunStep DEF Stages

(***************************************************************************)
(* A run that starts is idle, has no rows, and finds in the newest         *)
(* snapshot only facts of earlier runs about packages on chain.            *)
(***************************************************************************)
LEMMA StartTypes ==
    ASSUME TickInv, NEW r \in Runs, r = started + 1
    PROVE  /\ pc[r] = "idle" /\ facts[r] = Empty /\ loc[r] = Blank /\ PastOnly(Empty, r)
           /\ facts' = facts => facts' = [facts EXCEPT ![r] = Empty]
           /\ Empty \in [Packages -> Facts]
<1>1. pc[r] = "idle" /\ RunInv(r)
  BY RunTypes DEF TickInv, OrderInv
<1>2. facts[r] = Empty /\ loc[r] = Blank /\ PastOnly(facts[r], r)
  BY <1>1 DEF RunInv
<1> QED BY <1>1, <1>2, RunTypes DEF TypeOK

(***************************************************************************)
(* The previous snapshot holds facts of runs before r, and is a whole      *)
(* prefix if marked so.                                                    *)
(***************************************************************************)
LEMMA PreviousPast ==
    ASSUME TickInv, NEW r \in Runs, r = started + 1
    PROVE  /\ Previous \in [Packages -> Facts] /\ PastOnly(Previous, r)
           /\ log # <<>> /\ log[Len(log)].whole
                 => \E u \in 0 .. MaxPackages : Rows(Previous) = 1 .. u
<1>1. CASE log = <<>>
  BY <1>1, StartTypes DEF Previous
<1>2. CASE log # <<>>
  <2>1. log \in Seq(Header) /\ Len(log) \in DOMAIN log
    BY <1>2 DEF TickInv, TypeOK
  <2> DEFINE h == log[Len(log)]
  <2>2. h \in Header /\ h.run \in Runs /\ EntryInv(h)
    BY <2>1, LogEntry DEF TickInv, LogInv
  <2> HIDE DEF h
  <2>3. /\ facts[h.run] \in [Packages -> Facts] /\ PastOnly(facts[h.run], h.run)
        /\ h.run \in Int /\ h.run <= started /\ started \in Nat
    BY <2>2, RunTypes DEF RunInv, EntryInv
  <2>4. PastOnly(facts[h.run], r)
    <3>1. \A k \in Packages : facts[h.run][k] \in Int
      BY <2>3, RunTypes DEF Facts, NoRow, Shallow, Runs
    <3> QED BY <2>3, <3>1 DEF PastOnly
  <2>5. h.whole => Rows(facts[h.run]) = 1 .. h.upto /\ h.upto \in 0 .. MaxPackages
    BY <2>2 DEF EntryInv, Header
  <2>6. Previous = facts[h.run]
    BY <1>2 DEF Previous, h
  <2> QED BY <2>3, <2>4, <2>5, <2>6 DEF h
<1> QED BY <1>1, <1>2

(***************************************************************************)
(* A tick begins with an empty walk over the previous snapshot.            *)
(***************************************************************************)
LEMMA BeginInv == ASSUME TickInv, NEW r \in Runs, Begin(r) PROVE TickInv'
<1> DEFINE b == log # <<>> /\ log[Len(log)].whole
           v == Task(Previous, b, {}, {})
<1>1. /\ r = started + 1 /\ started' = r /\ pc' = [pc EXCEPT ![r] = "walk"]
      /\ loc' = [loc EXCEPT ![r] = v] /\ UNCHANGED <<head, facts, log>>
  BY DEF Begin, Goto
<1>2. /\ pc[r] = "idle" /\ facts[r] = Empty /\ PastOnly(Empty, r)
      /\ facts' = [facts EXCEPT ![r] = Empty] /\ Empty \in [Packages -> Facts]
  BY <1>1, StartTypes
<1>3. /\ Previous \in [Packages -> Facts] /\ PastOnly(Previous, r)
      /\ b => \E u \in 0 .. MaxPackages : Rows(Previous) = 1 .. u
  BY <1>1, PreviousPast
<1>4. b \in BOOLEAN
  <2>1. log # <<>> => Len(log) \in DOMAIN log
    BY DEF TickInv, TypeOK
  <2>2. log # <<>> => log[Len(log)].whole \in BOOLEAN
    BY <2>1, LogEntry DEF TickInv, Header
  <2> QED BY <2>2
<1> HIDE DEF b
<1>5. v \in Local
  BY <1>3, <1>4, BlankType
<1>6. /\ v.prev = Previous /\ v.at = MaxPackages /\ v.found = {} /\ v.ended = FALSE
      /\ v.probed = {} /\ v.base = b /\ v.upto = 0
  BY DEF Task
<1> HIDE DEF v
<1>7. pc'[r] = "walk" /\ facts'[r] = Empty /\ loc'[r] = v
  BY <1>1, <1>2, RunTypes DEF TypeOK
<1>8. WalkInv(r)'
  <2>1. v.found = {k \in Packages : v.at < k /\ k <= v.upto}
    BY <1>6, TestnetAssumption DEF Packages
  <2> QED BY <1>1, <1>3, <1>6, <1>7, <2>1, RunTypes DEF WalkInv, Rows
<1>9. PastOnly(facts[r], r)' /\ PastOnly(loc[r].prev, r)' /\ OnChain(loc[r].found)'
      /\ OnChain(loc[r].probed)'
  BY <1>1, <1>2, <1>3, <1>6, <1>7 DEF PastOnly, OnChain
<1>10. RunInv(r)'
  BY <1>6, <1>7, <1>8, <1>9 DEF RunInv, RowsInv, Empty
<1>11. log' \in Seq(Header) /\ \A i \in DOMAIN log' : \E j \in DOMAIN log : log'[i] = log[j]
  BY <1>1 DEF TickInv, TypeOK
<1> QED BY <1>1, <1>2, <1>5, <1>10, <1>11, RunStep DEF Stages, TickStages

(***************************************************************************)
(* The backfill.                                                           *)
(***************************************************************************)
LEMMA BulkBeginInv == ASSUME TickInv, NEW r \in Runs, BulkBegin(r) PROVE TickInv'
<1>1. /\ r = started + 1 /\ started' = r /\ pc' = [pc EXCEPT ![r] = "bulk"]
      /\ UNCHANGED <<head, facts>>
      /\ log' = Append(log, [run |-> r, stage |-> "partial", total |-> 0,
                              whole |-> FALSE, upto |-> 0])
  BY DEF BulkBegin, Goto
<1>2. PICK file \in SUBSET (1 .. head) :
          loc' = [loc EXCEPT ![r] = Task(Empty, FALSE, file \cup Known, {})]
  BY DEF BulkBegin
<1> DEFINE K == file \cup Known
           v == Task(Empty, FALSE, K, {})
<1>3. K \in SUBSET Packages /\ OnChain(K)
  <2>1. \A q \in Runs : PastOnly(facts[q], q)
    BY DEF TickInv, RunInv
  <2>2. \A k \in Known : k \in Packages /\ k <= head
    BY <2>1 DEF Known, PastOnly
  <2>3. head \in Nat /\ head <= MaxPackages /\ MaxPackages \in Nat
    BY RunTypes, TestnetAssumption
  <2>4. \A k \in file : k \in Packages /\ k <= head
    BY <2>3 DEF Packages
  <2> QED BY <2>2, <2>4 DEF OnChain
<1> HIDE DEF K
<1>4. /\ pc[r] = "idle" /\ facts[r] = Empty /\ PastOnly(Empty, r) /\ loc[r] = Blank
      /\ facts' = [facts EXCEPT ![r] = Empty] /\ Empty \in [Packages -> Facts]
  BY <1>1, StartTypes
<1>5. v \in Local /\ v.probed = {} /\ v.todo = K
  BY <1>3, BlankType DEF Task
<1>6. loc' = [loc EXCEPT ![r] = v]
  BY <1>2 DEF K
<1> HIDE DEF v
<1>7. pc'[r] = "bulk" /\ facts'[r] = Empty /\ loc'[r] = v
  BY <1>1, <1>4, <1>6, RunTypes DEF TypeOK
<1>8. OnChain(loc[r].todo)' /\ PastOnly(facts[r], r)' /\ Rows(facts[r])' = loc'[r].probed
  BY <1>1, <1>3, <1>4, <1>5, <1>7 DEF OnChain, PastOnly, Rows, Empty
<1>9. RunInv(r)'
  BY <1>7, <1>8 DEF RunInv, Ticking, TickStages
<1> DEFINE x == [run |-> r, stage |-> "partial", total |-> 0, whole |-> FALSE, upto |-> 0]
<1>9a. x \in Header
  BY TestnetAssumption DEF Header
<1>10. PICK h \in Header : h = x
  BY <1>9a
<1>11. h.run = r /\ h.stage = "partial" /\ h.whole = FALSE
  BY <1>10
<1>12. EntryInv(h)'
  BY <1>1, <1>11, RunTypes DEF EntryInv
<1>13. log' \in Seq(Header)
       /\ \A i \in DOMAIN log' : log'[i] = h \/ (\E j \in DOMAIN log : log'[i] = log[j])
  BY <1>1, <1>10 DEF TickInv, TypeOK
<1>14. \A i \in DOMAIN log' : EntryInv(log[i])' \/ (\E j \in DOMAIN log : log'[i] = log[j])
  BY <1>12, <1>13 DEF EntryInv
<1> QED BY <1>1, <1>4, <1>5, <1>6, <1>9, <1>13, <1>14, RunStep DEF Stages, TickStages

(***************************************************************************)
(* The rows of a backfill are the packages it counts as probed.            *)
(***************************************************************************)
LEMMA BulkChunkInv == ASSUME TickInv, NEW r \in Runs, BulkChunk(r) PROVE TickInv'
<1>1. PICK K \in SUBSET loc[r].todo : \E F \in SUBSET K :
          /\ Insert(r, K \ F, [k \in Packages |-> r])
          /\ loc' = [loc EXCEPT ![r] = Task(Empty, FALSE, loc[r].todo \ K,
                                           loc[r].probed \cup (K \ F))]
  BY DEF BulkChunk
<1>2a. PICK F \in SUBSET K :
          /\ Insert(r, K \ F, [k \in Packages |-> r])
          /\ loc' = [loc EXCEPT ![r] = Task(Empty, FALSE, loc[r].todo \ K,
                                           loc[r].probed \cup (K \ F))]
  BY <1>1
<1>2. pc[r] = "bulk" /\ UNCHANGED <<head, started, log, pc>>
  BY DEF BulkChunk
<1> DEFINE N == K \ F
           f == [k \in Packages |-> IF k \in N THEN r ELSE facts[r][k]]
           w == loc[r]
           v == Task(Empty, FALSE, w.todo \ K, w.probed \cup N)
<1>3. /\ RunInv(r) /\ PastOnly(facts[r], r) /\ OnChain(w.todo) /\ Rows(facts[r]) = w.probed
      /\ K \in SUBSET Packages /\ N \in SUBSET Packages
  BY <1>2, RunTypes DEF RunInv
<1>4. facts' = [facts EXCEPT ![r] = f]
  BY <1>2a DEF Insert
<1>5. loc' = [loc EXCEPT ![r] = v] /\ v \in Local
  BY <1>2a, <1>3, RunTypes, BlankType
<1>6. f \in [Packages -> Facts] /\ PastOnly(f, r)
  BY <1>3, RunTypes DEF PastOnly, OnChain, Facts
<1>7. Rows(f) = w.probed \cup N
  BY <1>3, RunTypes DEF Rows, NoRow, Runs
<1>8. OnChain(v.todo) /\ v.probed = w.probed \cup N
  BY <1>3 DEF OnChain, Task
<1> HIDE DEF v, f, N
<1>9. pc'[r] = "bulk" /\ facts'[r] = f /\ loc'[r] = v
  BY <1>2, <1>4, <1>5, RunTypes DEF TypeOK
<1>10. RunInv(r)'
  BY <1>2, <1>6, <1>7, <1>8, <1>9 DEF RunInv, PastOnly, OnChain, Rows, Ticking, TickStages
<1>11. pc' = [pc EXCEPT ![r] = "bulk"]
  BY <1>2, RunTypes DEF TypeOK
<1> QED BY <1>2, <1>4, <1>5, <1>6, <1>10, <1>11, RowStep DEF Stages

(***************************************************************************)
(* The promoted header counts the rows of its run.                         *)
(***************************************************************************)
LEMMA PromoteInv == ASSUME TickInv, NEW r \in Runs, Promote(r) PROVE TickInv'
<1> DEFINE x == [run |-> r, stage |-> "complete", total |-> Cardinality(loc[r].probed),
                 whole |-> FALSE, upto |-> 0]
<1>1. /\ pc[r] = "bulk" /\ pc' = [pc EXCEPT ![r] = "done"]
      /\ loc' = [loc EXCEPT ![r] = Blank] /\ UNCHANGED <<head, started, facts>>
      /\ log' = [i \in DOMAIN log |-> IF log[i].run = r THEN x ELSE log[i]]
  BY DEF Promote, Goto
<1>2. /\ PastOnly(facts[r], r) /\ Rows(facts[r]) = loc[r].probed /\ r <= started
      /\ log \in Seq(Header)
  BY <1>1, RunTypes DEF RunInv, TickInv, OrderInv, TypeOK, Runs
<1>3. x \in Header
  BY RunTypes, PackageCount, TestnetAssumption DEF Header
<1>4. PICK h \in Header : h = x
  BY <1>3
<1>5. h.run = r /\ h.whole = FALSE /\ h.total = Cardinality(Rows(facts[r]))
  BY <1>2, <1>4
<1> HIDE DEF x
<1>6. /\ DOMAIN log' = DOMAIN log
      /\ \A i \in DOMAIN log' : log'[i] = h \/ log'[i] = log[i]
  BY <1>1, <1>4
<1>7. log' \in Seq(Header)
  <2>1. /\ Len(log) \in Nat /\ DOMAIN log = 1 .. Len(log)
        /\ \A i \in DOMAIN log : log[i] \in Header
    BY <1>2
  <2>2. log' \in [1 .. Len(log) -> Header]
    BY <1>1, <1>4, <2>1
  <2> QED BY <2>1, <2>2, SeqDef
<1>8. pc'[r] = "done" /\ facts'[r] = facts[r] /\ loc'[r] = Blank
  BY <1>1, RunTypes DEF TypeOK
<1>9. EntryInv(h)'
  BY <1>1, <1>2, <1>5, <1>8 DEF EntryInv, Rows
<1>10. \A i \in DOMAIN log' : EntryInv(log[i])' \/ (\E j \in DOMAIN log : log'[i] = log[j])
  BY <1>6, <1>9 DEF EntryInv
<1>11. RunInv(r)'
  BY <1>1, <1>2, <1>8 DEF RunInv, PastOnly, Ticking, TickStages
<1>12. Blank \in Local /\ facts[r] \in [Packages -> Facts]
       /\ facts' = [facts EXCEPT ![r] = facts[r]]
  BY <1>1, RunTypes, BlankType DEF TypeOK
<1>13. head' = head /\ started' = started /\ pc[r] # "done"
  BY <1>1
<1> QED BY <1>1, <1>2, <1>7, <1>10, <1>11, <1>12, <1>13, RunStep DEF Stages

(***************************************************************************)
(* A run that dies leaves rows of its own past behind, and no header that  *)
(* is published.                                                           *)
(***************************************************************************)
LEMMA DiesInv ==
    ASSUME TickInv, NEW r \in Runs, pc[r] \notin {"idle", "done"}, Dies(r),
           NEW f \in [Packages -> Facts], facts' = [facts EXCEPT ![r] = f], PastOnly(f, r)
    PROVE  TickInv'
<1>1. /\ pc' = [pc EXCEPT ![r] = "dead"] /\ loc' = [loc EXCEPT ![r] = Blank]
      /\ UNCHANGED <<head, started, log>>
  BY DEF Dies, Goto
<1>2. pc'[r] = "dead" /\ facts'[r] = f
  BY <1>1, RunTypes DEF TypeOK
<1>3. RunInv(r)'
  BY <1>1, <1>2 DEF RunInv, PastOnly, Ticking, TickStages
<1> QED BY <1>1, <1>3, BlankType, RowStep DEF Stages

(***************************************************************************)
(* A death between two writes.                                             *)
(***************************************************************************)
LEMMA DieInv == ASSUME TickInv, NEW r \in Runs, Die(r) PROVE TickInv'
<1>1. facts[r] \in [Packages -> Facts] /\ facts' = [facts EXCEPT ![r] = facts[r]]
      /\ PastOnly(facts[r], r)
  BY RunTypes DEF Die, TypeOK, RunInv
<1>2. pc[r] \notin {"idle", "done"} /\ Dies(r)
  BY DEF Die, Ticking, TickStages
<1> QED BY <1>1, <1>2, DiesInv

(***************************************************************************)
(* A death inside a write, after any part of its rows.                     *)
(***************************************************************************)
LEMMA InsertDiesInv == ASSUME TickInv, NEW r \in Runs, InsertDies(r) PROVE TickInv'
<1>1. pc[r] \notin {"idle", "done"} /\ Dies(r)
  BY DEF InsertDies
<1>2. ASSUME NEW K \in SUBSET Packages, NEW g, Insert(r, K, g), OnChain(K),
             \A k \in K : g[k] \in Facts /\ g[k] <= r
      PROVE  TickInv'
  <2> DEFINE f == [k \in Packages |-> IF k \in K THEN g[k] ELSE facts[r][k]]
  <2>1. facts' = [facts EXCEPT ![r] = f]
    BY <1>2 DEF Insert
  <2>2. f \in [Packages -> Facts] /\ PastOnly(f, r)
    BY <1>2, RunTypes DEF RunInv, PastOnly, OnChain
  <2> QED BY <1>1, <2>1, <2>2, DiesInv
<1>3. r \in Facts /\ Shallow \in Facts /\ Shallow <= r
  BY DEF Facts, Shallow, Runs
<1>4. CASE pc[r] = "shallow" /\ \E K \in SUBSET loc[r].found :
                                    Insert(r, K, [k \in Packages |-> Shallow])
  <2>1. PICK K \in SUBSET loc[r].found : Insert(r, K, [k \in Packages |-> Shallow])
    BY <1>4
  <2>2. K \in SUBSET Packages /\ OnChain(K)
    BY <1>4, RunTypes DEF RunInv, Ticking, TickStages, OnChain
  <2> QED BY <1>2, <1>3, <2>1, <2>2
<1>5. CASE pc[r] = "deep" /\ \E K \in SUBSET loc[r].probed :
                                 Insert(r, K, [k \in Packages |-> r])
  <2>1. PICK K \in SUBSET loc[r].probed : Insert(r, K, [k \in Packages |-> r])
    BY <1>5
  <2>2. K \in SUBSET Packages /\ OnChain(K)
    BY <1>5, RunTypes DEF RunInv, Ticking, TickStages, OnChain
  <2> QED BY <1>2, <1>3, <2>1, <2>2, RunTypes
<1>6. CASE pc[r] = "carry" /\ \E K \in SUBSET Carried(r) : Insert(r, K, loc[r].prev)
  <2>1. PICK K \in SUBSET Carried(r) : Insert(r, K, loc[r].prev)
    BY <1>6
  <2>2. PastOnly(loc[r].prev, r)
    BY <1>6, RunTypes DEF RunInv, Ticking, TickStages
  <2>3. K \in SUBSET Packages /\ OnChain(K) /\ \A k \in K : loc[r].prev[k] <= r
    BY <2>2 DEF Carried, Rows, OnChain, PastOnly
  <2>4. \A k \in K : loc[r].prev[k] \in Facts
    BY <2>3, RunTypes
  <2> QED BY <1>2, <2>1, <2>3, <2>4
<1>7. CASE pc[r] = "bulk" /\ \E K \in SUBSET loc[r].todo :
                                 Insert(r, K, [k \in Packages |-> r])
  <2>1. PICK K \in SUBSET loc[r].todo : Insert(r, K, [k \in Packages |-> r])
    BY <1>7
  <2>2. K \in SUBSET Packages /\ OnChain(K)
    BY <1>7, RunTypes DEF RunInv, OnChain
  <2> QED BY <1>2, <1>3, <2>1, <2>2, RunTypes
<1> QED BY <1>4, <1>5, <1>6, <1>7 DEF InsertDies

(***************************************************************************)
(* The chain.                                                              *)
(***************************************************************************)
LEMMA PublishInv == ASSUME TickInv, Publish PROVE TickInv'
<1>1. /\ TypeOK /\ head \in Nat /\ started \in Nat /\ head < MaxPackages /\ head' = head + 1
      /\ UNCHANGED <<started, facts, log, pc, loc>>
  BY TestnetAssumption DEF Publish, TickInv, TypeOK
<1>2. TypeOK' /\ OrderInv'
  BY <1>1, TestnetAssumption DEF TypeOK, OrderInv, TickInv
<1>3. ASSUME NEW r \in Runs PROVE RunInv(r)'
  <2>1. facts'[r] = facts[r] /\ pc'[r] = pc[r] /\ loc'[r] = loc[r] /\ RunInv(r)
    BY <1>1 DEF TickInv
  <2> QED BY <1>1, <2>1, RunKept
<1>4. LogInv'
  <2>1. ASSUME NEW h \in Header, EntryInv(h) PROVE EntryInv(h)'
    BY <1>1, <2>1, EntryKept
  <2>2. \A j \in DOMAIN log : log[j] \in Header /\ EntryInv(log[j])
    BY <1>1, LogEntry DEF TickInv, LogInv
  <2>3. log' = log
    BY <1>1
  <2> QED BY <2>1, <2>2, <2>3 DEF LogInv, EntryInv
<1> QED BY <1>2, <1>3, <1>4 DEF TickInv

(***************************************************************************)
(* TickInv is an invariant.                                                *)
(***************************************************************************)
LEMMA InitInv == Init => TickInv
<1> SUFFICES ASSUME Init PROVE TickInv
  OBVIOUS
<1>1. TypeOK
  BY BlankType, TestnetAssumption DEF Init, TypeOK
<1>2. OrderInv
  BY DEF Init, OrderInv, Runs
<1>3. ASSUME NEW r \in Runs PROVE RunInv(r)
  <2>1. pc[r] = "idle" /\ facts[r] = Empty /\ loc[r] = Blank
    BY DEF Init
  <2>2. PastOnly(Empty, r)
    BY DEF PastOnly, Empty, NoRow, Runs
  <2> QED BY <2>1, <2>2 DEF RunInv, Ticking, TickStages
<1>4. LogInv
  BY DEF Init, LogInv
<1> QED BY <1>1, <1>2, <1>3, <1>4 DEF TickInv

(***************************************************************************)
(* Every step preserves the invariant.                                     *)
(***************************************************************************)
LEMMA NextInv == TickInv /\ [Next]_vars => TickInv'
<1> SUFFICES ASSUME TickInv, [Next]_vars PROVE TickInv'
  OBVIOUS
<1>1. CASE UNCHANGED vars
  <2>1. /\ TypeOK /\ head \in Nat /\ started \in Nat
        /\ head' = head /\ started' = started /\ facts' = facts
        /\ log' = log /\ pc' = pc /\ loc' = loc
    BY <1>1, TestnetAssumption DEF TickInv, TypeOK, vars
  <2>2. TypeOK' /\ OrderInv'
    BY <2>1 DEF TypeOK, OrderInv, TickInv
  <2>3. \A r \in Runs : RunInv(r)'
    BY <2>1, RunKept DEF TickInv
  <2>4. LogInv'
    BY <2>1 DEF TickInv, LogInv, EntryInv, Rows
  <2> QED BY <2>2, <2>3, <2>4 DEF TickInv
<1>2. CASE Publish
  BY <1>2, PublishInv
<1>3. ASSUME NEW r \in Runs, TickStep(r) PROVE TickInv'
  BY <1>3, BeginInv, FetchPageInv, DeadlineInv, WalkCutInv, InsertShallowInv, DeepProbeInv,
     DropShallowInv, InsertDeepInv, CarryForwardInv, CreateHeaderInv DEF TickStep
<1>4. ASSUME NEW r \in Runs, BulkStep(r) PROVE TickInv'
  BY <1>4, BulkBeginInv, BulkChunkInv, PromoteInv DEF BulkStep
<1> QED BY <1>1, <1>2, <1>3, <1>4, DieInv, InsertDiesInv DEF Next

(***************************************************************************)
(* TickInv holds in every reachable state of the tick and the backfill.    *)
(***************************************************************************)
THEOREM TickInvariant == Spec => []TickInv
  BY InitInv, NextInv, PTL DEF Spec

(***************************************************************************)
(* The state has the types that TypeOK states; in particular no total ever *)
(* exceeds the number of packages published.                               *)
(***************************************************************************)
THEOREM TypeCorrect == Spec => []TypeOK
<1>1. TickInv => TypeOK
  BY DEF TickInv
<1> QED BY <1>1, TickInvariant, PTL

(***************************************************************************)
(* The total of every published header agrees with the rows stored for it. *)
(***************************************************************************)
THEOREM TotalsRight == Spec => []TotalCountsRows
<1>1. TickInv => TotalCountsRows
  BY DEF TickInv, LogInv, EntryInv, TotalCountsRows, Published
<1> QED BY <1>1, TickInvariant, PTL

(***************************************************************************)
(* No tick publishes a package later than, or without, the probe that the  *)
(* previous snapshot holds of it.                                          *)
(***************************************************************************)
THEOREM NothingRewinds == Spec => []KeepsPrevious
<1>1. ASSUME TickInv PROVE KeepsPrevious
  <2>1. SUFFICES ASSUME NEW r \in Runs, pc[r] = "header", NEW k \in Packages
                 PROVE  facts[r][k] >= loc[r].prev[k]
    BY DEF KeepsPrevious
  <2>2. PastOnly(loc[r].prev, r) /\ WalkInv(r) /\ RowsInv(r)
    BY <1>1, <2>1, RunTypes DEF RunInv, Ticking, TickStages
  <2>3. facts[r][k] \in Int /\ loc[r].prev[k] \in Int /\ r \in Int
    BY <1>1, RunTypes DEF Facts, NoRow, Shallow, Runs
  <2> QED BY <2>1, <2>2, <2>3 DEF PastOnly, WalkInv, RowsInv, NoRow, Shallow
<1> QED BY <1>1, TickInvariant, PTL

(***************************************************************************)
(* A whole snapshot holds exactly the packages on chain when its walk      *)
(* began.                                                                  *)
(***************************************************************************)
THEOREM ChainCovered == Spec => []CoversChain
<1>1. TickInv => CoversChain
  BY DEF TickInv, LogInv, EntryInv, CoversChain, Published
<1> QED BY <1>1, TickInvariant, PTL

================================================================================
