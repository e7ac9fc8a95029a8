------------------------------ MODULE TestnetTick -------------------------------
(***************************************************************************)
(* The testnet capture: captureTestnetTick with its two pipelines          *)
(* runTestnetDiscoveryTick and runTestnetDeepProbeTick, and the bulk       *)
(* command backfillTestnetFromAddressList, in                              *)
(* src/api/src/ecosystem/ecosystem.service.ts.                             *)
(*                                                                         *)
(* A tick discovers packages newest first until it meets one that the      *)
(* previous snapshot knows, probes every non-tutorial package that has a   *)
(* row in any snapshot, copies the rest forward and writes its header      *)
(* last.  A backfill writes its header first, as partial, and takes no     *)
(* lock.  Every database write is an action of its own; every insert may   *)
(* fail half-way, and a run may die anywhere.                              *)
(*                                                                         *)
(* Abstractions: packages are numbered in the order they were published; a *)
(* fact is the run that probed it last, Shallow if none has, NoRow if it   *)
(* is not stored.  The total of a header counts one unit of storage rebate *)
(* for each package.  Ticks follow each other: the lock document `testnet` *)
(* and the in-process flag see to it, as in CaptureLock.  The diagnostic   *)
(* cursor document is left out.                                            *)
(***************************************************************************)
EXTENDS Integers, Sequences, FiniteSets

CONSTANTS
    MaxRuns,      \* ticks and backfills ever started
    MaxPackages,  \* packages ever published
    PageSize,     \* packages of one page, 50
    Tutorials     \* the packages with a tutorial signature

Runs == 1 .. MaxRuns
Packages == 1 .. MaxPackages

ASSUME TestnetAssumption ==
    /\ MaxRuns \in Nat /\ MaxPackages \in Nat
    /\ PageSize \in Nat \ {0}
    /\ Tutorials \subseteq Packages

NoRow == -1
Shallow == 0
Facts == {NoRow, Shallow} \cup Runs
Empty == [k \in Packages |-> NoRow]

VARIABLES
    head,      \* packages on chain
    started,   \* runs started so far
    facts,     \* packagefacts: the rows of each run's snapshot
    log,       \* onchainsnapshots: the headers, in the order of createdAt
    pc,        \* the stage of each run
    loc        \* the local variables of each run

vars == <<head, started, facts, log, pc, loc>>

Rows(f) == {k \in Packages : f[k] # NoRow}

\* prev: previousByAddress; at: the newest package the next page may hold;
\* found: discovered; late: deadlineHit; ended: hitFreshWindow or wrapped;
\* probed: deepProbed; todo: what is left of a backfill's list.
\* History: base: is the previous snapshot whole; upto: head at the first page.
Task(prev, base, todo, probed) ==
    [prev |-> prev, at |-> MaxPackages, found |-> {}, late |-> FALSE, ended |-> FALSE,
     probed |-> probed, todo |-> todo, base |-> base, upto |-> 0]

Blank == Task(Empty, FALSE, {}, {})

Local == [prev : [Packages -> Facts], at : 0 .. MaxPackages, found : SUBSET Packages,
          late : BOOLEAN, ended : BOOLEAN, probed : SUBSET Packages,
          todo : SUBSET Packages, base : BOOLEAN, upto : 0 .. MaxPackages]

\* whole, upto: history, see CoversChain.
Header == [run : Runs, stage : {"partial", "complete"}, total : 0 .. MaxPackages,
           whole : BOOLEAN, upto : 0 .. MaxPackages]

TickStages == {"walk", "shallow", "probe", "drop", "deep", "carry", "header"}

TypeOK ==
    /\ head \in 0 .. MaxPackages
    /\ started \in 0 .. MaxRuns
    /\ facts \in [Runs -> [Packages -> Facts]]
    /\ log \in Seq(Header)
    /\ pc \in [Runs -> TickStages \cup {"idle", "bulk", "done", "dead"}]
    /\ loc \in [Runs -> Local]

Init ==
    /\ head \in 0 .. MaxPackages
    /\ started = 0
    /\ facts = [r \in Runs |-> Empty]
    /\ log = <<>>
    /\ pc = [r \in Runs |-> "idle"]
    /\ loc = [r \in Runs |-> Blank]

Ticking(r) == pc[r] \in TickStages

(***************************************************************************)
(* insertMany, unordered, under the unique index (snapshotId, address).    *)
(***************************************************************************)
Insert(r, K, f) == facts' = [facts EXCEPT ![r] = [k \in Packages |-> IF k \in K THEN f[k] ELSE @[k]]]

Collides(r, K) == K \cap Rows(facts[r]) # {}

Goto(r, stage) == pc' = [pc EXCEPT ![r] = stage]

(***************************************************************************)
(* The chain: a package is published.                                      *)
(***************************************************************************)
Publish ==
    /\ head < MaxPackages
    /\ head' = head + 1
    /\ UNCHANGED <<started, facts, log, pc, loc>>

(***************************************************************************)
(* A tick starts: the newest header, of any stage, is the previous         *)
(* snapshot.  The other runs of the network are kept out by the lock.      *)
(***************************************************************************)
Previous == IF log = <<>> THEN Empty ELSE facts[log[Len(log)].run]

Begin(r) ==
    /\ r = started + 1
    /\ \A q \in Runs : ~Ticking(q)
    /\ started' = r
    /\ Goto(r, "walk")
    /\ loc' = [loc EXCEPT ![r] = Task(Previous, log # <<>> /\ log[Len(log)].whole, {}, {})]
    /\ UNCHANGED <<head, facts, log>>

(***************************************************************************)
(* Pipeline A.  A page holds the newest packages below the cursor, newest  *)
(* first; the walk stops at the first one that prev knows.                 *)
(***************************************************************************)
Newest(r) == IF loc[r].at < head THEN loc[r].at ELSE head
Oldest(r) == IF Newest(r) > PageSize THEN Newest(r) - PageSize + 1 ELSE 1
Page(r) == Oldest(r) .. Newest(r)

\* Defect: known packages do not stop the walk (KeepsPrevious).
FreshAll(r) == Page(r)

\* Defect: a page that meets a known package is dropped (CoversChain).
FreshWholePages(r) == IF \E j \in Page(r) : loc[r].prev[j] # NoRow THEN {} ELSE Page(r)

\* The packages of the page down to the first known one.
Fresh(r) == {k \in Page(r) : \A j \in Page(r) : j >= k => loc[r].prev[j] = NoRow}

\* What a walk that discovers K on this page leaves behind.
Discover(r, K, late, ended) ==
    loc' = [loc EXCEPT ![r] =
               [prev |-> @.prev, at |-> Oldest(r) - 1, found |-> @.found \cup K,
                late |-> late, ended |-> ended, probed |-> {}, todo |-> {}, base |-> @.base,
                upto |-> IF Newest(r) > @.upto THEN Newest(r) ELSE @.upto]]

FetchPage(r) ==
    LET ended == Fresh(r) # Page(r) \/ Oldest(r) = 1 IN
    /\ pc[r] = "walk"
    /\ Discover(r, Fresh(r), FALSE, ended)
    /\ IF ended THEN Goto(r, "shallow") ELSE UNCHANGED pc
    /\ UNCHANGED <<head, started, facts, log>>

\* The budget ends between two packages of a page.
DeadlineInPage(r) ==
    /\ pc[r] = "walk"
    /\ \E k \in Fresh(r) : Discover(r, {j \in Fresh(r) : j >= k}, TRUE, FALSE)
    /\ Goto(r, "shallow")
    /\ UNCHANGED <<head, started, facts, log>>

\* The budget ends before a page, or the page cannot be fetched: the tick
\* goes on with what it has.
WalkCut(r) ==
    /\ pc[r] = "walk"
    /\ \E late \in BOOLEAN : loc' = [loc EXCEPT ![r].late = late]
    /\ Goto(r, "shallow")
    /\ UNCHANGED <<head, started, facts, log>>

InsertShallow(r) ==
    /\ pc[r] = "shallow"
    /\ Insert(r, loc[r].found, [k \in Packages |-> Shallow])
    /\ Goto(r, "probe")
    /\ UNCHANGED <<head, started, log, loc>>

(***************************************************************************)
(* Pipeline B: probe the pool, every non-tutorial package with a row in    *)
(* any snapshot.  Probes fail, packages vanish and the budget may end, so  *)
(* any part of the pool is probed; none if pipeline A was late.  The rows  *)
(* replace the shallow ones in two writes.                                 *)
(***************************************************************************)
Known == {k \in Packages : \E q \in Runs : facts[q][k] # NoRow}
Pool == Known \ Tutorials

DeepProbe(r) ==
    /\ pc[r] = "probe"
    /\ \E K \in SUBSET Pool :
          /\ loc[r].late => K = {}
          /\ loc' = [loc EXCEPT ![r].probed = K]
    /\ Goto(r, "drop")
    /\ UNCHANGED <<head, started, facts, log>>

DropShallow(r) ==
    /\ pc[r] = "drop"
    /\ facts' = [facts EXCEPT ![r] = [k \in Packages |->
                    IF k \in loc[r].probed THEN NoRow ELSE @[k]]]
    /\ Goto(r, "deep")
    /\ UNCHANGED <<head, started, log, loc>>

InsertDeep(r) ==
    /\ pc[r] = "deep" /\ ~Collides(r, loc[r].probed)
    /\ Insert(r, loc[r].probed, [k \in Packages |-> r])
    /\ Goto(r, "carry")
    /\ UNCHANGED <<head, started, log, loc>>

(***************************************************************************)
(* Copy-forward of what neither pipeline touched, then the header.         *)
(***************************************************************************)
Carried(r) == Rows(loc[r].prev) \ (loc[r].found \cup loc[r].probed)

\* Defect: a package in both pipelines counts twice (TypeOK, TotalCountsRows).
DiscoveredTwice(r) == loc[r].found

DiscoveredKept(r) == loc[r].found \ loc[r].probed

CarryForward(r) ==
    /\ pc[r] = "carry" /\ ~Collides(r, Carried(r))
    /\ Insert(r, Carried(r), loc[r].prev)
    /\ Goto(r, "header")
    /\ UNCHANGED <<head, started, log, loc>>

\* History: nothing cut this walk, it began from a whole snapshot or reached
\* genesis, and the pool held nothing newer than the walk.
Whole(r) ==
    /\ loc[r].ended
    /\ loc[r].base \/ loc[r].found = 1 .. loc[r].upto
    /\ loc[r].probed \subseteq 1 .. loc[r].upto

CreateHeader(r) ==
    /\ pc[r] = "header"
    /\ log' = Append(log,
          [run |-> r, stage |-> "complete",
           total |-> Cardinality(DiscoveredKept(r)) + Cardinality(loc[r].probed)
                        + Cardinality(Carried(r)),
           whole |-> Whole(r), upto |-> loc[r].upto])
    /\ Goto(r, "done")
    /\ loc' = [loc EXCEPT ![r] = Blank]
    /\ UNCHANGED <<head, started, facts>>

(***************************************************************************)
(* The bulk backfill: the header first, as partial; the packages of the    *)
(* list, which the command unions with every package that has a row, in    *)
(* chunks; then the promotion.                                             *)
(***************************************************************************)
BulkBegin(r) ==
    /\ r = started + 1
    /\ started' = r
    /\ \E file \in SUBSET (1 .. head) :
          loc' = [loc EXCEPT ![r] = Task(Empty, FALSE, file \cup Known, {})]
    /\ log' = Append(log, [run |-> r, stage |-> "partial", total |-> 0,
                           whole |-> FALSE, upto |-> 0])
    /\ Goto(r, "bulk")
    /\ UNCHANGED <<head, facts>>

\* The batches of one insert: K is settled, F of it failed.
BulkChunk(r) ==
    /\ pc[r] = "bulk"
    /\ \E K \in SUBSET loc[r].todo \ {{}} : \E F \in SUBSET K :
          /\ Insert(r, K \ F, [k \in Packages |-> r])
          /\ loc' = [loc EXCEPT ![r] = Task(Empty, FALSE, @.todo \ K, @.probed \cup (K \ F))]
    /\ UNCHANGED <<head, started, log, pc>>

Promote(r) ==
    /\ pc[r] = "bulk" /\ loc[r].todo = {}
    /\ log' = [i \in DOMAIN log |->
                  IF log[i].run = r
                  THEN [run |-> r, stage |-> "complete", total |-> Cardinality(loc[r].probed),
                        whole |-> FALSE, upto |-> 0]
                  ELSE log[i]]
    /\ Goto(r, "done")
    /\ loc' = [loc EXCEPT ![r] = Blank]
    /\ UNCHANGED <<head, started, facts>>

(***************************************************************************)
(* A run dies: the process, or an exception that reaches the caller.       *)
(***************************************************************************)
Dies(r) ==
    /\ Goto(r, "dead")
    /\ loc' = [loc EXCEPT ![r] = Blank]
    /\ UNCHANGED <<head, started, log>>

Die(r) ==
    /\ Ticking(r) \/ pc[r] = "bulk"
    /\ Dies(r)
    /\ UNCHANGED facts

\* An insert fails after some of its rows.
InsertDies(r) ==
    /\ \/ pc[r] = "shallow" /\ \E K \in SUBSET loc[r].found :
                                   Insert(r, K, [k \in Packages |-> Shallow])
       \/ pc[r] = "deep" /\ \E K \in SUBSET loc[r].probed : Insert(r, K, [k \in Packages |-> r])
       \/ pc[r] = "carry" /\ \E K \in SUBSET Carried(r) : Insert(r, K, loc[r].prev)
       \/ pc[r] = "bulk" /\ \E K \in SUBSET loc[r].todo : Insert(r, K, [k \in Packages |-> r])
    /\ Dies(r)

TickStep(r) ==
    \/ Begin(r) \/ FetchPage(r) \/ DeadlineInPage(r) \/ WalkCut(r) \/ InsertShallow(r)
    \/ DeepProbe(r) \/ DropShallow(r) \/ InsertDeep(r) \/ CarryForward(r) \/ CreateHeader(r)

BulkStep(r) == BulkBegin(r) \/ BulkChunk(r) \/ Promote(r)

Next == Publish \/ \E r \in Runs : TickStep(r) \/ BulkStep(r) \/ Die(r) \/ InsertDies(r)

Spec == Init /\ [][Next]_vars

(***************************************************************************)
(* Properties                                                              *)
(***************************************************************************)
Published == {log[i] : i \in {j \in DOMAIN log : log[j].stage = "complete"}}

(***************************************************************************)
(* The total of a published header, computed from the lists of the run,    *)
(* agrees with the rows that four inserts and a delete have left.          *)
(***************************************************************************)
TotalCountsRows == \A h \in Published : h.total = Cardinality(Rows(facts[h.run]))

(***************************************************************************)
(* When a tick is about to publish, every package of the snapshot it       *)
(* started from is in the new one, probed no earlier: a probe that fails,  *)
(* a walk that is cut and rows left by the dead never make a package       *)
(* disappear or rewind ("never rewinds to null once set").                 *)
(***************************************************************************)
KeepsPrevious ==
    \A r \in Runs : pc[r] = "header" =>
        \A k \in Packages : facts[r][k] >= loc[r].prev[k]

(***************************************************************************)
(* Stopping at the first known package misses nothing along a chain of     *)
(* ticks whose walks were not cut: each such snapshot holds exactly what   *)
(* was on chain when its walk began, whatever died in between.             *)
(***************************************************************************)
CoversChain ==
    \A h \in Published : h.whole => Rows(facts[h.run]) = 1 .. h.upto

(***************************************************************************)
(* What the copy-forward promises of lastProbedAt from one complete        *)
(* snapshot to a later one: "never rewinds to null once set".              *)
(***************************************************************************)
NeverRewinds ==
    \A i, j \in DOMAIN log :
        i < j /\ {log[i], log[j]} \subseteq Published =>
            \A k \in Packages :
                facts[log[i].run][k] > Shallow => facts[log[j].run][k] # Shallow

================================================================================
