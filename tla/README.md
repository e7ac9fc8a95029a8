# Formal model of the IOTA trade scanner

This directory is a TLA+ development of the parts of the repository where
concurrency, crashes and long histories decide whether the published numbers
are right: the scanner in `src/api/src/ecosystem/ecosystem.service.ts` (called
*ES* below; line numbers are of that file unless another one is named), the
classification that turns its snapshots into what readers see, and the services
around them. TLC checks the modules on small instances, TLAPS proves
their central invariants for every instance. Every definition that stands for
code names its lines in `PROJECT.json` (`map`).

## 1. The system

The API (`src/api`, NestJS over MongoDB) runs in two roles (`src/api/src/app.module.ts`).
The *scanner* process registers the crons that walk the IOTA GraphQL endpoints
and writes MongoDB; *serve* processes (`API_ROLE=serve`) answer HTTP requests.
Commands (`src/api/src/backfill-*.ts`, `scan-*-cli.ts`, `dry-run-testnet.ts`)
boot the same services in processes of their own, beside the scanner. The
frontends (`src/projects/website-v1`, `website-v2`, `website-v2-teaser`) read the
HTTP API and keep no state that matters here.

| Component | State it keeps | Operations | Interacts through |
|---|---|---|---|
| Capture lock (ES 391-424, 906-919, 1377-1567, 1720-1780) | one `capturelocks` document per network; per process `capturing`, `acquiredLocks` | `capture()`, `acquireCaptureLock`, `releaseCaptureLock`, shutdown hook, hard timeout | MongoDB document, `Promise.race` timers, signals, an operator's halt lock |
| Mainnet capture pipeline (ES 3486-3911, 5168-5476) | `onchainsnapshots` headers (partial/complete, cursor), `packagefacts` rows | `captureRaw`, `detectMainnetResume`, `probePaginator`, `runGapClosing`, `finalizeMainnetSnapshot` | both collections, across runs and crashes |
| Event counting (ES 2047-2128, 3822-3847) | `events`, `eventsCursor`, `eventsCapped` in each fact | `countEvents`, `loadPreviousModuleStates` | facts of the previous capture; a chain whose indexer prunes |
| Tail scans (ES 2174-2823) | `project_tx_digests` with `project_tx_counts`, `project_sender_entries` with its per-module record, `project_holder_entries` with `project_holders_state` | `pageBackwardTxs`, `pageBackwardSenders`, `pageBackwardHolders`, live ticks and backfill commands | unique indexes shared by two processes |
| Testnet tick (ES 5478-6157) | testnet headers and facts, `testnetcursors` document | discovery, deep probe, copy-forward, address-list backfill | both collections, the lock documents of both networks |
| Package probing and identity (ES 1849-2045, 2117-2172, 2568-2930, 3296-3446, 4922-5132) | the holder collections, for what it counts; otherwise one fact per call | `probeOnePackage` and its sub-probes, `captureObjectTypesForPackage`, `backfillAllHolders` | the chain, the records of the previous tick, a backfill command |
| Project and team registry (`src/api/src/ecosystem/projects`, `teams`) | constants | match rules, deployers | classification |
| Classification (ES 43-67, 2946-3021, 3432-3446, 3922-4569) | none | `matchProject`, `matchByFingerprint`, `classifyFromRaw` | a raw snapshot, the registry, sender and holder collections, live fingerprint probes |
| Read cache and persisted views (ES 921-1075, 1344-1369, 4571-4828) | `classifyCache` and `defillamaCache` per process, `classifiedsnapshots` | `classifyCached`, `classifyOrLoad`, `persistClassified`, `selfHealLatestClassified`, `enrichWithTvl` | snapshots, processes of another registry |
| Boot and migrations (ES 798-891) | testnet cursor, old partials | `runPaginationInversionMigration`, initial capture, self-heal | collections, before the crons start |
| Epoch snapshots (`src/api/src/snapshot`) | one document per completed epoch, in-memory `aggregates` per process | `capture`, `backfillEpochs`, `backfillEpochFees`, `getAggregates` | serve, scanner and command over one collection |
| IOTA client (`src/api/src/iota`) | none | RPC and GraphQL reads; an error is thrown, except for the previous epoch's totals, which become zeros | external endpoints |
| HTTP controllers (`ecosystem.controller.ts`) | none | the activity endpoint reads whole event histories of a project; the others relay | the chain, the read path |
| Alerts (`src/api/src/alerts`) | in-memory time of the last mail per level | `notifyCaptureAlarm` with a four-hour window | called by `capture()`, mails through an external service |
| Commands, frontends | none | transport | everything above |

What is hard about them:

* **Concurrency across processes.** The scanner, a manual trigger and a
  backfill command share MongoDB. Only the lock document and the unique indexes
  keep them apart.
* **Orphans.** `capture()` gives up on work that hangs and releases the lock,
  but the promise it abandoned goes on writing.
* **Crashes between two writes.** A checkpoint is a header write, then a fact
  write. A promotion is a header write; the fresh path is facts, then header.
* **Partial failure.** Every page fetch, probe and `insertMany` can fail, and
  each has its own way to go on.
* **State carried from capture to capture.** Cursors and counts are resumed,
  dropped, carried forward or recounted, while the chain grows and its indexer
  prunes.
* **Heuristics that stop early.** Tail scans and the testnet discovery stop at
  what they already know; the holder walk of a probe does, too.
* **Registries that differ.** A deployment changes the rules by which persisted
  views were made, while processes of the old rules still write views.
* **Answers put together from many queries.** Aggregates, growth rankings, the
  activity chart and a package's fact each combine queries made at different
  times, some of which may have failed.

What makes each component correct is stated with it in section 2 and listed
as `hazards` in `PROJECT.json`, line by line.

## 2. Modules

| Module | Models | Checked by | Proved in |
|---|---|---|---|
| `CaptureLock` | the lock document, `capture()`, shutdown, time | `MCCaptureLock` | `CaptureLockProofs` |
| `CaptureTurns` | abstract: captures that take turns, and the orphans they may leave | (refinement target) | `CaptureLockProofs`, `MainnetCaptureProofs` |
| `SnapshotStore` | abstract: an append-only store with a latest entry | (refinement target) | `MainnetCaptureProofs` |
| `FactHistory` | abstract: the facts of one package, and which of them each snapshot shows | (refinement target; extended by `EventCount`) | `MainnetCaptureProofs`, `EventCountProofs` |
| `MainnetCapture` | the body of a capture, write by write | `MCMainnetCapture`, `MCCaptureHistory` | `MainnetCaptureProofs` |
| `EventCount` | one module's event count over several captures | `MCEventCount` | `EventCountProofs` |
| `TailScan` | newest-first scans of two scanners over one collection | `MCTailScan` | `TailScanProofs` |
| `TestnetTick` | testnet ticks and address-list backfills over headers and facts | `MCTestnetTick` | `TestnetTickProofs` |
| `PackageProbe` | one package's probe, its pool of workers, and the holders backfill beside it | `MCPackageProbe` | `ClassifyProofs` |
| `Projects`, `Teams` | the registries, definition by definition | (constants of `Classify`) | |
| `Classify` | `classifyFromRaw`: rules, routing, rows and clusters | `MCClassify` | `ClassifyProofs` |
| `ReadPath` | caches, persisted views, self-heal and requests of several processes | `MCReadPath` | `ReadPathProofs` |
| `EpochSnapshots` | the epoch documents and the aggregates of several processes | `MCEpochSnapshots` | `EpochSnapshotsProofs` |
| `ActivityWindow` | the activity endpoint: which days it shows, and what it claims of them | `MCActivityWindow` | `ReadPathProofs` |

How they fit together: `CaptureLock` treats the body of a capture as opaque
(`work`: is its promise still running?) and makes captures take turns; `MainnetCapture` is
such a body, write by write. What the one promises and the other assumes is
`CaptureTurns`, which both are proved to implement: `CaptureLock` with the calls
that claim the lock and those whose work runs, `MainnetCapture` with the holder
of its `lock` variable and the live runs. An orphan, which `CaptureTurns` allows after a hard
timeout or during a shutdown, is in `TimeoutSpec` and not in `Spec`: the run
`capture_timeout` shows what it breaks.
`EventCount` models what one module's `countEvents` does over several captures.
It extends `FactHistory`, the history of one package's facts, which `MainnetCapture` is
proved to implement for every package: facts appear, are deleted by
`detectMainnetResume`, carried forward by a later run or left about by a dead one, and
are published in the order in which they were probed. A snapshot is named by its id there and by
the run that publishes it in `EventCount`.
`TailScan` is independent of the lock:
the backfills do not take it. `TestnetTick` assumes of the testnet lock what
`CaptureLock` shows of any (ticks follow each other) and lets the backfill, which
takes no lock, run beside them. `PackageProbe` is what `MainnetCapture` and
`TestnetTick` take as one opaque probe; `EventCount` and `TailScan` are what it takes as
one step. `Classify` reads a snapshot that `MainnetCapture` has published, with
the registries of `Projects` and `Teams`; `ReadPath` takes its result for one opaque view and
follows it to the reader. The definitions of `PackageProbe` and `ActivityWindow` that
every module has are called `Probe...` and `Chart...` here (`ProbeSpec`, `ChartTypeOK`), because
one module of proofs extends `Classify` with the probe whose facts it reads, and
`ReadPath` with the chart that is anchored at its answers.

### 2.1 CaptureLock and CaptureTurns

State: `lock` is the `capturelocks` document with `lockedUntil` kept as the time
left; `pc`, `age`, `work` describe each invocation of `capture()`;
`capturing`, `acquired` are the per-process fields `this.capturing` and
`acquiredLocks`; `phase`, `stopRelease`, `stopAge` the shutdown hook.

One action per step of `capture()`: `Trigger` (the guard is set before the first
await), `AcquireOk/Denied/Error`, `AcquireAck`, `WorkDone`, `HardTimeoutFires`,
`ReleaseLand/ReleaseError`, `OrphanSettles`; the shutdown hook; `Exit` and `Boot`;
`Tick`; and an operator who writes a halt lock by hand.

Properties: at most one claim at any time (`HolderExclusive`); a claimed lock is
lost only through its owner (`LostOnlyByOwner`); a halt written between captures
survives everything (`HaltKept`); the in-process guard is always cleared
(`GuardReleased`); the lock always comes back (`LockReturns`). That captures take turns
(`TakesTurns`, the refinement of `CaptureTurns`) is proved, not run.

### 2.2 MainnetCapture, SnapshotStore and FactHistory

State: `header` and `facts` are the two collections, per snapshot id; `pc` and
`loc` the stage and the local variables of each run (`part` = `partialId`,
`carried`, `probed`, `flushed`, `gap`, `cursor`); `head` the packages on chain. A fact is
the run that probed it, which stands for `lastProbedAt`; the runs up to `aged` are over a
day ago, so that gap-closing takes their facts for stale.

Every database write is an action of its own; reading the chain is not, so a
page fetch and the probes of its packages are one action (`ProbePage`, with any
subset of the probes failing). Errors: `FetchError`, `Deadline`,
`CkptHeaderFails`, `CkptFactsFails`, `GapFactsFails`, `FreshFactsFails`, `Throws`;
`Crash` kills the process at any point; `PartialVanishes` lets somebody else
delete a partial.

Properties: past the detection a run owns the only partial
(`OwnsTheOnlyPartial`); it never probes again what it carries forward
(`ResumesAfterCursorSameDay`); a published total is never below its facts, exceeds them by
less than a checkpoint window and a page, and not at all on the fresh
path (`LossBounded`); the collections implement `SnapshotStore`: what was
published never changes and the latest snapshot only moves forward
(`PublishedOnce`, by `INSTANCE ... WITH`); and of every package they implement `FactHistory`: no
snapshot shows an older probe of a package than a snapshot before it, whatever was
resumed, dropped, probed again or left about in between (`FactsFollowHistory`).

### 2.3 EventCount

State: that of `FactHistory`, where `turn` is the number of captures begun, `stored` the runs
whose facts exist and `shown` the fact each snapshot holds; `emitted` and `floor`, the chain
and how much of it the indexer has pruned; `stage`, `previous` and `walk`, how far
the newest capture has come, the pair it goes on from and the locals of its `countEvents`;
`fact`, the stored triples.

`Begin` starts a capture, which ends the one before it wherever it was; `Drop` is what
`detectMainnetResume` may delete; `LoadPrevious` is `loadPreviousModuleStates`, which reads the newest
stored fact, whether a snapshot holds it or a dead run left it about for ever.
`StartCount` is the head of `countEvents`, `FetchPage` one iteration of its loop, `FetchFails` the
caught exception, which also is what a cursor in the pruned part leads to;
`StoreFact`, `Skip` and `PublishSnapshot` are what the capture around it does with the count.

Properties: every event up to a stored cursor is counted once
(`CountsEachOnce`); an uncapped walk has reached the newest event
(`CappedIsHonest`); from snapshot to snapshot the count never falls
(`PublishedNeverFalls`).

### 2.4 TailScan

State: `head` nodes on chain, `stored` keys in the collection, `scan` the locals
of each scanner, `report` what its last scan returned (`NoReport` if that died).
`KeyOf` makes the one module stand for transactions (each node its own digest),
senders (many nodes, one key) and holders (nodes without a key); `StopOnDups` is
the flag `stopOnAllDups`.

`FetchPage`, `InsertKey` (one row of an unordered `insertMany`, so that two scanners
interleave inside a page), `PageDone` (caught up, oldest page, page budget, or
next page), `FetchFails`, `Abort`.

Properties: an uncapped backfill has stored the whole history
(`DrainIsComplete`); so has a live tick, as long as no scan ended early or
overlapped (`UndisturbedIsComplete`); repeated backfills fill the collection
(`DrainFills`).

### 2.5 TestnetTick

State: `facts` holds for each run the rows of its snapshot (`NoRow`, `Shallow`
for `lastProbedAt: null`, or the run that probed the package last); `log` the
headers in the order of `createdAt`; `pc` and `loc` the stage and the local variables of
each run (`prev` = `previousByAddress`, `found` = `discovered`, `probed` = `deepProbed`,
`todo` = what is left of a backfill's list).

A tick is `Begin` (the newest header of any stage becomes `prev`), `FetchPage`,
`DeadlineInPage` or `WalkCut` (pipeline A: a page goes down to the first known
package; the budget or a fetch error may end it anywhere), `InsertShallow`,
`DeepProbe` (pipeline B: any part of the pool is probed), `DropShallow`,
`InsertDeep`, `CarryForward`, `CreateHeader`. A backfill is `BulkBegin` (its header comes
first, as partial), `BulkChunk`, `Promote`. `Die` ends a run between two writes,
`InsertDies` inside one. `Publish` is the chain.

Properties: a published total agrees with the rows that four inserts and a
delete have left (`TotalCountsRows`); a tick publishes every package of the
snapshot it started from, probed no earlier (`KeepsPrevious`); along ticks whose
walks were not cut, a snapshot holds exactly what was on chain when its walk
began, although each walk stops at the first known package and although rows
of dead runs are probed again (`CoversChain`; `whole` and `upto` in a header are the
history it speaks of). What is *not* true is that a package once probed stays so
from each published snapshot to every later one (`NeverRewinds`, see the run
`testnet_rewind`): `KeepsPrevious` is relative to the snapshot that the tick took for the
previous one.

### 2.6 PackageProbe

State: `draft` is the fact being put together, `fact` the last one published (what
`loadPreviousModuleStates` continues from); `entries` and `record` the holder
collections; `walk` and `count` the holder and object walks of each KEY type; `pc` and `at`
the stage, the module and the page of the probe.

`Begin` starts a probe, or publishes an empty fact for a tutorial on testnet. `Entry`, `CountEvents`,
`UpdateSenders`, `SamplePage`, `IdentityPage`, `TxEffects`, `TxCount` and `Discover` are the
awaited sub-probes in their order, each with the way in which its failure is
swallowed (`SampleFails`, `IdentityFails`, an `answered` of FALSE) or ends the probe
(`Lose`). `Collected` is `collectDisplayMetadata`, with any number of its pages read. In
the pool, `TakeType` hands the types to a bounded number of workers, `ObjectPage` and
`HolderPage` are one iteration of the two walks, `HolderSave` the save of the record,
`JoinRow` and `HolderThrows` the row, after both walks or at once. `BackfillReset` and the same
`HolderPage` steps are the command that drains a type anew.

Property: whatever failed on the way, a published fact has every module once and
in order, every type once or none at all, and claims nothing that is not on
chain (`FactHonest`). `ListedIsLive` does not hold: see the run `probe_listed`.

### 2.7 Projects, Teams and Classify

`Projects` and `Teams` give each definition and each team of the source as a
record of what classification reads, in the order of `ALL_PROJECTS` and `ALL_TEAMS`: names,
teams, rules, counted types, deployers. An address is written by its first eight
digits, which no two addresses of the registry share.

`Classify` takes the packages of a snapshot in any order. `matchProject` tries the
synchronous rules in the order of the registry, `matchByFingerprint` the
fingerprints, each of which may fail; `Home` routes what an aggregate claimed to
the one project without rules of the deployer's team, and splits the rest by
deployer; `View` is the result: rows, clusters, totals. Abstractions: a sample is the set of
constraints that it fulfils, sender and holder documents are sets of wallets.

Properties: every package is in exactly one row or cluster and the totals add up (`CountedOnce`);
no project absorbs a package that neither its rules nor its team's deployers
explain (`FitsTheRow`); the reach counts senders and holders once, in each of the
three ways in which it is computed (`ReachCoversBoth`); and no rule of the
registry hides behind an earlier one (`FoundByItsRule`).

### 2.8 ReadPath

State: `persisted` is the collection of views, `cache` and `llama` the two caches of
each process (`cache` in the order of its `Map`), `registry` what each process was built with;
`pc`, `todo`, `view` and `got` the stage and the locals of each task, which is a
capture's tail, the self-heal, or a request (`getLatest`, or the two views of
`growthRanking`). A view is the snapshot and the registry it is made from, with the
number of senders read live. A step is the code between two awaits.

`Hit`, `Miss` and `Put` are `classifyCached` with its eviction, `Load` the hash check of
`classifyOrLoad`, `Classify` and `Persist` what a reader, a capture and the self-heal do
alike, `Invalidate` the end of a capture, `EnrichCached`, `EnrichFetched` and `EnrichFails` the
DefiLlama merge of `Enriched`. Expiry is nondeterministic: a hit may always be a miss.

Properties: views in an answer are of the answering process's registry and know at
least the senders that their snapshot was published with (`AnswerOwn`); one
DefiLlama protocol is counted on one row (`TvlCountedOnce`); a self-heal that does not
fail leaves the snapshot it found with a view of its own (`HealsLatest`).

### 2.9 EpochSnapshots

State: `docs` is the collection, a document being what is known of an epoch
(totals, fees, live fields) and the number of its last write; `aggregates` the
documents that `this.aggregates` of a process covers; `pc`, `target`, `known`, `work`,
`read`, `probe` the stage and the locals of each task (warm-up, boot, cron, fee backfill, request).

`Fetch`, `Find`, `Update` and `Create` are `capture()`; `Latest`, `Distinct`, `Upsert` and `SkipEpoch`
`backfillEpochs`; `FeesList` and `Enrich` `backfillEpochFees`; `Probe`, `AnswerCached`, `Rebuild` and
`AnswerRebuilt` `getAggregates`; `ReadAll` and `SetAggregates` `rebuildAggregates`. Processes exit at
any point, every query may fail. Initially the collection holds what earlier versions wrote of
some complete epochs, and the chain is past the epoch that a backfill assumes of an
empty collection (`DefaultEpoch`, a constant of the code that lies in the past).

Properties: an answer is never older than the head document that its request
looked at, whichever of several rebuilds comes last (`AnswersFresh`); what only a
live capture knows of an epoch is never replaced by a backfill's zeros (`LiveKept`). Two
things the model shows and no property claims: a capture whose totals query fails
overwrites final totals with zeros (`src/api/src/iota/iota.service.ts:166-182`, until the
next capture of the same epoch); and a fee backfill below the head does not make cached
aggregates stale, since only the head is compared.

### 2.10 ActivityWindow

State: `chain` is the network, each chain of events since genesis as the sequence of
their days; `floor` how many of a chain's first events the indexer has pruned;
`fetch` what the endpoint has read of each chain it probes: pages, and the
positions between which it has the events.

`TakeChain` is a free worker of `runLimited`, `Page` one request of `fetchChainNewestFirst` that is
answered with a page. Three things end a chain's read other than the page cap:

* `Page` has reached the oldest event the indexer holds (`hasPreviousPage` is false).
  The indexer prunes (`ecosystem.service.ts:2091-2096`), so this need not be the first event
  of the chain, nor of its day;
* `PageFails`: an answer with `errors`, or an exception; the chain is marked truncated;
* `PageBlank`: an answer with neither errors nor data. `res.ok` is not checked, and without
  `pageInfo` the code takes the chain for read to its start (72-76): it is *not* marked.

`Emit`, `Prune` and `NextDay` are the network and the indexer, which move on meanwhile.
Assumed of them: a chain's events are in the order of their days; the indexer prunes
each chain from its oldest event on (in the model one chain at a time and in no order among
chains, which allows more than a retention by time); a page is what it holds when it
answers, and a cursor whose events are pruned is answered with an empty last page or
refused (`PageFails`). `lifetime`, the snapshot's count, goes back to genesis as that of
`EventCount` does: it includes events that no walk can read any more, and is at most the number of
all events emitted, pruned or not. The chart is defined by operators over the finished
reads: `PartialDay`, `Visible`, `Anchor`, `Curve`.

Property (`ChartHonest`), whenever partial days were dropped as the code means to:

* a day shown has every event of the day that the indexer still holds, of each chain
  that is `Answering`: that neither failed before its first page nor was ended by an answer
  without data;
* if all probed chains are such, a day after `EdgeDay`, the newest day with a pruned event,
  is complete;
* if moreover all chains are probed, the curve at a day shown, from `EdgeDay` on, never
  claims an event that was not emitted nor misses more than those emitted since the
  snapshot. Before `EdgeDay` it may claim too many: pruned events of later days count as earlier.

None of these provisos can be dropped: TLC then finds a counterexample. The comment
claims completeness of every shown day, `ShownDayComplete`, which does not hold (section 3).

## 3. Runs

| Run | Expect | What it shows |
|---|---|---|
| `lock` | pass | all of 2.1, with crashes, errors and shutdowns at any point |
| `capture` | pass | all of 2.2 |
| `capture_timeout` | violation of `PartialNotShared` | after the hard timeout, orphan and successor write one partial, against 3549-3551 |
| `events` | pass | all of 2.3 |
| `tail` | pass | all of 2.4, including liveness |
| `testnet` | pass | all of 2.5, backfills and ticks interleaved in any way |
| `probe` | pass | all of 2.6: a new or a known package on either network, any sub-probe failing, three types for two workers, a backfill beside them |
| `probe_listed` | violation of `ListedIsLive` | an object inside another one, seen by two ticks, is counted twice, against `src/api/src/ecosystem/schemas/project-holders.schema.ts:44` ("Resets to 0 per drain") |
| `classify` | pass | all of 2.7 on the real registries |
| `readpath` | pass | all of 2.8, with a web process of another registry beside the scanner |
| `epochs` | pass | all of 2.9, with crashes and failed queries |
| `activity` | pass | all of 2.10 |

The two violation runs are the disagreements between code and comments with the
widest consequences. The following ones are kept beside them as configurations to run by hand
(`tlc -config <cfg> <module>`); TLC reports the named property violated in each.

| Configuration | Module | Property | What the code says, and what happens |
|---|---|---|---|
| `CaptureLock_halt.cfg` | `MCCaptureLock` | `HaltKept` | 414-415: a halt written in the middle of a capture is wiped by that capture's release |
| `MainnetCapture_totals.cfg` | `MCMainnetCapture` | `TotalsMatchFacts` | 3761-3763: with no failure at all, the tail that fills no checkpoint window is counted and not stored |
| `MainnetCapture_fetch.cfg` | `MCMainnetCapture` | `FetchErrorKeepsPartial` | 5220-5222: a failed page fetch is promoted as a finished walk |
| `MainnetCapture_cursor.cfg` | `MCCaptureHistory` | `CursorCovered` | 5228-5231: a crash between header and facts of a checkpoint loses the batch |
| `TailScan_senders.cfg` | `MCTailScan` | `UncappedIsComplete` | 2311-2312: a sender who fills a page ends the scan "caught up" |
| `TestnetTick_rewind.cfg` | `MCTestnetTick` | `NeverRewinds` | 5928-5929: with the cron halted for backfills, one that dies leaves a partial that the next tick takes for the previous snapshot, and a package comes out as never probed |
| `Classify_spam.cfg` | `MCClassify` | `SpamKeepsItsPackages` | `teams/index.ts:61-65` orders two teams of one deployer so that routing prefers `rising-phoenix-2`; routing does not look there, and a Spam Club package of one module `nft` that the NFT aggregate claims first goes to `Testing` of the other team |
| `ReadPath_views.cfg` | `MCReadPath` | `ViewsDeterministic` | `schemas/classified-snapshot.schema.ts:12`: a view is "deterministic from `(raw snapshot, registry code)`"; it also reads the senders of the moment |
| `EpochSnapshots_gap.cfg` | `MCEpochSnapshots` | `FillsToCurrent` | `README.md:91`: "Fills missing epochs from epoch 1 to current"; it fills up to the newest document |
| `ActivityWindow_page.cfg` | `MCActivityWindow` | `ShownDayComplete` | `ecosystem.controller.ts:399-402`: "so every shown day is complete"; a chain whose first request fails drops no day, one ended by an answer without data is not marked truncated, and the day at the indexer's retention edge is shown as far as it is held (the trace TLC finds first) |

Bounds, and why they are enough to make the interesting cases happen:

* `lock`: two processes and three calls, two of them in one process. TTL 5,
  hard timeout 2, latency 1 satisfy `LockAssumption` with equality plus one, as
  tight as it can be; the code's 180 and 125 minutes satisfy it with room.
* `capture`: three runs (crash, resume, and one after), three packages plus one
  published meanwhile, pages of two so that a walk has two pages; a day may
  pass after each capture, so that gap-closing has work. `CheckpointEveryN` is 1 in the passing run, so that
  every page checkpoints; it is 2 in the violation runs, so that a tail
  exists (2 packages, of which a framework package leaves one). `TwoLeftovers`
  starts after two overlapping captures, the state `detectMainnetResume` defends
  against; `LeftoverInit`, from which the theorems start, has any number of partials. `VanishRuns` restricts deletions by others to the last run.
* `events`: three captures, so that a fact of the first can be dropped, published or left
  about by the second and counted on by the third; six events, pages of two, two pages a walk: a walk
  ends at the newest event, at the page limit, or exactly at both.
* `tail`: five nodes in pages of two; the live tick has two pages, one short of the
  history, the backfill three.
* `testnet`: three runs, each a tick or a backfill (a snapshot, a run that dies or is
  cut, and one that builds on both), three packages in pages of two, so that
  a walk has two pages and a deadline can fall inside one; the oldest package is a
  tutorial, which is never probed by a tick.

* `probe`: two modules, one without events, because the steps of a module depend
  on the one before it; two objects and two Display objects in pages of one, so
  that a page cap, a failure and the target of identifiers each end the reading;
  three types for two workers, one with an object of a wallet and one inside another.
  To keep the run in bounds, the chain and the backfill move only while the types are
  counted (nothing else of the probe reads what they write), only the first type is
  backfilled, and the pool is entered with the fullest draft only, which it does
  not read. One probe follows an earlier one, which `ProbeInit` describes.
* `classify`: for every rule of the registry the packages that meet just it, for every
  deployer of every team a package that the NFT aggregate claims, and some that nothing
  describes; a snapshot holds one, or two of one deployer, since rows of
  different deployers share nothing but the rule that names them.
* `readpath`: a scanner that captures and answers and a web process that heals, two
  registries, two snapshots and a cache of one entry, so that every second view is
  evicted; the scanner's registry is fixed, only whether the other's
  differs matters. Row and protocol names match one to two, two to one, by
  name only, and not at all.
* `epochs`: a process that captures and answers, one that boots, fills and enriches;
  two epochs, so that one is below the head, and four writes.
* `activity`: up to three chains of up to three events over two days, five events in all
  (`MaxEvents`), two chains probed, one worker, pages of one event and a cap of two pages: a
  chain of three can be cut by the cap, pruned before, between or after its pages, and
  stand beside a short one on the same two days.

Deadlock is checked wherever the system goes on for ever; bounded histories have an explicit
idling step (`Exhausted`, `Finished`) for the state in which every run is used up. `probe` and
`activity` say `CHECK_DEADLOCK FALSE`: a probe and a request end.

## 4. Fairness

`CaptureLock` assumes that time passes, that database calls answer within
`Latency`, and that a due timer fires. It assumes nothing about the capture's
work, which may hang for ever, and nothing about crons or operators.
`TailScan` assumes that a scan in progress goes on (a weakly fair `Proceed`) and
that a backfill is run again and again, as the operator does until it returns
uncapped; a scan may still fail or die infinitely often, and `DrainFills` says what
follows when it does not. No other module has liveness properties: a capture
promises nothing about termination except through the lock.

## 5. Proofs

All proofs are checked by TLAPS to the last leaf; the assumptions are the named
`ASSUME`s of the modules, which TLC evaluates on every run.

* **CaptureLockProofs.** `LockInv` strengthens `HolderExclusive` by what time has to do
  with it: a claim of a call holds the lock document in its name, with at least as
  much time left as the stages before it can still use up (`AgeInv`, `ClaimInv`), so
  no filter of an acquire can match while it claims (`ClaimBlocks`); `acquired`
  and `capturing` say who may release. From it: `TypeCorrect`, `Exclusion`,
  `OwnerKeepsLock`, `HaltSurvives`, for any number of processes and calls and any
  timing with HardTimeout + 2 Latency < TTL. With `NotStarted` (a call under acquisition
  has no body at work) it also gives `LockMakesTurns`, the refinement of `CaptureTurns`.
* **MainnetCaptureProofs.** All theorems are about `Spec \/ LeftoverSpec`: the collections may be
  empty or hold the partials of any earlier runs. `CaptureInv`: only the lock holder is
  live, ids of runs that have not published are unused, and past the detection there
  is one partial, the run's own. That alone is not inductive: while the detection
  removes the older partials one by one, the run must know which are left and that none
  of them is published (`PartInv`), and that nobody else is live. From it: `TypeCorrect`,
  `OnlyPartialOwned`, and `AppendOnly`, the refinement of `SnapshotStore`: two actions publish,
  all others leave what is published alone. `RunsTakeTurns`, the refinement of `CaptureTurns`, holds
  of `TimeoutSpec` too; `NoOrphanAtWork` is what the hard timeout takes away.
  `CountInv` adds what the runs count. `CountsAt` says of each stage what is stored under
  the run's partial in terms of its locals: while it walks, what it carried forward and
  the batches it flushed, which are disjoint, and nothing else; a checkpoint that failed
  stored some of a batch more, and a batch is below a window and a page. It needs that
  a run that is not live has no locals, and that ids not written to have no facts
  (`BlankInv`, `KindInv`, `UnusedInv`). From it: `LossIsBounded`.
  `DayOne` is about the first day, on which gap-closing has nothing to do: everything stored
  under a partial, and everything a run has in hand, lies at or above the cursor
  (`StoredAbove`, `DayAt`), also after a crash between header and facts of a
  checkpoint, since the cursor is written first. From it: `ResumesBelowCursor`.
  `NewerFacts` (`NewerInvariant`) is about the order of probes. That no snapshot goes back is not
  inductive: a fact may be published by a later run than the one that probed it.
  What is kept is that every fact that may still be published, those of a live run and those
  under a partial, is newer than the published ones of its package (`RunsAreNewer`,
  `PendingIsNewer`), because whoever publishes leaves no partial and no live run behind
  (`PublishEnds`), and that a fact belongs to a run that has begun (`FactsOfBegun`). From it:
  `HistoryFollowed`, step by step, and from that `ImplementsHistory`, the refinement of `FactHistory` for
  every package.
* **EventCountProofs.** `CountInv`: a walk below its page limit has had full pages
  only, and counts what its cursor says up to pruned events. `OrderInv`: later runs
  have higher counts, those of facts in no snapshot included, since a run goes on from the newest
  stored fact of all; and snapshots show facts in the order of the runs. Without
  the first part, dropping, resuming or leaving a fact could make a count fall. From
  them (`IInv`): `TypeCorrect`, `CountedOnce`, `CappedHonest`, `NeverFalls`; and
  `CountsWithinHistory`: the counting adds nothing to the histories that `MainnetCapture` follows.
* **TailScanProofs.** `ScanInv`: a backfill has stored everything between the oldest
  node it saw and its start, but for the keys pending. From it: `TypeCorrect`
  and `DrainComplete`. `CalmInv`, for `UndisturbedComplete`: as long as no scan ended early or
  overlapped, the collection at rest is the history up to some node, and a scan at work
  has added the part from where it is up to where it began. It assumes `DistinctKeys`, as
  digests are and senders are not: `TailScan_senders.cfg` shows what happens without.
* **ClassifyProofs.** For any registries, packages and order. `TypeCorrect` needs that a row's
  key is the name of its definition, which distinct names (`NamesAssumption`) make
  injective. `ClassifiedOnce` is the partition by itself: the packages in `rest` are in no
  row, and a package enters one place only. `RowsFit`: `FitsTheRow` is
  kept because `Join` adds to a row only what `Home` sends there, and `Home` returns either
  the definition that claims the package or the one that routing chose (`HomeFits`).
  `EventsAddUp` and `ReachCovers` are about sums, which the model writes as folds: that a fold over
  a finite set takes its members one by one, in any order, is proved by the least set for
  which it fails (`WFMin`), from `FiniteAssumption`: what a snapshot stores is finite. With
  that, the sums over rows, clusters and rest are those over the packages.
  `PlacedByRules` says that where a package goes is decided by the package alone (`Placed`), and not
  by those placed before it, as long as its probes were answered: a row or cluster, once
  opened, keeps its key. It reduces `FoundByItsRule`, which is about whole snapshots, to
  `RulesApart`, which is about one package at a time and speaks of the registry only
  (`RuledAreFound`). That the registry of the source satisfies `RulesApart` is what the run
  `classify` shows, since every package is there in a snapshot of its own; it is not an `ASSUME`,
  because for another registry, with a rule behind another, it is false.
* **The same module, of PackageProbe.** `ProbeInv`, for any package, workers, page sizes and caps.
  `DraftFor` says what the draft holds at each stage: a measure of every module up to the one at
  hand, nothing from the effects as long as the objects are read. `PoolOf` says of each type what
  its two walks may be at and have: an object walk that goes on has had full pages
  only, which is why it is capped when it stops at the page limit (the code compares
  the total, not the pages), and one that is over has every object there was, or is capped,
  or failed. `Pool` ties the rows of the draft to the types that a worker has left, so that
  a type has one row at most. What is known stays true while objects are minted
  (`MintStep`, by the monotony of counts, `MoreWallets`). `FactHonest` alone is not inductive: it
  says nothing of the draft. From it: `ProbeTyped`, `FactIsHonest`.
* **ReadPathProofs.** `ReadInv`, for any processes, registries, cache size, rows and protocols:
  everything in a process's cache, in hand or on the way to an answer is a view of its
  own registry, of a published snapshot, with no fewer senders than that was published
  with (`Own`); only `persisted` may be another's, which is why `Load` has to compare the hash.
  `AnswerOwn` alone is not inductive: a foreign view could already sit in the cache. `MovedToEnd`,
  `KeySet` and `FittedCache` say that the three ways in which a cache changes keep its keys distinct.
  `PrimaryExists` finds the row that carries a shared value: the one with the fewest rows before it. From
  it: `TypeCorrect`, `OwnViewsOnly`, `ValueOnce`, `LatestHealed`.
* **The same module, of ActivityWindow.** `ChartInv`, for any chains, pruning, page size and page
  cap: what a walk has read of a chain is the stretch from its newest event, when the first
  request ended, down to where the walk is; a walk that ended for want of an older page has
  everything of that which the indexer still holds (`PruneKeeps`: what it holds only becomes
  less); and the snapshot's count is of no more events than were emitted by then. From
  it: `ChartTyped` and `ChartIsHonest`. `HeldShown`: of a chain that answered, an event held and of a day
  after the partial one is shown; `EdgeIs`: no event of a day after the edge is pruned. The
  curve then follows by counting (`UpToShown`): from the edge on, all events after a day are
  shown, so that those the curve claims up to it are at most those there were. The provisos are
  those of 2.10; the theorem says nothing of a chain ended by an answer without data.
* **EpochSnapshotsProofs.** `EpochInv`, for any processes, tasks and bounds. `Begun`: the epoch
  in progress is past the one a backfill assumes when it finds nothing, without which a
  backfill could write an epoch that is not over. `CaptureAt` and `FillAt` bound the epochs
  that a capture or a backfill has in hand by it; `RequestAt` says that what a request has read
  covers the head it has seen. That last part is stable because documents are only
  added and renumbered upward (`CoversLater`), by whichever task, so that neither a
  rebuild that ends late nor a capture in between takes it away. From it: `TypeCorrect`,
  `LiveStays`, `NeverOutdated`.
* **TestnetTickProofs.** `TickInv` says of every run which rows it has at each stage in
  terms of its local variables (`RowsInv`), and that a walk has found exactly the
  packages between its cursor and the newest one (`WalkInv`). `CoversChain` is not
  inductive without it: that the walk may stop at the first known package follows
  from `prev` being a prefix of the chain and the walk being contiguous. A
  header that is published belongs to a run that is over, so its rows do not change
  any more (`LogInv`). From it, for any number of runs and packages and any page
  size: `TypeCorrect`, `TotalsRight`, `NothingRewinds`, `ChainCovered`.

Only model-checked: the liveness properties `GuardReleased`, `LockReturns` and `DrainFills` (fairness
and `ENABLED` are out of the prover's reach), and that the one registry there is satisfies
`RulesApart`. Every other property of a passing run is stated by a theorem. The library's
induction theorems take an operator as parameter and cannot be used; what is proved of folds and
counts goes through a least counterexample instead.

## 6. Not modelled, and why

* The retries of ES's `graphql`: a fetch succeeds or fails for good.
* Texts: descriptions, insights, logos and attributions of rows and clusters; field
  contents of snapshots beyond those named above, logging, schema alerts, size guards.
* The deltas that `growthRanking` ranks: sums of differences between two views.
* Boot migrations: they run before the crons start, once in the life of a database.
* Alerts: an in-memory window around one awaited mail. The hazard is listed without a property.
* The RPC client but for what an epoch document depends on, and the endpoints that
  relay what a service keeps, or one page of events: pure I/O.
* The command-line scans and the worker pools of the backfills: they call what is modelled,
  one package at a time.
* The frontends: they keep no state that another part reads.
* The event model assumes that a page with more to follow is full, which is what
  the indexer returns.
* The testnet cursor document and the capture-gap alert: nothing here reads them.
* Two rows of one package that differ in letter case are one row.

The map covers about a third of the implementation's lines: more than half of
`ecosystem.service.ts`, the registries, the snapshot service and the schemas. Most of what
remains are the pages of the frontends.

## 7. Plan

1. `Alerts`: the window around an awaited send, composed with the alarms of `CaptureLock`.
2. `Growth`: the deltas between two views of one registry, over `ReadPath`.
3. The counters of `PackageProbe` other than events, as further extensions of `FactHistory`.
