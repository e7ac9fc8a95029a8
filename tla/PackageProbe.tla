----------------------------- MODULE PackageProbe -----------------------------
(***************************************************************************)
(* Probing one package, tick after tick: probeOnePackage of                *)
(* src/api/src/ecosystem/ecosystem.service.ts with the sub-probes it       *)
(* awaits one after the other, each with its own way to fail, and the pool *)
(* of workers that counts the holders and the objects of every KEY type;   *)
(* beside it the command that backfills holders, which writes to the same  *)
(* records.                                                                *)
(*                                                                         *)
(* Abstractions: modules, types and objects are numbered in the order the  *)
(* chain lists them; the objects of a type only grow; event kinds,         *)
(* identifiers and owners are members of small sets.  The numbers that     *)
(* modules EventCount and TailScan are about (senders, transactions) are   *)
(* left out: of those steps only their failure matters here, and of        *)
(* countEvents that its result lies between the count it continues and     *)
(* the events there are.                                                   *)
(***************************************************************************)
EXTENDS Naturals, Sequences, FiniteSets, FiniteSetsExt

CONSTANTS
    Kinds,          \* of each module, the kinds of the events it emitted, in order
    Objects,        \* of each object of the package, the identifiers it holds
    Effects,        \* identifiers found in the effects of its transactions
    Display,        \* of each Display object on chain, the identifiers it gives the package
    Owners,         \* of each KEY type, the owners of its objects, oldest first
    Parent,         \* an owner that is an object; the other owners are wallets
    PageSize,       \* 50
    SamplePages,    \* pages of events sampled (3)
    IdentPages,     \* pages of objects read for identifiers (3)
    TargetIdents,   \* identifiers at which that reading stops (3)
    Workers,        \* types counted at a time (3)
    ObjectPages,    \* pages of an object walk (200)
    DisplayPages,   \* pages of Display objects read in a capture (200)
    HolderPages,    \* pages of a live holder walk (100); a backfill has 10 000
    MaxTicks        \* bound: probes

Modules == DOMAIN Kinds
Types == DOMAIN Owners

Among(list) == {list[i] : i \in DOMAIN list}
IsSequence(list) == list \in Seq(Among(list))

ASSUME ProbeAssumption ==
    /\ Kinds # <<>> /\ IsSequence(Kinds) /\ \A m \in Modules : IsSequence(Kinds[m])
    /\ IsSequence(Owners) /\ \A t \in Types : IsSequence(Owners[t])
    /\ IsSequence(Objects) /\ IsSequence(Display)
    /\ {PageSize, SamplePages, IdentPages, TargetIdents, Workers, ObjectPages, DisplayPages,
           HolderPages}
           \subseteq Nat \ {0}
    /\ MaxTicks \in Nat

VARIABLES
    pkg,        \* its network, and whether its modules are those of a tutorial
    minted,     \* objects of each type on chain
    entries,    \* project_holder_entries: the wallets of each type
    record,     \* ProjectHolders: the listedCount of each type, 0 without a record
    ticks,      \* probes begun
    pc,         \* where the probe is
    at,         \* the module it is at, pages read of the list it is at
    draft,      \* the fact being put together
    walk,       \* the holder walks, of the probe and of the backfill
    count,      \* the object walks
    fact,       \* the fact of the last probe that returned one
    since       \* history: objects when the probe began, types of which a walk failed

probeVars == <<pkg, minted, entries, record, ticks, pc, at, draft, walk, count, fact, since>>
stores == <<entries, record>>
pool == <<walk, count, since>>

Walkers == {"probe", "backfill"}
NoFact == [tick |-> 0, metrics |-> <<>>, idents |-> {},
           sampled |-> "none", rows |-> <<>>]
NoMetric == [module |-> 0, events |-> 0, kinds |-> {}]
NoWalk == [stage |-> "waiting", read |-> 0, oldest |-> 0, pages |-> 0, listed |-> 0,
           holders |-> 0, end |-> FALSE]
NoCount == [stage |-> "waiting", total |-> 0, pages |-> 0, capped |-> FALSE]
ZeroRow(t) == [type |-> t, holders |-> 0, listed |-> 0, hcapped |-> FALSE,
               objects |-> 0, ocapped |-> FALSE]

Mainnet == pkg.network = "mainnet"

Existing(t) == 1 .. minted[t]
WalletsOf(t) == {Owners[t][o] : o \in Existing(t)} \ {Parent}
ParentsOf(t) == {o \in Existing(t) : Owners[t][o] = Parent}

\* What a probe without failures has left of the package as it is.
EarlierMetric(m) == [module |-> m, events |-> Len(Kinds[m]), kinds |-> Among(Kinds[m])]
EarlierRow(t) ==
    [ZeroRow(t) EXCEPT !.holders = Cardinality(WalletsOf(t)),
                       !.listed = Cardinality(ParentsOf(t)),
                       !.objects = minted[t]]
EarlierFact ==
    [NoFact EXCEPT !.metrics = [m \in Modules |-> EarlierMetric(m)],
                   !.rows = [t \in Types |-> EarlierRow(t)]]

\* The package is new, or an earlier probe has met it on mainnet.
ProbeInit ==
    /\ pkg \in [network : {"mainnet", "testnet"}, tutorial : BOOLEAN]
    /\ \E T \in SUBSET Types : minted = [t \in Types |-> IF t \in T THEN Len(Owners[t]) ELSE 0]
    /\ \/ /\ fact = NoFact
          /\ entries = [t \in Types |-> {}]
          /\ record = [t \in Types |-> 0]
       \/ /\ fact = EarlierFact /\ Mainnet
          /\ entries = [t \in Types |-> WalletsOf(t)]
          /\ record = [t \in Types |-> Cardinality(ParentsOf(t))]
    /\ ticks = 0 /\ pc = "idle" /\ at = [module |-> 1, pages |-> 0]
    /\ draft = NoFact
    /\ walk = [w \in Walkers \X Types |-> NoWalk]
    /\ count = [t \in Types |-> NoCount]
    /\ since = [minted |-> minted, failed |-> {}]

Mint(t) ==
    /\ minted[t] < Len(Owners[t])
    /\ minted' = [minted EXCEPT ![t] = @ + 1]
    /\ UNCHANGED <<pkg, stores, ticks, pc, at, draft, pool, fact>>

(***************************************************************************)
(* The probe up to its object types: one sub-probe after the other.        *)
(***************************************************************************)
Goto(stage) ==
    /\ pc' = stage
    /\ at' = [at EXCEPT !.pages = 0]

Scanning == <<pkg, minted, stores, ticks, pool, fact>>

\* A tutorial's package on testnet gets a fact without a probe.
Begin ==
    /\ pc = "idle" /\ ticks < MaxTicks
    /\ ticks' = ticks + 1
    /\ IF ~Mainnet /\ pkg.tutorial
       THEN /\ fact' = [NoFact EXCEPT !.tick = ticks']
            /\ UNCHANGED <<pc, at, draft, pool>>
       ELSE /\ pc' = "entry" /\ at' = [module |-> 1, pages |-> 0]
            /\ draft' = [NoFact EXCEPT !.tick = ticks']
            /\ walk' = [w \in DOMAIN walk |-> IF w[1] = "probe" THEN NoWalk ELSE walk[w]]
            /\ count' = [t \in Types |-> NoCount]
            /\ since' = [minted |-> minted, failed |-> {}]
            /\ UNCHANGED fact
    /\ UNCHANGED <<pkg, minted, stores>>

\* An awaited write or count fails: the package is not in this capture.
Lose ==
    /\ pc \in {"senders", "tx"} /\ Mainnet
    /\ Goto("idle")
    /\ draft' = NoFact
    /\ UNCHANGED Scanning

Module == IF Mainnet THEN "count" ELSE "sample"

\* fetchEntryFunctions; an error is an empty map, as if no module had any.
Entry ==
    /\ pc = "entry"
    /\ draft' = [draft EXCEPT !.metrics = <<[NoMetric EXCEPT !.module = 1]>>]
    /\ Goto(Module)
    /\ UNCHANGED Scanning

\* countEvents continues from the count of the last fact.
Known(m) == IF fact.metrics = <<>> THEN 0 ELSE fact.metrics[m].events
CountEvents(n) ==
    /\ pc = "count"
    /\ n \in Known(at.module) .. Len(Kinds[at.module])
    /\ draft' = [draft EXCEPT !.metrics[at.module].events = n]
    /\ Goto("senders")
    /\ UNCHANGED Scanning

NextModule(new) ==
    IF at.module = Len(Kinds)
    THEN /\ Goto("identity")
         /\ draft' = new
    ELSE /\ pc' = Module
         /\ at' = [module |-> at.module + 1, pages |-> 0]
         /\ draft' = [new EXCEPT !.metrics =
                         Append(@, [NoMetric EXCEPT !.module = at.module + 1])]

\* Without events there are no kinds of events to look for.
UpdateSenders ==
    /\ pc = "senders"
    /\ IF draft.metrics[at.module].events > 0
       THEN Goto("sample") /\ UNCHANGED draft
       ELSE NextModule(draft)
    /\ UNCHANGED Scanning

\* Page p of a list, and whether it has a next one.
PageOf(list, p) == {list[i] : i \in (p * PageSize + 1 .. (p + 1) * PageSize) \cap DOMAIN list}
HasNext(list, p) == Len(list) > (p + 1) * PageSize

\* sampleEventTypes: the kinds of the oldest events, a few pages of them.
SamplePage ==
    LET events == Kinds[at.module]
        new == [draft EXCEPT !.metrics[at.module].kinds = @ \cup PageOf(events, at.pages)]
    IN  /\ pc = "sample"
        /\ IF HasNext(events, at.pages) /\ at.pages + 1 < SamplePages
           THEN /\ at' = [at EXCEPT !.pages = @ + 1]
                /\ draft' = new
                /\ UNCHANGED pc
           ELSE NextModule(new)
        /\ UNCHANGED Scanning

SampleFails ==
    /\ pc = "sample"
    /\ NextModule(draft)
    /\ UNCHANGED Scanning

\* probeIdentityFields: the objects of the package, until enough is known.
IdentityPage ==
    LET idents == draft.idents \cup UNION PageOf(Objects, at.pages) IN
    /\ pc = "identity"
    /\ draft' = [draft EXCEPT !.idents = idents,
                              !.sampled = IF Objects = <<>> THEN @ ELSE "own"]
    /\ IF /\ HasNext(Objects, at.pages) /\ at.pages + 1 < IdentPages
          /\ Cardinality(idents) < TargetIdents
       THEN at' = [at EXCEPT !.pages = @ + 1] /\ UNCHANGED pc
       ELSE Goto(IF idents = {} THEN "effects" ELSE "tx")
    /\ UNCHANGED Scanning

IdentityFails ==
    /\ pc = "identity"
    /\ Goto(IF draft.idents = {} THEN "effects" ELSE "tx")
    /\ UNCHANGED <<Scanning, draft>>

\* probeTxEffects: only for a package whose objects say nothing.
TxEffects(answered) ==
    /\ pc = "effects"
    /\ draft' = IF ~answered \/ Effects = {} THEN draft
                ELSE [draft EXCEPT !.idents = Effects,
                                   !.sampled = IF @ = "none" THEN "effects" ELSE @]
    /\ Goto("tx")
    /\ UNCHANGED Scanning

\* collectDisplayMetadata, once for all packages of a capture: what the pages
\* read before the last one, or before one that failed, say of this package.
Collected(pages) == UNION {Display[i] : i \in (1 .. pages * PageSize) \cap DOMAIN Display}

\* The Display lines join in; the transactions are counted on mainnet.
TxCount(pages) ==
    /\ pc = "tx"
    /\ draft' = [draft EXCEPT !.idents = @ \cup Collected(pages)]
    /\ Goto("types")
    /\ UNCHANGED Scanning

(***************************************************************************)
(* The object types.                                                       *)
(***************************************************************************)
Publish(rows) ==
    /\ fact' = [draft EXCEPT !.rows = rows]
    /\ draft' = NoFact
    /\ Goto("idle")

\* discoverObjectTypeStrings: an error is no types; testnet stops at the types.
Discover(answered) ==
    /\ pc = "types"
    /\ IF answered /\ Mainnet /\ Types # {}
       THEN Goto("pool") /\ UNCHANGED <<draft, fact>>
       ELSE Publish(IF answered THEN [t \in Types |-> ZeroRow(t)] ELSE <<>>)
    /\ UNCHANGED <<pkg, minted, stores, ticks, pool>>

Rows == {draft.rows[i].type : i \in DOMAIN draft.rows}
Taken == {t \in Types : count[t].stage # "waiting"}
Busy == {t \in Taken : count[t].stage # "left"}
Elsewhere == <<pkg, minted, ticks, at, fact>>

\* Defect: a worker for every type (ProbeTypeOK).
TakeTypeUnlimited(t) ==
    /\ pc = "pool" /\ t \notin Taken
    /\ count' = [count EXCEPT ![t].stage = "page"]
    /\ walk' = [walk EXCEPT ![<<"probe", t>>].stage = "read"]
    /\ UNCHANGED <<Elsewhere, stores, pc, draft, since>>

\* `idx++`: a free worker takes the next type and starts both of its walks.
TakeType(t) ==
    /\ pc = "pool" /\ Cardinality(Busy) < Workers
    /\ t \notin Taken /\ \A u \in Types : u < t => u \in Taken
    /\ count' = [count EXCEPT ![t].stage = "page"]
    /\ walk' = [walk EXCEPT ![<<"probe", t>>].stage = "read"]
    /\ UNCHANGED <<Elsewhere, stores, pc, draft, since>>

\* countObjectsForType: forward from the oldest object, anew at every tick.
Read(total, t) == IF minted[t] < total + PageSize THEN minted[t] ELSE total + PageSize
ObjectPage(t) ==
    LET c == count[t]
        total == Read(c.total, t)
        pages == c.pages + 1
    IN  /\ c.stage = "page"
        /\ count' = [count EXCEPT ![t] =
              IF total = minted[t]
              THEN [stage |-> "done", total |-> total, pages |-> pages, capped |-> FALSE]
              ELSE [stage |-> IF pages = ObjectPages THEN "done" ELSE "page",
                    total |-> total, pages |-> pages,
                    capped |-> total >= ObjectPages * PageSize]]
        /\ UNCHANGED <<Elsewhere, stores, pc, draft, walk, since>>

\* The request fails, and the pages before it are the count.
ObjectFails(t) ==
    /\ count[t].stage = "page"
    /\ count' = [count EXCEPT ![t].stage = "done"]
    /\ since' = [since EXCEPT !.failed = @ \cup {t}]
    /\ UNCHANGED <<Elsewhere, stores, pc, draft, walk>>

Put(w, t, new) == walk' = [walk EXCEPT ![<<w, t>>] = new]

\* updateHoldersForType reads the record of the type;
HolderRead(t) ==
    /\ walk[<<"probe", t>>].stage = "read"
    /\ Put("probe", t, [NoWalk EXCEPT !.stage = "page", !.read = record[t],
                                      !.oldest = minted[t] + 1])
    /\ UNCHANGED <<Elsewhere, stores, pc, draft, count, since>>

\* pageBackwardHolders walks the objects from the newest, storing the wallets
\* and counting the parents, until a page whose wallets are all known.
HolderPage(w, t) ==
    LET h == walk[<<w, t>>]
        oldest == IF h.oldest > PageSize THEN h.oldest - PageSize ELSE 1
        page == oldest .. h.oldest - 1
        wallets == {Owners[t][i] : i \in page} \ {Parent}
        end == (wallets # {} /\ wallets \subseteq entries[t]) \/ oldest = 1
        last == w = "probe" /\ h.pages + 1 = HolderPages
    IN  /\ h.stage = "page"
        /\ Put(w, t, [h EXCEPT
              !.stage = IF end \/ last THEN "save" ELSE "page",
              !.oldest = oldest, !.pages = @ + 1, !.end = end,
              !.listed = @ + Cardinality({i \in page : Owners[t][i] = Parent})])
        /\ entries' = [entries EXCEPT ![t] = @ \cup wallets]
        /\ UNCHANGED <<Elsewhere, record, pc, draft, count, since>>

HolderPageFails(w, t) ==
    /\ walk[<<w, t>>].stage = "page"
    /\ Put(w, t, [walk[<<w, t>>] EXCEPT !.stage = "save"])
    /\ since' = IF w = "probe" THEN [since EXCEPT !.failed = @ \cup {t}] ELSE since
    /\ UNCHANGED <<Elsewhere, stores, pc, draft, count>>

\* record.save() sets the count that was read plus the parents of this walk,
\* if there were any; the wallets are counted in the collection.
HolderSave(w, t) ==
    LET h == walk[<<w, t>>] IN
    /\ h.stage = "save"
    /\ record' = [record EXCEPT ![t] = IF h.listed = 0 THEN @ ELSE h.read + h.listed]
    /\ Put(w, t, IF w = "backfill" THEN [NoWalk EXCEPT !.stage = "done"]
                 ELSE [h EXCEPT !.stage = "done", !.holders = Cardinality(entries[t])])
    /\ UNCHANGED <<Elsewhere, entries, pc, draft, count, since>>

PushRow(t, row) ==
    /\ draft' = [draft EXCEPT !.rows = Append(@, row)]
    /\ count' = [count EXCEPT ![t] = [NoCount EXCEPT !.stage = "left"]]
    /\ Put("probe", t, [NoWalk EXCEPT !.stage = "done"])

\* Both walks are over: the row of the type.
JoinRow(t) ==
    LET h == walk[<<"probe", t>>] IN
    /\ pc = "pool" /\ count[t].stage = "done" /\ h.stage = "done"
    /\ PushRow(t, [type |-> t, holders |-> h.holders, listed |-> h.read + h.listed,
                   hcapped |-> ~h.end, objects |-> count[t].total, ocapped |-> count[t].capped])
    /\ UNCHANGED <<Elsewhere, stores, pc, since>>

\* Defect: a type whose walk failed has no row (FactHonest).
HolderThrowsUntold(t) ==
    /\ pc = "pool" /\ walk[<<"probe", t>>].stage \in {"read", "page", "save"}
    /\ count' = [count EXCEPT ![t] = [NoCount EXCEPT !.stage = "left"]]
    /\ Put("probe", t, [NoWalk EXCEPT !.stage = "done"])
    /\ UNCHANGED <<Elsewhere, stores, pc, draft, since>>

\* A write fails: a row of zeros for the type; the object walk is not waited for.
HolderThrows(t) ==
    /\ pc = "pool" /\ walk[<<"probe", t>>].stage \in {"read", "page", "save"}
    /\ PushRow(t, ZeroRow(t))
    /\ since' = [since EXCEPT !.failed = @ \cup {t}]
    /\ UNCHANGED <<Elsewhere, stores, pc>>

PoolEnds ==
    /\ pc = "pool" /\ Taken = Types /\ Busy = {}
    /\ Publish(draft.rows)
    /\ UNCHANGED <<pkg, minted, stores, ticks, pool>>

(***************************************************************************)
(* The backfill of holders, of every type in the last snapshot: it reads   *)
(* the record, resets its count if that is not 0 already, and walks as the *)
(* probe does.                                                             *)
(***************************************************************************)
BackfillReset(t) ==
    LET h == walk[<<"backfill", t>>] IN
    /\ \E i \in DOMAIN fact.rows : fact.rows[i].type = t
    /\ \/ /\ h.stage = "waiting" /\ Mainnet
          /\ Put("backfill", t, [h EXCEPT !.stage = "reset", !.read = record[t]])
          /\ UNCHANGED record
       \/ /\ h.stage = "reset"
          /\ record' = [record EXCEPT ![t] = IF h.read = 0 THEN @ ELSE 0]
          /\ Put("backfill", t, [h EXCEPT !.stage = "page", !.read = 0,
                                          !.oldest = minted[t] + 1])
    /\ UNCHANGED <<Elsewhere, entries, pc, draft, count, since>>

ProbeNext ==
    \/ Begin \/ Entry \/ Lose \/ UpdateSenders \/ SamplePage \/ SampleFails \/ IdentityPage \/ IdentityFails
    \/ PoolEnds
    \/ \E pages \in 0 .. DisplayPages : TxCount(pages)
    \/ \E answered \in BOOLEAN :
           TxEffects(answered) \/ Discover(answered)
    \/ \E n \in 0 .. Max({Len(Kinds[m]) : m \in Modules}) : CountEvents(n)
    \/ \E t \in Types :
           \/ Mint(t) \/ TakeType(t) \/ ObjectPage(t) \/ ObjectFails(t)
           \/ HolderRead(t) \/ JoinRow(t) \/ HolderThrows(t) \/ BackfillReset(t)
           \/ \E w \in Walkers : HolderPage(w, t) \/ HolderPageFails(w, t) \/ HolderSave(w, t)

ProbeSpec == ProbeInit /\ [][ProbeNext]_probeVars

-------------------------------------------------------------------------------

Facts == {draft, fact}

\* The state has its type: no more types are counted at a time than there are
\* workers, and no fact has a type twice.
ProbeTypeOK ==
    /\ pkg \in [network : {"mainnet", "testnet"}, tutorial : BOOLEAN]
    /\ \A t \in Types :
          /\ minted[t] \in 0 .. Len(Owners[t])
          /\ entries[t] \subseteq Among(Owners[t]) \ {Parent}
          /\ record[t] \in Nat
    /\ ticks \in 0 .. MaxTicks
    /\ pc \in {"idle", "entry", "count", "senders", "sample", "identity", "effects", "tx",
               "types", "pool"}
    /\ at \in [module : Modules, pages : Nat]
    /\ Cardinality(Busy) <= Workers
    /\ \A f \in Facts :
          /\ f.tick \in 0 .. ticks
          /\ f.sampled \in {"none", "own", "effects"}
          /\ \A i, j \in DOMAIN f.rows : f.rows[i].type = f.rows[j].type => i = j

\* Whatever fails on the way, the fact that a probe returns has every module once,
\* in order, every KEY type once or none at all, and claims nothing that is not on
\* chain: kinds of events, identifiers, wallets, objects.  The type sampled is of
\* the objects that the identifiers come from.  A count of objects neither capped
\* nor cut by a failure has every object there was when the probe began.
FactHonest ==
    fact.tick > 0 /\ fact.metrics # <<>> =>
        /\ [m \in DOMAIN fact.metrics |-> fact.metrics[m].module] = [m \in Modules |-> m]
        /\ \A m \in Modules :
              LET metric == fact.metrics[m] IN
              /\ metric.events <= Len(Kinds[m])
              /\ metric.kinds \subseteq Among(Kinds[m])
              /\ Mainnet /\ metric.events = 0 => metric.kinds = {}
        /\ fact.idents \subseteq Effects \cup (UNION Among(Display)) \cup (UNION Among(Objects))
        /\ fact.sampled = "effects" => fact.idents \subseteq Effects \cup (UNION Among(Display))
        /\ fact.rows # <<>> => {fact.rows[i].type : i \in DOMAIN fact.rows} = Types
        /\ \A i \in DOMAIN fact.rows :
              LET row == fact.rows[i]
                  t == row.type
              IN  /\ row.holders <= Cardinality(WalletsOf(t))
                  /\ row.objects <= minted[t]
                  /\ (/\ Mainnet /\ ~row.ocapped
                      /\ pc = "idle" /\ fact.tick = ticks /\ t \notin since.failed) =>
                         row.objects >= since.minted[t]

\* listedCount counts the objects that another object owns "observed during the
\* most-recent drain", and "resets to 0 per drain" (project-holders.schema.ts:44):
\* no fact lists more objects than are inside another one.
ListedIsLive ==
    \A i \in DOMAIN fact.rows :
        LET t == fact.rows[i].type IN
        fact.rows[i].listed <= Cardinality(ParentsOf(t))

===============================================================================
