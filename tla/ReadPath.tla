------------------------------- MODULE ReadPath -------------------------------
(***************************************************************************)
(* How a classified view reaches a reader: the in-process cache, the       *)
(* persisted view with the hash of the registry that it was computed with, *)
(* a fresh classification, and the DefiLlama numbers merged in at the end. *)
(*                                                                         *)
(* Several processes share the persisted views, and each has the registry  *)
(* that it was built with: while a deployment is under way they differ.    *)
(* A process runs several tasks at once, each giving up control at every   *)
(* await; a step here is the code between two awaits.                      *)
(*                                                                         *)
(* A view is abstracted to the snapshot and the registry it is made from,  *)
(* to one unique-sender count, which a classification reads live from      *)
(* project_sender_entries, and to what DefiLlama added to its rows.        *)
(* Expiry is nondeterministic: what is cached may be found expired         *)
(* whenever it is looked at.                                               *)
(***************************************************************************)
EXTENDS Integers, Sequences, FiniteSets, SequencesExt

CONSTANTS
    Procs,          \* the processes
    Runs,           \* [Procs -> the tasks modelled of each]: latest, growth, heal, capture
    Registries,     \* versions of the registry (their hashes)
    MaxSnaps,       \* bound: complete snapshots
    MaxSenders,     \* bound: senders stored
    MaxBoots,       \* bound: boots of a process
    MaxAsks,        \* bound: requests
    CacheMax,       \* CLASSIFY_CACHE_MAX (4)
    Rows,           \* L1 rows of a view, numbered in the order of their names
    RowEvents,      \* [Rows -> Nat], the events of each
    Protos,         \* protocols on DefiLlama, numbered in the order of its list
    OnIota,         \* those with a number for IOTA itself (chainTvls.IOTA)
    NameMatch,      \* row and protocol of which one's name contains the other's
    SameName,       \* row and protocol with the same name
    Responses       \* what DefiLlama may list; {} stands for an answer that is no list

Slots == {"latest", "growth", "heal", "capture"}

ASSUME ReadPathAssumption ==
    /\ Runs \in [Procs -> SUBSET Slots]
    /\ MaxSnaps \in Nat /\ MaxSenders \in Nat /\ MaxBoots \in Nat /\ MaxAsks \in Nat
    /\ CacheMax \in Nat \ {0}
    /\ Registries # {}
    /\ Rows \subseteq Nat \ {0} /\ IsFiniteSet(Rows)
    /\ RowEvents \in [Rows -> Nat]
    /\ Protos \subseteq Nat \ {0} /\ IsFiniteSet(Protos)
    /\ OnIota \subseteq Protos
    /\ SameName \subseteq NameMatch /\ NameMatch \subseteq Rows \X Protos
    /\ Responses \subseteq SUBSET Protos

Tasks == {t \in Procs \X Slots : t[2] \in Runs[t[1]]}
Requests == {"latest", "growth"}
Snaps == 1 .. MaxSnaps

VARIABLES
    snaps,      \* complete snapshots, numbered by createdAt
    captured,   \* history: senders stored when each was published
    stored,     \* senders stored now
    boots,      \* boots of each process
    asks,       \* requests so far
    registry,   \* ALL_PROJECTS, ALL_TEAMS and CLASSIFIER_VERSION of each process
    persisted,  \* classifiedsnapshots: a set of views, one per snapshot at most
    cache,      \* classifyCache of each process, least recently used first
    llama,      \* defillamaCache of each process: the list, if it is cached
    pc,         \* where each task is
    todo,       \* the snapshots that a task has still to get a view of
    view,       \* a view computed or loaded, not yet stored
    got         \* the views it has got

vars == <<snaps, captured, stored, boots, asks, registry, persisted, cache, llama, pc, todo, view, got>>

-----------------------------------------------------------------------------
(* enrichWithTvl, on what DefiLlama lists. *)

Nothing == 0
NoTvl == [own |-> [r \in Rows |-> Nothing], shared |-> [r \in Rows |-> Nothing], l2 |-> {}]

\* The first protocol of the list that a row's name matches and that has a number for IOTA.
MatchOf(list, r) ==
    LET match == {p \in list \cap OnIota : <<r, p>> \in NameMatch} IN
    IF match = {} THEN Nothing ELSE CHOOSE p \in match : \A q \in match : p <= q

\* Of the rows of one protocol, the one with most events, ties by name.
IsPrimary(list, r) ==
    \A s \in Rows \ {r} :
        MatchOf(list, s) = MatchOf(list, r) =>
            \/ RowEvents[s] < RowEvents[r]
            \/ RowEvents[s] = RowEvents[r] /\ r < s

Claimed(list) == {MatchOf(list, r) : r \in Rows} \ {Nothing}

\* Defect: siblings carry the number of their primary as their own (TvlCountedOnce).
EnrichedSiblings(list) ==
    [own |-> [r \in Rows |-> MatchOf(list, r)],
     shared |-> [r \in Rows |-> Nothing],
     l2 |-> {p \in list \ Claimed(list) : \A r \in Rows : <<r, p>> \notin SameName}]

\* tvl, tvlShared and the rows synthesized for the protocols that no row claims.
Enriched(list) ==
    [own |-> [r \in Rows |-> IF IsPrimary(list, r) THEN MatchOf(list, r) ELSE Nothing],
     shared |-> [r \in Rows |-> IF IsPrimary(list, r) THEN Nothing ELSE MatchOf(list, r)],
     l2 |-> {p \in list \ Claimed(list) : \A r \in Rows : <<r, p>> \notin SameName}]

-----------------------------------------------------------------------------
Views == [snap : Snaps, registry : Registries, senders : 0 .. MaxSenders]

NoView == [snap |-> 0]

NoList == [cached |-> FALSE, list |-> {}]

\* findOne({snapshotId}) with the hash check of every reader.
Current(p, s) == {v \in persisted : v.snap = s /\ v.registry = registry[p]}

At(t, from, to) == pc[t] = from /\ pc' = [pc EXCEPT ![t] = to]

Init ==
    /\ snaps = 0
    /\ captured = <<>>
    /\ stored = 0
    /\ boots = [p \in Procs |-> 0]
    /\ asks = 0
    /\ registry = [p \in Procs |-> CHOOSE r \in Registries : TRUE]
    /\ persisted = {}
    /\ cache = [p \in Procs |-> <<>>]
    /\ llama = [p \in Procs |-> NoList]
    /\ pc = [t \in Tasks |-> "down"]
    /\ todo = [t \in Tasks |-> <<>>]
    /\ view = [t \in Tasks |-> NoView]
    /\ got = [t \in Tasks |-> <<>>]

\* A live tick or a backfill stores a sender that was not yet known.
StoreSender ==
    /\ stored < MaxSenders
    /\ stored' = stored + 1
    /\ UNCHANGED <<snaps, captured, boots, asks, registry, persisted, cache, llama, pc, todo, view, got>>

\* A crash or a deployment, and onModuleInit: a scanner that finds no
\* snapshot starts a capture instead of the self-heal.
Boot(p, r) ==
    /\ boots[p] < MaxBoots
    /\ boots' = [boots EXCEPT ![p] = @ + 1]
    /\ registry' = [registry EXCEPT ![p] = r]
    /\ cache' = [cache EXCEPT ![p] = <<>>]
    /\ llama' = [llama EXCEPT ![p] = NoList]
    /\ pc' = [t \in Tasks |->
                IF t[1] # p THEN pc[t]
                ELSE IF t[2] = "heal" /\ ~("capture" \in Runs[p] /\ snaps = 0) THEN "find"
                ELSE "idle"]
    /\ todo' = [t \in Tasks |-> IF t[1] = p THEN <<>> ELSE todo[t]]
    /\ view' = [t \in Tasks |-> IF t[1] = p THEN NoView ELSE view[t]]
    /\ got' = [t \in Tasks |-> IF t[1] = p THEN <<>> ELSE got[t]]
    /\ UNCHANGED <<snaps, captured, stored, asks, persisted>>

-----------------------------------------------------------------------------
(* capture, from the moment its snapshot is complete; selfHealLatestClassified. *)

\* finalizeMainnetSnapshot.
Publish(p) ==
    LET t == <<p, "capture">> IN
    /\ t \in Tasks
    /\ snaps < MaxSnaps
    /\ At(t, "idle", "classify")
    /\ snaps' = snaps + 1
    /\ captured' = Append(captured, stored)
    /\ todo' = [todo EXCEPT ![t] = <<snaps + 1>>]
    /\ UNCHANGED <<stored, boots, asks, registry, persisted, cache, llama, view, got>>

\* Classifying or persisting fails: logged, the readers will do it.
CaptureSkips(p) ==
    LET t == <<p, "capture">> IN
    /\ t \in Tasks
    /\ pc[t] \in {"classify", "persist"}
    /\ pc' = [pc EXCEPT ![t] = "invalidate"]
    /\ view' = [view EXCEPT ![t] = NoView]
    /\ UNCHANGED <<snaps, captured, stored, boots, asks, registry, persisted, cache, llama, todo, got>>

\* invalidateClassifyCache.
Invalidate(p) ==
    LET t == <<p, "capture">> IN
    /\ t \in Tasks
    /\ At(t, "invalidate", "idle")
    /\ cache' = [cache EXCEPT ![p] = <<>>]
    /\ todo' = [todo EXCEPT ![t] = <<>>]
    /\ UNCHANGED <<snaps, captured, stored, boots, asks, registry, persisted, llama, view, got>>

\* The latest snapshot, if there is one.
HealFind(p) ==
    LET t == <<p, "heal">> IN
    /\ t \in Tasks
    /\ At(t, "find", IF snaps = 0 THEN "idle" ELSE "check")
    /\ todo' = [todo EXCEPT ![t] = IF snaps = 0 THEN <<>> ELSE <<snaps>>]
    /\ UNCHANGED <<snaps, captured, stored, boots, asks, registry, persisted, cache, llama, view, got>>

\* Defect: any persisted view will do (HealsLatest).
HealCheckAny(p) ==
    LET t == <<p, "heal">>
        done == {v \in persisted : v.snap = todo[t][1]} # {} IN
    /\ t \in Tasks
    /\ At(t, "check", IF done THEN "idle" ELSE "classify")
    /\ todo' = [todo EXCEPT ![t] = IF done THEN <<>> ELSE @]
    /\ UNCHANGED <<snaps, captured, stored, boots, asks, registry, persisted, cache, llama, view, got>>

\* Has it a persisted view of this registry?
HealCheck(p) ==
    LET t == <<p, "heal">>
        done == Current(p, todo[t][1]) # {} IN
    /\ t \in Tasks
    /\ At(t, "check", IF done THEN "idle" ELSE "classify")
    /\ todo' = [todo EXCEPT ![t] = IF done THEN <<>> ELSE @]
    /\ UNCHANGED <<snaps, captured, stored, boots, asks, registry, persisted, cache, llama, view, got>>

\* A query of the self-heal fails: logged; it does not run again.
HealFails(p) ==
    LET t == <<p, "heal">> IN
    /\ t \in Tasks
    /\ pc[t] \in {"find", "check", "classify", "persist"}
    /\ pc' = [pc EXCEPT ![t] = "failed"]
    /\ todo' = [todo EXCEPT ![t] = <<>>]
    /\ view' = [view EXCEPT ![t] = NoView]
    /\ UNCHANGED <<snaps, captured, stored, boots, asks, registry, persisted, cache, llama, got>>

-----------------------------------------------------------------------------
(* classifyFromRaw and persistClassified, of every task. *)

\* The facts of the snapshot, this process's registry, the senders as they are now.
Classify(t) ==
    /\ At(t, "classify", "persist")
    /\ view' = [view EXCEPT ![t] =
                    [snap |-> todo[t][1], registry |-> registry[t[1]], senders |-> stored]]
    /\ UNCHANGED <<snaps, captured, stored, boots, asks, registry, persisted, cache, llama, todo, got>>

\* The upsert overwrites what is there, whoever computed it.
Persist(t) ==
    /\ At(t, "persist", CASE t[2] = "capture" -> "invalidate"
                          [] t[2] = "heal" -> "idle"
                          [] OTHER -> "put")
    /\ persisted' = {v \in persisted : v.snap # view[t].snap} \cup {view[t]}
    /\ view' = [view EXCEPT ![t] = IF t[2] \in Requests THEN @ ELSE NoView]
    /\ todo' = [todo EXCEPT ![t] = IF t[2] \in Requests THEN @ ELSE <<>>]
    /\ UNCHANGED <<snaps, captured, stored, boots, asks, registry, cache, llama, got>>

-----------------------------------------------------------------------------
(* classifyCached, classifyOrLoad. *)

\* The view of the next snapshot is there.
Take(t, v) ==
    /\ got' = [got EXCEPT ![t] = Append(@, [view |-> v, tvl |-> NoTvl])]
    /\ todo' = [todo EXCEPT ![t] = Tail(@)]
    /\ pc' = [pc EXCEPT ![t] = IF Len(todo[t]) > 1 THEN "lookup"
                               ELSE IF t[2] = "latest" THEN "enrich" ELSE "answer"]

\* A hit is moved to the end of the cache.
Hit(t) ==
    /\ pc[t] = "lookup"
    /\ \E i \in DOMAIN cache[t[1]] :
        /\ cache[t[1]][i].snap = todo[t][1]
        /\ cache' = [cache EXCEPT ![t[1]] = Append(RemoveAt(@, i), @[i])]
        /\ Take(t, cache[t[1]][i])
    /\ UNCHANGED <<snaps, captured, stored, boots, asks, registry, persisted, llama, view>>

\* No entry, or one that has expired, which stays in its place.
Miss(t) ==
    /\ At(t, "lookup", "load")
    /\ UNCHANGED <<snaps, captured, stored, boots, asks, registry, persisted, cache, llama, todo, view, got>>

\* Defect: the hash is not compared (AnswerOwn).
LoadAny(t) ==
    LET found == {v \in persisted : v.snap = todo[t][1]} IN
    /\ At(t, "load", IF found = {} THEN "classify" ELSE "put")
    /\ view' = [view EXCEPT ![t] = IF found = {} THEN NoView ELSE CHOOSE v \in found : TRUE]
    /\ UNCHANGED <<snaps, captured, stored, boots, asks, registry, persisted, cache, llama, todo, got>>

\* The persisted view, unless another registry made it.
Load(t) ==
    LET found == Current(t[1], todo[t][1]) IN
    /\ At(t, "load", IF found = {} THEN "classify" ELSE "put")
    /\ view' = [view EXCEPT ![t] = IF found = {} THEN NoView ELSE CHOOSE v \in found : TRUE]
    /\ UNCHANGED <<snaps, captured, stored, boots, asks, registry, persisted, cache, llama, todo, got>>

\* Map.set keeps the place of a key that is there already.
SetKey(entries, entry) ==
    IF \E i \in DOMAIN entries : entries[i].snap = entry.snap
    THEN [i \in DOMAIN entries |-> IF entries[i].snap = entry.snap THEN entry ELSE entries[i]]
    ELSE Append(entries, entry)

\* The first keys are dropped until the size fits.
Evict(entries) == SubSeq(entries, 1 + Len(entries) - CacheMax, Len(entries))

\* Defect: one entry too many stays (TypeOK).
FittedLoosely(entries) == IF Len(entries) > CacheMax + 1 THEN Evict(entries) ELSE entries

Fitted(entries) == IF Len(entries) > CacheMax THEN Evict(entries) ELSE entries

Put(t) ==
    /\ pc[t] = "put"
    /\ cache' = [cache EXCEPT ![t[1]] = Fitted(SetKey(@, view[t]))]
    /\ Take(t, view[t])
    /\ view' = [view EXCEPT ![t] = NoView]
    /\ UNCHANGED <<snaps, captured, stored, boots, asks, registry, persisted, llama>>

-----------------------------------------------------------------------------
(* getLatest and growthRanking. *)

\* The newest complete snapshot; null if there is none.
AskLatest(p) ==
    LET t == <<p, "latest">> IN
    /\ t \in Tasks
    /\ snaps > 0
    /\ asks < MaxAsks
    /\ asks' = asks + 1
    /\ At(t, "idle", "lookup")
    /\ todo' = [todo EXCEPT ![t] = <<snaps>>]
    /\ UNCHANGED <<snaps, captured, stored, boots, registry, persisted, cache, llama, view, got>>

\* The newest snapshot of the window before its latest one, if there is one.
AskGrowth(p) ==
    LET t == <<p, "growth">> IN
    /\ t \in Tasks
    /\ snaps > 0
    /\ asks < MaxAsks
    /\ asks' = asks + 1
    /\ At(t, "idle", "lookup")
    /\ \E baseline \in 0 .. snaps :
        todo' = [todo EXCEPT ![t] = IF baseline = 0 THEN <<snaps>> ELSE <<baseline, snaps>>]
    /\ UNCHANGED <<snaps, captured, stored, boots, registry, persisted, cache, llama, view, got>>

\* A query of the request fails: an error is returned.
RequestFails(t) ==
    /\ t[2] \in Requests
    /\ pc[t] \in {"load", "classify", "persist"}
    /\ pc' = [pc EXCEPT ![t] = "idle"]
    /\ todo' = [todo EXCEPT ![t] = <<>>]
    /\ view' = [view EXCEPT ![t] = NoView]
    /\ got' = [got EXCEPT ![t] = <<>>]
    /\ UNCHANGED <<snaps, captured, stored, boots, asks, registry, persisted, cache, llama>>

\* enrichWithTvl on a copy of the view.  A list that is fetched is cached
\* before it is looked at, so that an answer that is no list fails every
\* request until it expires.  An error leaves the copy as it is.
EnrichWith(t, list) == got' = [got EXCEPT ![t][1].tvl = IF list = {} THEN NoTvl ELSE Enriched(list)]

EnrichCached(t) ==
    /\ At(t, "enrich", "answer")
    /\ llama[t[1]].cached
    /\ EnrichWith(t, llama[t[1]].list)
    /\ UNCHANGED <<snaps, captured, stored, boots, asks, registry, persisted, cache, llama, todo, view>>

EnrichFetched(t) ==
    /\ At(t, "enrich", "answer")
    /\ \E list \in Responses :
        /\ EnrichWith(t, list)
        /\ llama' = [llama EXCEPT ![t[1]] = [cached |-> TRUE, list |-> list]]
    /\ UNCHANGED <<snaps, captured, stored, boots, asks, registry, persisted, cache, todo, view>>

\* The fetch fails.
EnrichFails(t) ==
    /\ At(t, "enrich", "answer")
    /\ UNCHANGED <<snaps, captured, stored, boots, asks, registry, persisted, cache, llama, todo, view, got>>

Answer(t) ==
    /\ At(t, "answer", "idle")
    /\ got' = [got EXCEPT ![t] = <<>>]
    /\ UNCHANGED <<snaps, captured, stored, boots, asks, registry, persisted, cache, llama, todo, view>>

-----------------------------------------------------------------------------
Heal(p) == HealFind(p) \/ HealCheck(p) \/ HealFails(p)

Task(t) ==
    \/ Classify(t) \/ Persist(t)
    \/ Hit(t) \/ Miss(t) \/ Load(t) \/ Put(t) \/ RequestFails(t)
    \/ EnrichCached(t) \/ EnrichFetched(t) \/ EnrichFails(t) \/ Answer(t)

Process(p) ==
    \/ \E r \in Registries : Boot(p, r)
    \/ Publish(p) \/ CaptureSkips(p) \/ Invalidate(p)
    \/ Heal(p)
    \/ AskLatest(p) \/ AskGrowth(p)

Next == StoreSender \/ (\E p \in Procs : Process(p)) \/ (\E t \in Tasks : Task(t))

Spec == Init /\ [][Next]_vars

-----------------------------------------------------------------------------
(* Properties. *)

PCs == {"down", "idle", "find", "check", "failed", "classify", "persist", "invalidate",
        "lookup", "load", "put", "enrich", "answer"}

(***************************************************************************)
(* TypeOK: the state is well-formed; a snapshot has one persisted view and *)
(* one cache entry at most, and the cache never outgrows its size.         *)
(***************************************************************************)
TypeOK ==
    /\ snaps \in 0 .. MaxSnaps /\ stored \in 0 .. MaxSenders
    /\ captured \in [1 .. snaps -> 0 .. stored]
    /\ boots \in [Procs -> 0 .. MaxBoots] /\ asks \in 0 .. MaxAsks
    /\ registry \in [Procs -> Registries]
    /\ persisted \subseteq Views
    /\ \A v, w \in persisted : v.snap = w.snap => v = w
    /\ \A p \in Procs :
        /\ Len(cache[p]) <= CacheMax
        /\ \A i \in DOMAIN cache[p] : cache[p][i] \in Views
        /\ \A i, j \in DOMAIN cache[p] : cache[p][i].snap = cache[p][j].snap => i = j
    /\ llama \in [Procs -> [cached : BOOLEAN, list : SUBSET Protos]]
    /\ pc \in [Tasks -> PCs]
    /\ \A t \in Tasks : view[t] \in Views \cup {NoView}
    /\ \A t \in Tasks : Len(todo[t]) <= 2 /\ \A i \in DOMAIN todo[t] : todo[t][i] \in Snaps
    /\ \A t \in Tasks : Len(got[t]) <= 2 /\ \A i \in DOMAIN got[t] : got[t][i].view \in Views

(***************************************************************************)
(* AnswerOwn: while a deployment is under way and processes overwrite each *)
(* other's persisted views, every view in an answer is still one of the    *)
(* answering process's own registry, both views of a growth ranking alike, *)
(* and none knows of fewer senders than there were when its snapshot was   *)
(* published (classifyCached, classifyOrLoad).                             *)
(***************************************************************************)
AnswerOwn ==
    \A t \in Tasks :
        pc[t] = "answer" =>
            \A i \in DOMAIN got[t] :
                LET v == got[t][i].view IN
                /\ v.registry = registry[t[1]]
                /\ captured[v.snap] <= v.senders

(***************************************************************************)
(* TvlCountedOnce: however rows and protocols match by name, no protocol's *)
(* value is on two rows of an answer, so that the totals of the dashboard  *)
(* count it once; a row that shares one has a row at least as active that  *)
(* carries it (enrichWithTvl).                                             *)
(***************************************************************************)
TvlCountedOnce ==
    \A t \in Tasks :
        pc[t] = "answer" /\ t[2] = "latest" =>
            LET tvl == got[t][1].tvl IN
            /\ \A r, s \in Rows : tvl.own[r] = tvl.own[s] /\ tvl.own[r] # Nothing => r = s
            /\ \A r \in Rows : tvl.own[r] \notin tvl.l2
            /\ \A r \in Rows :
                tvl.shared[r] # Nothing =>
                    \E s \in Rows : tvl.own[s] = tvl.shared[r] /\ RowEvents[s] >= RowEvents[r]

(***************************************************************************)
(* HealsLatest: when a self-heal ends, and it did not fail, the snapshot   *)
(* that was the latest when it began has a persisted view of this          *)
(* process's registry, although others write views of theirs in between    *)
(* (selfHealLatestClassified).                                             *)
(***************************************************************************)
HealsLatest ==
    [][\A p \in Procs :
        LET t == <<p, "heal">> IN
        t \in Tasks /\ boots' = boots =>
            (pc[t] \in {"check", "persist"} /\ pc'[t] = "idle" =>
                \E v \in persisted' : v.snap = todo[t][1] /\ v.registry = registry[p])]_vars

(***************************************************************************)
(* ViewsDeterministic: what the schema says of a view: it is deterministic *)
(* from the raw snapshot and the registry code.  Two classifications of    *)
(* one snapshot read the senders at different times here.                  *)
(***************************************************************************)
ViewsDeterministic ==
    \A p \in Procs : \A i \in DOMAIN cache[p] : \A v \in persisted :
        LET w == cache[p][i] IN
        v.snap = w.snap /\ v.registry = w.registry => v = w

=============================================================================
