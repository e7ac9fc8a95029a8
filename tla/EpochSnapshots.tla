---------------------------- MODULE EpochSnapshots ----------------------------
(***************************************************************************)
(* SnapshotService: one document per completed epoch, written by a live    *)
(* capture every half hour, by the backfill that a scanner starts when it  *)
(* boots, and by the fee backfill of a command; and the aggregates that    *)
(* every process computes from the documents and keeps in memory.          *)
(*                                                                         *)
(* A process runs several of its methods at once, each a task that gives   *)
(* up control at every await.  A step here is the code between two awaits, *)
(* so that a query takes effect in one step and its answer is handled in a *)
(* later one.  Assigning this.aggregates and returning it from             *)
(* getAggregates are one step: nothing else runs in between.               *)
(*                                                                         *)
(* What an epoch measured is abstracted to whether it is known:            *)
(*   totals: gas, transactions and net inflow (zero after a failed query); *)
(*   fees:   the five fields that were added to the schema later;          *)
(*   live:   supply, staking, validators, which only a live capture knows. *)
(* updatedAt is the number of the write, 0 if there is no document.  No    *)
(* two writes carry the same time stamp.                                   *)
(***************************************************************************)
EXTENDS Integers, FiniteSets, FiniteSetsExt

CONSTANTS
    Procs,          \* the processes
    Methods,        \* [Procs -> the tasks it runs]: a server has no boot and no cron,
                    \* a scanner has them, the command backfill-epoch-fees has fees as well
    MaxEpoch,       \* bound: epochs that complete
    MaxWrites,      \* bound: writes
    MaxBoots,       \* bound: boots of a process
    DefaultEpoch    \* currentEpoch of a backfill that finds no document (332)

Slots == {"warm", "boot", "cron", "fees", "request"}

ASSUME MethodsAssumption == Methods \in [Procs -> SUBSET Slots]

ASSUME BoundAssumption ==
    /\ MaxEpoch \in Nat \ {0}
    /\ MaxWrites \in Nat \ {0}
    /\ MaxBoots \in Nat
    /\ DefaultEpoch \in 1 .. MaxEpoch

Epochs == 1 .. MaxEpoch

Tasks == Procs \X Slots

\* The aggregates of a process that nobody asks are left out.
Asked(p) == "request" \in Methods[p]

VARIABLES
    current,    \* the epoch in progress; those below it are complete
    docs,       \* the collection: [epoch -> document]
    writes,     \* writes so far
    boots,      \* boots of each process
    aggregates, \* this.aggregates of each process: the documents they cover
    pc,         \* where each task is
    target,     \* the epoch that a task handles, or the head that it saw
    known,      \* epochStats of a capture: was the query of the totals answered?
    work,       \* epochs that a backfill has still to handle
    read,       \* answer of the find in rebuildAggregates
    probe,      \* updatedAt of the head that a request saw
    unfilled    \* history: epochs for which a query of the backfill failed

vars == <<current, docs, writes, boots, aggregates, pc, target, known, work, read, probe, unfilled>>

Absent == [updatedAt |-> 0, totals |-> FALSE, fees |-> "absent", live |-> FALSE]

Docs == [Epochs -> [updatedAt : 0 .. MaxWrites, totals : BOOLEAN,
                    fees : {"absent", "zero", "final"}, live : BOOLEAN]]

NoDocs == [e \in Epochs |-> Absent]

Stored(d) == {e \in Epochs : d[e].updatedAt # 0}

\* findOne().sort({epoch: -1}), 0 if there is none.
Head(d) == IF Stored(d) = {} THEN 0 ELSE CHOOSE e \in Stored(d) : \A f \in Stored(d) : f <= e

At(t, from, to) == pc[t] = from /\ pc' = [pc EXCEPT ![t] = to]

\* A write is numbered; the bound on writes is here.
Write(e, doc) ==
    /\ writes < MaxWrites
    /\ writes' = writes + 1
    /\ docs' = [docs EXCEPT ![e] = [doc EXCEPT !.updatedAt = writes + 1]]

-----------------------------------------------------------------------------
(* Processes. *)

\* Nothing is scheduled and nothing served before onModuleInit returns.
Listening(p) == boots[p] > 0 /\ pc[<<p, "boot">>] \notin {"down", "count", "fetch", "find", "update",
                                                          "create", "all", "set"}

\* What earlier versions have captured of some epochs, with or without the fees.
Earlier(S, f) ==
    [e \in Epochs |->
        IF e \in S THEN [updatedAt |-> 1, totals |-> TRUE, fees |-> f, live |-> TRUE] ELSE Absent]

\* The chain is past the default of a backfill, and one epoch at least is complete.
Init ==
    /\ current \in {e \in 2 .. MaxEpoch + 1 : DefaultEpoch <= e}
    /\ docs \in {Earlier(S, f) : S \in SUBSET (1 .. current - 1), f \in {"absent", "final"}}
    /\ writes = 1
    /\ boots = [p \in Procs |-> 0]
    /\ aggregates = [p \in Procs |-> NoDocs]
    /\ pc = [t \in Tasks |-> "down"]
    /\ target = [t \in Tasks |-> 0]
    /\ known = [t \in Tasks |-> FALSE]
    /\ work = [t \in Tasks |-> {}]
    /\ read = [t \in Tasks |-> NoDocs]
    /\ probe = [p \in Procs |-> 0]
    /\ unfilled = [p \in Procs |-> {}]

\* An epoch completes on chain.
EpochEnds ==
    /\ current <= MaxEpoch
    /\ current' = current + 1
    /\ UNCHANGED <<docs, writes, boots, aggregates, pc, target, known, work, read, probe, unfilled>>

\* onModuleInit: the first rebuild runs in the background.
Boot(p) ==
    /\ boots[p] < MaxBoots
    /\ pc[<<p, "boot">>] = "down"
    /\ boots' = [boots EXCEPT ![p] = @ + 1]
    /\ pc' = [t \in Tasks |->
                IF t[1] # p THEN pc[t]
                ELSE IF t[2] \notin Methods[p] THEN "idle"
                ELSE IF t[2] = "warm" THEN "all"
                ELSE IF t[2] = "boot" THEN "count"
                ELSE IF t[2] = "fees" THEN "list"
                ELSE "idle"]
    /\ UNCHANGED <<current, docs, writes, aggregates, target, known, work, read, probe, unfilled>>

\* A crash, a deployment, or the end of the command.
Exit(p) ==
    /\ pc[<<p, "boot">>] # "down"
    /\ pc' = [t \in Tasks |-> IF t[1] = p THEN "down" ELSE pc[t]]
    /\ aggregates' = [aggregates EXCEPT ![p] = NoDocs]
    /\ target' = [t \in Tasks |-> IF t[1] = p THEN 0 ELSE target[t]]
    /\ known' = [t \in Tasks |-> IF t[1] = p THEN FALSE ELSE known[t]]
    /\ work' = [t \in Tasks |-> IF t[1] = p THEN {} ELSE work[t]]
    /\ read' = [t \in Tasks |-> IF t[1] = p THEN NoDocs ELSE read[t]]
    /\ probe' = [probe EXCEPT ![p] = 0]
    /\ unfilled' = [unfilled EXCEPT ![p] = {}]
    /\ UNCHANGED <<current, docs, writes, boots>>

\* Where a task goes when the method it awaits is over: after the first
\* capture a booting scanner starts its backfill, the others are done.
Then(t) == IF t[2] = "boot" THEN "latest" ELSE "idle"

\* Where a capture goes when its document is written.
AfterWrite(t) == IF Asked(t[1]) THEN "all" ELSE Then(t)

-----------------------------------------------------------------------------
(* rebuildAggregates. *)

\* find: the answer is the collection as it is now.
ReadAll(t) ==
    /\ At(t, "all", "set")
    /\ read' = [read EXCEPT ![t] = docs]
    /\ UNCHANGED <<current, docs, writes, boots, aggregates, target, known, work, probe, unfilled>>

\* The answer arrives and replaces what is cached, by whatever task.
SetAggregates(t) ==
    /\ t[2] # "request"
    /\ At(t, "set", Then(t))
    /\ aggregates' = [aggregates EXCEPT ![t[1]] = read[t]]
    /\ read' = [read EXCEPT ![t] = NoDocs]
    /\ UNCHANGED <<current, docs, writes, boots, target, known, work, probe, unfilled>>

-----------------------------------------------------------------------------
(* capture, at boot on an empty collection or by the cron. *)

\* countDocuments; an error fails the boot.
Count(p) ==
    /\ At(<<p, "boot">>, "count", IF Stored(docs) = {} THEN "fetch" ELSE "latest")
    /\ UNCHANGED <<current, docs, writes, boots, aggregates, target, known, work, read, probe, unfilled>>

\* Defect: keyed by the epoch in progress, as the system state reports it (TypeOK).
FetchCurrent(t) ==
    /\ \/ pc[t] = "fetch"
       \/ pc[t] = "idle" /\ t[2] = "cron" /\ "cron" \in Methods[t[1]] /\ Listening(t[1])
    /\ current <= MaxEpoch
    /\ pc' = [pc EXCEPT ![t] = "find"]
    /\ target' = [target EXCEPT ![t] = current]
    /\ \E ok \in BOOLEAN : known' = [known EXCEPT ![t] = ok]
    /\ UNCHANGED <<current, docs, writes, boots, aggregates, work, read, probe, unfilled>>

\* captureFullSnapshot: keyed by the last complete epoch, whose totals are
\* zeros if their own query fails.
Fetch(t) ==
    /\ \/ pc[t] = "fetch"
       \/ pc[t] = "idle" /\ t[2] = "cron" /\ "cron" \in Methods[t[1]] /\ Listening(t[1])
    /\ pc' = [pc EXCEPT ![t] = "find"]
    /\ target' = [target EXCEPT ![t] = current - 1]
    /\ \E ok \in BOOLEAN : known' = [known EXCEPT ![t] = ok]
    /\ UNCHANGED <<current, docs, writes, boots, aggregates, work, read, probe, unfilled>>

Find(t) ==
    /\ At(t, "find", IF target[t] \in Stored(docs) THEN "update" ELSE "create")
    /\ UNCHANGED <<current, docs, writes, boots, aggregates, target, known, work, read, probe, unfilled>>

\* data of captureFullSnapshot.
Captured(ok) ==
    [updatedAt |-> 0, totals |-> ok, fees |-> IF ok THEN "final" ELSE "zero", live |-> TRUE]

\* updateOne with every field of the capture.
Update(t) ==
    /\ At(t, "update", AfterWrite(t))
    /\ Write(target[t], Captured(known[t]))
    /\ target' = [target EXCEPT ![t] = 0]
    /\ known' = [known EXCEPT ![t] = FALSE]
    /\ UNCHANGED <<current, boots, aggregates, work, read, probe, unfilled>>

\* create: refused by the unique index if another writer was faster.
Create(t) ==
    /\ target[t] \notin Stored(docs)
    /\ At(t, "create", AfterWrite(t))
    /\ Write(target[t], Captured(known[t]))
    /\ target' = [target EXCEPT ![t] = 0]
    /\ known' = [known EXCEPT ![t] = FALSE]
    /\ UNCHANGED <<current, boots, aggregates, work, read, probe, unfilled>>

\* A query of a capture or of the first rebuild fails, or the unique index
\* refuses the document: logged.
CaptureFails(t) ==
    /\ pc[t] \in {"fetch", "find", "update", "create", "all", "set"}
    /\ t[2] # "request"
    /\ pc' = [pc EXCEPT ![t] = Then(t)]
    /\ target' = [target EXCEPT ![t] = 0]
    /\ known' = [known EXCEPT ![t] = FALSE]
    /\ read' = [read EXCEPT ![t] = NoDocs]
    /\ UNCHANGED <<current, docs, writes, boots, aggregates, work, probe, unfilled>>

-----------------------------------------------------------------------------
(* backfillEpochs, once per boot: the flag `backfilling` is never found set. *)

\* The newest document bounds the epochs to look at.
Latest(p) ==
    LET t == <<p, "boot">> IN
    /\ At(t, "latest", "distinct")
    /\ target' = [target EXCEPT ![t] = IF Head(docs) = 0 THEN DefaultEpoch ELSE Head(docs)]
    /\ UNCHANGED <<current, docs, writes, boots, aggregates, known, work, read, probe, unfilled>>

\* existingSet, read once; the loop visits the epochs below that it lacks.
Distinct(p) ==
    LET t == <<p, "boot">> IN
    /\ At(t, "distinct", "summary")
    /\ work' = [work EXCEPT ![t] = (1 .. target[t] - 1) \ Stored(docs)]
    /\ UNCHANGED <<current, docs, writes, boots, aggregates, target, known, read, probe, unfilled>>

NextEpoch(t) == CHOOSE e \in work[t] : \A f \in work[t] : e <= f

\* getEpochSummary finds nothing, or it or the write fails: the epoch is left out.
SkipEpoch(p) ==
    LET t == <<p, "boot">> IN
    /\ work[t] # {}
    /\ pc[t] = "summary"
    /\ work' = [work EXCEPT ![t] = @ \ {NextEpoch(t)}]
    /\ unfilled' = [unfilled EXCEPT ![p] = @ \cup {NextEpoch(t)}]
    /\ UNCHANGED <<current, docs, writes, boots, aggregates, pc, target, known, read, probe>>

\* getEpochSummary: a complete epoch, decoded; nothing of it is known live only.
Summary == [updatedAt |-> 0, totals |-> TRUE, fees |-> "final", live |-> FALSE]

\* Defect: the zeros are under $set as well (LiveKept).
UpsertSetsAll(p) ==
    LET t == <<p, "boot">>
        e == NextEpoch(t) IN
    /\ work[t] # {}
    /\ pc[t] = "summary"
    /\ Write(e, Summary)
    /\ work' = [work EXCEPT ![t] = @ \ {e}]
    /\ UNCHANGED <<current, boots, aggregates, pc, target, known, read, probe, unfilled>>

\* The summary is answered: $set totals and fees; $setOnInsert zeros for what is known live only.
Upsert(p) ==
    LET t == <<p, "boot">>
        e == NextEpoch(t) IN
    /\ work[t] # {}
    /\ pc[t] = "summary"
    /\ Write(e, [Summary EXCEPT !.live = docs[e].live])
    /\ work' = [work EXCEPT ![t] = @ \ {e}]
    /\ UNCHANGED <<current, boots, aggregates, pc, target, known, read, probe, unfilled>>

BackfillEnds(p) ==
    LET t == <<p, "boot">> IN
    /\ work[t] = {}
    /\ At(t, "summary", "filled")
    /\ UNCHANGED <<current, docs, writes, boots, aggregates, target, known, work, read, probe, unfilled>>

\* findOne or distinct fails: the backfill is over before it began.
BackfillFails(p) ==
    LET t == <<p, "boot">> IN
    /\ pc[t] \in {"latest", "distinct"}
    /\ pc' = [pc EXCEPT ![t] = "idle"]
    /\ target' = [target EXCEPT ![t] = 0]
    /\ UNCHANGED <<current, docs, writes, boots, aggregates, known, work, read, probe, unfilled>>

-----------------------------------------------------------------------------
(* backfillEpochFees, by the command, once its boot is over. *)

\* The documents whose stake rewards are missing or zero.
FeesList(p) ==
    LET t == <<p, "fees">> IN
    /\ Listening(p)
    /\ At(t, "list", "enrich")
    /\ work' = [work EXCEPT ![t] = {e \in Stored(docs) : docs[e].fees # "final"}]
    /\ UNCHANGED <<current, docs, writes, boots, aggregates, target, known, read, probe, unfilled>>

\* The summary is answered and the five fields are set.
Enrich(p) ==
    LET t == <<p, "fees">>
        e == NextEpoch(t) IN
    /\ work[t] # {}
    /\ pc[t] = "enrich"
    /\ Write(e, [docs[e] EXCEPT !.fees = "final"])
    /\ work' = [work EXCEPT ![t] = @ \ {e}]
    /\ UNCHANGED <<current, boots, aggregates, pc, target, known, read, probe, unfilled>>

\* skipped or failed.
EnrichSkips(p) ==
    LET t == <<p, "fees">> IN
    /\ work[t] # {}
    /\ pc[t] = "enrich"
    /\ work' = [work EXCEPT ![t] = @ \ {NextEpoch(t)}]
    /\ UNCHANGED <<current, docs, writes, boots, aggregates, pc, target, known, read, probe, unfilled>>

-----------------------------------------------------------------------------
(* getAggregates, one request at a time per process. *)

\* The head document as it is now.
Probe(p) ==
    LET t == <<p, "request">> IN
    /\ Asked(p)
    /\ Listening(p)
    /\ At(t, "idle", IF Head(docs) = 0 THEN "idle" ELSE "compare")
    /\ target' = [target EXCEPT ![t] = Head(docs)]
    /\ probe' = [probe EXCEPT ![p] =
                    IF Head(docs) = 0 THEN 0
                    ELSE docs[Head(docs)].updatedAt]
    /\ UNCHANGED <<current, docs, writes, boots, aggregates, known, work, read, unfilled>>

\* Defect: the epoch alone decides (AnswersFresh).
StaleByEpoch(p) == Head(aggregates[p]) # target[<<p, "request">>]

\* Is the head that of the cached aggregates?
Stale(p) ==
    LET cached == aggregates[p]
        head == target[<<p, "request">>] IN
    \/ Head(cached) # head
    \/ cached[head].updatedAt # probe[p]

\* Fresh: the cached aggregates are returned, ...
AnswerCached(p) ==
    LET t == <<p, "request">> IN
    /\ At(t, "compare", "idle")
    /\ ~Stale(p)
    /\ target' = [target EXCEPT ![t] = 0]
    /\ probe' = [probe EXCEPT ![p] = 0]
    /\ UNCHANGED <<current, docs, writes, boots, aggregates, known, work, read, unfilled>>

\* ... stale: they are rebuilt, ...
Rebuild(p) ==
    /\ At(<<p, "request">>, "compare", "all")
    /\ Stale(p)
    /\ UNCHANGED <<current, docs, writes, boots, aggregates, target, known, work, read, probe, unfilled>>

\* ... and what the rebuild sets is returned.
AnswerRebuilt(p) ==
    LET t == <<p, "request">> IN
    /\ At(t, "set", "idle")
    /\ aggregates' = [aggregates EXCEPT ![p] = read[t]]
    /\ read' = [read EXCEPT ![t] = NoDocs]
    /\ target' = [target EXCEPT ![t] = 0]
    /\ probe' = [probe EXCEPT ![p] = 0]
    /\ UNCHANGED <<current, docs, writes, boots, known, work, unfilled>>

\* A query of the request failed.
RequestFails(p) ==
    LET t == <<p, "request">> IN
    /\ pc[t] \in {"all", "set"}
    /\ pc' = [pc EXCEPT ![t] = "idle"]
    /\ target' = [target EXCEPT ![t] = 0]
    /\ read' = [read EXCEPT ![t] = NoDocs]
    /\ probe' = [probe EXCEPT ![p] = 0]
    /\ UNCHANGED <<current, docs, writes, boots, aggregates, known, work, unfilled>>

-----------------------------------------------------------------------------
Task(t) ==
    \/ ReadAll(t) \/ SetAggregates(t)
    \/ Fetch(t) \/ Find(t) \/ Update(t) \/ Create(t) \/ CaptureFails(t)

Process(p) ==
    \/ Boot(p) \/ Exit(p)
    \/ Count(p)
    \/ Latest(p) \/ Distinct(p) \/ SkipEpoch(p) \/ Upsert(p)
    \/ BackfillEnds(p) \/ BackfillFails(p)
    \/ FeesList(p) \/ Enrich(p) \/ EnrichSkips(p)
    \/ Probe(p) \/ AnswerCached(p) \/ Rebuild(p) \/ AnswerRebuilt(p) \/ RequestFails(p)

Next == EpochEnds \/ (\E t \in Tasks : Task(t)) \/ (\E p \in Procs : Process(p))

Spec == Init /\ [][Next]_vars

-----------------------------------------------------------------------------
(* Properties. *)

PCs == {"down", "idle", "all", "set", "count", "fetch", "find", "update", "create", "latest",
        "distinct", "summary", "filled", "list", "enrich", "compare"}

(***************************************************************************)
(* TypeOK: the state is well-formed; every document describes a complete   *)
(* epoch, and what is in memory was in the collection.                     *)
(***************************************************************************)
TypeOK ==
    /\ current \in 2 .. MaxEpoch + 1
    /\ docs \in Docs
    /\ writes \in 0 .. MaxWrites
    /\ boots \in [Procs -> 0 .. MaxBoots]
    /\ aggregates \in [Procs -> Docs]
    /\ pc \in [Tasks -> PCs]
    /\ target \in [Tasks -> 0 .. MaxEpoch]
    /\ known \in [Tasks -> BOOLEAN]
    /\ work \in [Tasks -> SUBSET Epochs]
    /\ read \in [Tasks -> Docs]
    /\ probe \in [Procs -> 0 .. MaxWrites]
    /\ unfilled \in [Procs -> SUBSET Epochs]
    /\ Stored(docs) \subseteq 1 .. current - 1

(***************************************************************************)
(* AnswersFresh: whichever of the rebuilds that run at the same time in a  *)
(* process comes last, getAggregates never returns aggregates that are     *)
(* older than the head document that it has just looked at.                *)
(***************************************************************************)
CoversHead(p, answer) ==
    LET head == target[<<p, "request">>] IN
    \/ Head(answer) > head
    \/ Head(answer) = head /\ answer[head].updatedAt >= probe[p]

AnswersFresh ==
    [][\A p \in Procs :
        AnswerCached(p) \/ AnswerRebuilt(p) => CoversHead(p, aggregates'[p])]_vars

(***************************************************************************)
(* LiveKept: what only a live capture knows of an epoch is never replaced  *)
(* by the zeros of a backfill, although the backfill decides which epochs  *)
(* are missing long before it writes them (backfillEpochs, $setOnInsert).  *)
(***************************************************************************)
LiveKept == [][\A e \in Epochs : docs[e].live => docs'[e].live]_vars

(***************************************************************************)
(* FillsToCurrent: what the README says of the backfill: it fills missing  *)
(* epochs from epoch 1 to current.  The last complete epoch is left to the *)
(* next capture here.                                                      *)
(***************************************************************************)
FillsToCurrent ==
    \A p \in Procs :
        pc[<<p, "boot">>] = "filled" => 1 .. current - 2 \subseteq Stored(docs) \cup unfilled[p]

=============================================================================
