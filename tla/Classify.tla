------------------------------- MODULE Classify -------------------------------
(***************************************************************************)
(* classifyFromRaw of EcosystemService: the packages of a raw snapshot are *)
(* taken one by one, in whatever order the store returns them, and each is *)
(* put into the row of one project or into the cluster of its deployer.    *)
(* The registries are constants: MCClassify gives those of the source.     *)
(*                                                                         *)
(* A definition of AllProjects and a team of AllTeams are records as in    *)
(* the modules Projects and Teams.  A package is a record                  *)
(*   address, deployer (or NoDeployer), modules, structs, publishedAt,     *)
(*     events: what the raw snapshot stores of it (structs are the names   *)
(*     of its object types; publishedAt is 0 if unknown; events are those  *)
(*     of its metered modules);                                            *)
(*   metered: the modules with moduleMetrics, none in an old snapshot;     *)
(*   samples: what the chain answers for a sampled object, as pairs        *)
(*     <<type, <<field, constraint>>>> of the constraints it fulfils;      *)
(*   senders: the wallets of its sender documents, read live;              *)
(*   holders: the holders of each object type, [type -> wallets].          *)
(* A fingerprint probe is a live query and may fail, which counts as "no". *)
(***************************************************************************)
EXTENDS Integers, Sequences, FiniteSets, FiniteSetsExt

CONSTANTS
    AllProjects,    \* the definitions, in the order in which they are tried
    AllTeams,       \* the teams, in their order
    Packages,       \* the packages that may be on chain
    Snapshots,      \* the sets of packages that a raw snapshot may hold
    NoDeployer,     \* deployer: null
    Unsplit,        \* no deployer in the key of a row
    Network         \* the network that the snapshot was taken on

ASSUME RegistryAssumption ==
    DOMAIN AllProjects \subseteq Nat \ {0} /\ DOMAIN AllTeams \subseteq Nat

ASSUME SnapshotsAssumption == Snapshots \subseteq SUBSET Packages

\* What a snapshot stores is finite, and an event count is a number.
ASSUME FiniteAssumption ==
    /\ \A S \in Snapshots : IsFiniteSet(S)
    /\ \A p \in Packages :
            /\ p.events \in Nat
            /\ IsFiniteSet(p.senders) /\ IsFiniteSet(DOMAIN p.holders)
            /\ \A t \in DOMAIN p.holders : IsFiniteSet(p.holders[t])

\* Rows are keyed by the name, so two definitions of one name would share them.
ASSUME NamesAssumption ==
    \A i, j \in DOMAIN AllProjects : AllProjects[i].name = AllProjects[j].name => i = j

VARIABLES
    raw,            \* rawPackages, the packages of the snapshot
    rest,           \* those still to be classified
    rows,           \* projectMap: [key -> [def, facts]]
    clusters,       \* unattributedByDeployer: [deployer -> packages]
    unanswered      \* history: the packages on which a probe failed

vars == <<raw, rest, rows, clusters, unanswered>>

\* A definition is named by its position in the registry.
Defs == DOMAIN AllProjects

NoDef == 0

\* Defect: the last definition that matches wins (FoundByItsRule).
LastDef(S) == IF S = {} THEN NoDef ELSE CHOOSE i \in S : \A j \in S : j <= i

\* The first definition of a set, in the order of the registry.
FirstDef(S) == IF S = {} THEN NoDef ELSE CHOOSE i \in S : \A j \in S : i <= j

-----------------------------------------------------------------------------
(* The match rules. *)

HasFingerprint(def) == def.match.fingerprint.module # "none"

HasSyncMatch(def) ==
    LET match == def.match IN
    \/ match.packageAddresses # {}
    \/ match.deployerAddresses # {}
    \/ match.exact # {}
    \/ match.all # {}
    \/ match.any # {}
    \/ match.minModules > 0
    \/ match.objectTypes # {}

RoutingOnly(def) == ~HasSyncMatch(def) /\ ~HasFingerprint(def)

\* A project that receives routed packages receives them in one row.
ASSUME WholeAssumption ==
    \A i \in Defs : RoutingOnly(AllProjects[i]) => ~AllProjects[i].splitByDeployer

\* Every criterion that is given must hold; deployers count on mainnet only.
SyncMatch(def, p, network) ==
    LET match == def.match IN
    /\ def.network = network
    /\ HasSyncMatch(def)
    /\ match.packageAddresses # {} => p.address \in match.packageAddresses
    /\ match.deployerAddresses # {} =>
            network = "mainnet" /\ p.deployer \in match.deployerAddresses
    /\ match.exact # {} => p.modules = match.exact
    /\ match.all \subseteq p.modules
    /\ match.any # {} => match.any \cap p.modules # {}
    /\ Cardinality(p.modules) >= match.minModules
    /\ match.objectTypes \subseteq p.structs

matchProject(p, network) == FirstDef({i \in Defs : SyncMatch(AllProjects[i], p, network)})

\* Is the fingerprint of a definition probed on the package?
Probes(def, p, network) ==
    /\ def.network = network
    /\ HasFingerprint(def)
    /\ def.match.fingerprint.module \in p.modules

Probed(p, network) == {i \in Defs : Probes(AllProjects[i], p, network)}

\* probeFingerprint: some object of the type fulfils every constraint.
Fulfilled(fp, p) ==
    /\ \E s \in p.samples : s[1] = fp.type
    /\ \A f \in fp.fields : <<fp.type, f>> \in p.samples

Genuine(p, network) ==
    {i \in Probed(p, network) : Fulfilled(AllProjects[i].match.fingerprint, p)}

\* matchByFingerprint, of which only the probes in `answered` came back.
matchByFingerprint(p, network, answered) == FirstDef(Genuine(p, network) \cap answered)

\* The definition that claims the package, before routing.
Claims(p, network, answered) ==
    LET sync == matchProject(p, network)
        fp == matchByFingerprint(p, network, answered) IN
    IF sync = NoDef THEN fp
    ELSE IF AllProjects[sync].splitByDeployer /\ fp # NoDef THEN fp
    ELSE sync

-----------------------------------------------------------------------------
(* Routing of the packages of an aggregate. *)

\* candidateTeams: the positions of the teams that publish from the deployer.
CandidateTeams(deployer, network) ==
    {i \in DOMAIN AllTeams :
        /\ network = "mainnet"
        /\ [network |-> network, address |-> deployer] \in AllTeams[i].deployers}

\* Defect: packages are routed to any project of the team (FitsTheRow).
RoutingTargetsAny(team, network) ==
    {i \in Defs : /\ AllProjects[i].teamId = AllTeams[team].id
                  /\ AllProjects[i].network = network}

RoutingTargets(team, network) ==
    {i \in Defs : /\ AllProjects[i].teamId = AllTeams[team].id
                  /\ RoutingOnly(AllProjects[i])
                  /\ AllProjects[i].network = network}

\* The routing-only project of the first candidate team that has one.
RouteOf(deployer, network) ==
    LET open == {i \in CandidateTeams(deployer, network) : RoutingTargets(i, network) # {}} IN
    IF open = {} THEN NoDef
    ELSE FirstDef(RoutingTargets(CHOOSE i \in open : \A j \in open : i <= j, network))

\* Defect: a routed package keeps the key of its aggregate (TypeOK).
HomeUnrenamed(def, p, network) ==
    LET target == RouteOf(p.deployer, network) IN
    IF ~AllProjects[def].splitByDeployer
    THEN [def |-> def, key |-> <<AllProjects[def].name, Unsplit>>]
    ELSE [def |-> IF target # NoDef THEN target ELSE def,
          key |-> <<AllProjects[def].name, p.deployer>>]

\* The definition and the key of the row that a package joins, claimed by `def`.
Home(def, p, network) ==
    IF ~AllProjects[def].splitByDeployer
    THEN [def |-> def, key |-> <<AllProjects[def].name, Unsplit>>]
    ELSE LET target == RouteOf(p.deployer, network) IN
         IF target # NoDef
         THEN [def |-> target, key |-> <<AllProjects[target].name, Unsplit>>]
         ELSE [def |-> def, key |-> <<AllProjects[def].name, p.deployer>>]

-----------------------------------------------------------------------------
Init ==
    /\ raw \in Snapshots
    /\ rest = raw
    /\ rows = <<>>
    /\ clusters = <<>>
    /\ unanswered = {}

\* Defect: a package replaces those that its row had (CountedOnce).
JoinReplaces(home, p) ==
    rows' = [k \in DOMAIN rows \cup {home.key} |->
                IF k # home.key THEN rows[k] ELSE [def |-> home.def, facts |-> {p}]]

\* projectMap.get, then push or set with this package as the first.
Join(home, p) ==
    rows' = [k \in DOMAIN rows \cup {home.key} |->
                IF k # home.key THEN rows[k]
                ELSE IF k \in DOMAIN rows THEN [rows[k] EXCEPT !.facts = @ \cup {p}]
                ELSE [def |-> home.def, facts |-> {p}]]

Cluster(p) ==
    clusters' = [d \in DOMAIN clusters \cup {p.deployer} |->
                    (IF d \in DOMAIN clusters THEN clusters[d] ELSE {})
                        \cup (IF d = p.deployer THEN {p} ELSE {})]

\* One turn of the loop over the packages: some probes answer, some fail.
Classify(p) ==
    \E answered \in SUBSET Probed(p, Network) :
        /\ rest' = rest \ {p}
        /\ UNCHANGED raw
        /\ unanswered' = IF answered = Probed(p, Network) THEN unanswered
                         ELSE unanswered \cup {p}
        /\ IF Claims(p, Network, answered) = NoDef
           THEN Cluster(p) /\ UNCHANGED rows
           ELSE Join(Home(Claims(p, Network, answered), p, Network), p) /\ UNCHANGED clusters

Next == \E p \in rest : Classify(p)

Spec == Init /\ [][Next]_vars

-----------------------------------------------------------------------------
(* What the view says of a row and of a cluster. *)

Sum(f(_), S) == MapThenSumSet(f, S)

Events(facts) == Sum(LAMBDA p : p.events, facts)

\* Senders of a row are counted once, those of a cluster once per package.
Senders(facts) == UNION {p.senders : p \in {q \in facts : q.metered # {}}}

UniqueSenders(facts) == Cardinality(Senders(facts))

ClusterSenders(facts) == Sum(LAMBDA p : Cardinality(Senders({p})), facts)

\* The holder sets of the types that the definition counts, per package.
TypePairs(def, facts) ==
    UNION {{<<p.address, t>> : t \in DOMAIN p.holders \cap def.countTypes} : p \in facts}

Holders(def, facts) ==
    UNION {UNION {p.holders[t] : t \in DOMAIN p.holders \cap def.countTypes} : p \in facts}

\* The (package, module) pairs that senders are looked up by.
Pairs(facts) == UNION {{p.address} \X p.metered : p \in facts}

\* null (here -1) for a definition that counts no type.
UniqueHolders(def, facts) ==
    IF def.countTypes = {} THEN -1 ELSE Cardinality(Holders(def, facts))

\* Defect: without module metrics a row has no reach (ReachCoversBoth).
UniqueWalletsReachUnmetered(def, facts) ==
    IF TypePairs(def, facts) = {} \/ Pairs(facts) = {} THEN UniqueSenders(facts)
    ELSE Cardinality(Holders(def, facts) \cup Senders(facts))

UniqueWalletsReach(def, facts) ==
    IF TypePairs(def, facts) = {} THEN UniqueSenders(facts)
    ELSE IF Pairs(facts) = {} THEN UniqueHolders(def, facts)
    ELSE Cardinality(Holders(def, facts) \cup Senders(facts))

\* Facts are sorted by publish time, an unknown one first (ties by address).
First(facts) == CHOOSE p \in facts : \A q \in facts : p.publishedAt <= q.publishedAt

Row(k) ==
    LET def == AllProjects[rows[k].def]
        facts == rows[k].facts IN
    [name |-> k, team |-> def.teamId, packages |-> Cardinality(facts),
     packageAddress |-> First(facts).address,
     events |-> Events(facts), uniqueSenders |-> UniqueSenders(facts),
     uniqueHolders |-> UniqueHolders(def, facts),
     uniqueWalletsReach |-> UniqueWalletsReach(def, facts)]

ClusterRow(d) ==
    [deployer |-> d, packages |-> Cardinality(clusters[d]),
     firstPackageAddress |-> First(clusters[d]).address,
     events |-> Events(clusters[d]), uniqueSenders |-> ClusterSenders(clusters[d]),
     uniqueHolders |-> 0, uniqueWalletsReach |-> ClusterSenders(clusters[d])]

\* l1, unattributed and the totals that classifyFromRaw returns.
View ==
    [l1 |-> {Row(k) : k \in DOMAIN rows},
     unattributed |-> {ClusterRow(d) : d \in DOMAIN clusters},
     totalEvents |-> Sum(LAMBDA k : Events(rows[k].facts), DOMAIN rows),
     totalUnattributedPackages |-> Sum(LAMBDA d : Cardinality(clusters[d]), DOMAIN clusters)]

-----------------------------------------------------------------------------
(* Properties. *)

\* The packages that are in the view.
Seen ==
    {p \in raw : \/ \E k \in DOMAIN rows : p \in rows[k].facts
                \/ \E d \in DOMAIN clusters : p \in clusters[d]}

(***************************************************************************)
(* TypeOK: every row belongs to a definition of the registry and carries   *)
(* its name, every cluster is keyed by the deployer of its packages.       *)
(***************************************************************************)
TypeOK ==
    /\ raw \in Snapshots
    /\ rest \subseteq raw
    /\ unanswered \subseteq raw
    /\ \A k \in DOMAIN rows :
            /\ rows[k] \in [def : Defs, facts : (SUBSET raw) \ {{}}]
            /\ k[1] = AllProjects[rows[k].def].name
    /\ \A d \in DOMAIN clusters :
            /\ clusters[d] \in (SUBSET raw) \ {{}}
            /\ \A p \in clusters[d] : p.deployer = d

(***************************************************************************)
(* CountedOnce: whatever the order of the packages and whatever the probes *)
(* answer, a package of the snapshot is in one row or one cluster, so that *)
(* the totals of the view lose and double nothing (the loop of             *)
(* classifyFromRaw and the sums of its result).                            *)
(***************************************************************************)
Partition ==
    /\ Seen \cap rest = {}
    /\ Seen \cup rest = raw
    /\ \A k, l \in DOMAIN rows : k # l => rows[k].facts \cap rows[l].facts = {}
    /\ \A k \in DOMAIN rows, d \in DOMAIN clusters : rows[k].facts \cap clusters[d] = {}
    /\ \A c, d \in DOMAIN clusters : c # d => clusters[c] \cap clusters[d] = {}

TotalsAddUp ==
    View.totalEvents + Sum(LAMBDA d : Events(clusters[d]), DOMAIN clusters) = Events(Seen)

CountedOnce == Partition /\ TotalsAddUp

(***************************************************************************)
(* FitsTheRow: a project with rules of its own never absorbs a package     *)
(* that those rules do not describe, however its team's deployers are      *)
(* shared; one without rules receives only packages that an address of its *)
(* team published and that an aggregate claimed.  Rows of an aggregate     *)
(* hold the packages of one deployer.                                      *)
(***************************************************************************)
Describes(i, p) == SyncMatch(AllProjects[i], p, Network) \/ i \in Genuine(p, Network)

PublishedBy(team, p) ==
    \E i \in DOMAIN AllTeams :
        /\ AllTeams[i].id = team
        /\ [network |-> Network, address |-> p.deployer] \in AllTeams[i].deployers

Fits(i, p) ==
    \/ Describes(i, p)
    \/ /\ RoutingOnly(AllProjects[i])
       /\ \E a \in Defs : AllProjects[a].splitByDeployer /\ Describes(a, p)
       /\ PublishedBy(AllProjects[i].teamId, p)

FitsTheRow ==
    \A k \in DOMAIN rows : \A p \in rows[k].facts :
        /\ Fits(rows[k].def, p)
        /\ AllProjects[rows[k].def].splitByDeployer =>
                \A q \in rows[k].facts : q.deployer = p.deployer

(***************************************************************************)
(* ReachCoversBoth: the reach of a row counts every sender and every       *)
(* counted holder, and nobody twice, in each of the three ways in which    *)
(* classifyFromRaw computes it.                                            *)
(***************************************************************************)
ReachCoversBoth ==
    \A r \in View.l1 :
        /\ r.uniqueSenders <= r.uniqueWalletsReach
        /\ r.uniqueHolders <= r.uniqueWalletsReach
        /\ r.uniqueHolders >= 0 => r.uniqueWalletsReach <= r.uniqueSenders + r.uniqueHolders

=============================================================================
