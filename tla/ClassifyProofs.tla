---------------------------- MODULE ClassifyProofs -----------------------------
(***************************************************************************)
(* Proofs about Classify: for any registries, any packages and any answers *)
(* of the chain, every package is put in one place, and in a row whose     *)
(* definition describes it or receives the aggregates of its publisher;    *)
(* the events of the rows and the clusters sum to those of the packages;   *)
(* and the reach of a row counts its senders and holders once.             *)
(*                                                                         *)
(* Below, about PackageProbe, whose facts Classify reads: for any package, *)
(* any answers and any failures, the state has its type, and no fact says  *)
(* more than is on chain.                                                  *)
(***************************************************************************)
EXTENDS MCClassify, PackageProbe, FiniteSetTheorems, WellFoundedInduction, TLAPS

(***************************************************************************)
(* A non-empty set of natural numbers has a least element: the initial     *)
(* intervals of its members are finite sets, and inclusion is well-founded *)
(* on those.                                                               *)
(***************************************************************************)
LEMMA Least ==
    ASSUME NEW S \in SUBSET Nat, S # {}
    PROVE  \E i \in S : \A j \in S : i <= j
<1> DEFINE T == {1 .. i : i \in S}
<1>1. T \subseteq FiniteSubsetsOf(Nat)
  <2> SUFFICES ASSUME NEW i \in S PROVE 1 .. i \in FiniteSubsetsOf(Nat)
    OBVIOUS
  <2>1. IsFiniteSet(1 .. i)
    BY FS_Interval
  <2>2. 1 .. i \subseteq Nat
    OBVIOUS
  <2> QED
    BY <2>1, <2>2 DEF FiniteSubsetsOf
<1>2. T # {}
  OBVIOUS
<1>3. PICK t \in T : \A u \in T : <<u, t>> \notin StrictSubsetOrdering(Nat)
  <2> HIDE DEF T
  <2> QED
    BY <1>1, <1>2, FS_StrictSubsetOrderingWellFounded, WFMin
<1>4. PICK i \in S : t = 1 .. i
  OBVIOUS
<1>5. ASSUME NEW j \in S, j < i PROVE FALSE
  <2>1. <<1 .. j, 1 .. i>> \in StrictSubsetOrdering(Nat)
    <3>1. i \in 1 .. i /\ i \notin 1 .. j
      BY <1>5
    <3>2. 1 .. j \subseteq 1 .. i /\ 1 .. i \subseteq Nat
      BY <1>5
    <3> QED
      BY <3>1, <3>2 DEF StrictSubsetOrdering
  <2> QED
    BY <2>1, <1>3, <1>4
<1> QED
  BY <1>5

(***************************************************************************)
(* The first definition of a set is a member of it, and none of no set.    *)
(***************************************************************************)
LEMMA FirstIsMember ==
    ASSUME NEW S \in SUBSET Defs
    PROVE  /\ S # {} => FirstDef(S) \in S
           /\ S = {} => FirstDef(S) = NoDef
           /\ NoDef \notin Defs
<1>1. S \in SUBSET Nat /\ NoDef \notin Defs
  BY RegistryAssumption DEF Defs, NoDef
<1>2. CASE S # {}
  BY <1>1, <1>2, Least DEF FirstDef
<1>3. CASE S = {}
  BY <1>1, <1>3 DEF FirstDef
<1> QED
  BY <1>2, <1>3

(***************************************************************************)
(* Whatever the probes answer, the definition that claims a package        *)
(* describes it.                                                           *)
(***************************************************************************)
LEMMA ClaimsDescribed ==
    ASSUME NEW p, NEW answered, Claims(p, Network, answered) # NoDef
    PROVE  /\ Claims(p, Network, answered) \in Defs
           /\ Describes(Claims(p, Network, answered), p)
<1> DEFINE sync == matchProject(p, Network)
           fp == matchByFingerprint(p, Network, answered)
<1>1. sync = NoDef \/ (sync \in Defs /\ SyncMatch(AllProjects[sync], p, Network))
  BY FirstIsMember, {i \in Defs : SyncMatch(AllProjects[i], p, Network)} \in SUBSET Defs DEF matchProject
<1>2. fp = NoDef \/ (fp \in Defs /\ fp \in Genuine(p, Network))
  <2>1. Genuine(p, Network) \cap answered \in SUBSET Defs
    BY DEF Genuine, Probed
  <2> QED
    BY <2>1, FirstIsMember DEF matchByFingerprint
<1>3. \/ Claims(p, Network, answered) = sync
      \/ Claims(p, Network, answered) = fp
  BY DEF Claims
<1> QED
  BY <1>1, <1>2, <1>3 DEF Describes

(***************************************************************************)
(* A team that a deployer's packages are routed to publishes from it.      *)
(***************************************************************************)
LEMMA RouteIsOpen ==
    ASSUME NEW p, RouteOf(p.deployer, Network) # NoDef
    PROVE  /\ RouteOf(p.deployer, Network) \in Defs
           /\ RoutingOnly(AllProjects[RouteOf(p.deployer, Network)])
           /\ PublishedBy(AllProjects[RouteOf(p.deployer, Network)].teamId, p)
<1> DEFINE open == {i \in CandidateTeams(p.deployer, Network) : RoutingTargets(i, Network) # {}}
           team == CHOOSE i \in open : \A j \in open : i <= j
<1>1. open # {} /\ RouteOf(p.deployer, Network) = FirstDef(RoutingTargets(team, Network))
  BY DEF RouteOf
<1>2. open \in SUBSET Nat
  BY RegistryAssumption DEF CandidateTeams
<1>3. team \in open
  <2> HIDE DEF open
  <2> QED
    BY <1>1, <1>2, Least
<1>4. /\ team \in DOMAIN AllTeams
      /\ [network |-> Network, address |-> p.deployer] \in AllTeams[team].deployers
      /\ RoutingTargets(team, Network) # {}
  BY <1>3 DEF CandidateTeams
<1> HIDE DEF team, open
<1>5. RouteOf(p.deployer, Network) \in RoutingTargets(team, Network)
  <2>1. RoutingTargets(team, Network) \in SUBSET Defs
    BY DEF RoutingTargets
  <2> QED
    BY <2>1, <1>1, <1>4, FirstIsMember
<1> QED
  BY <1>4, <1>5 DEF RoutingTargets, PublishedBy

(***************************************************************************)
(* The inductive invariant: besides what is to be shown, the key of a row  *)
(* of an aggregate names the deployer of every package in it.  Without it  *)
(* a package could join a row of its key that another deployer opened.     *)
(***************************************************************************)
Keyed ==
    \A k \in DOMAIN rows : \A p \in rows[k].facts :
        /\ Fits(rows[k].def, p)
        /\ AllProjects[rows[k].def].splitByDeployer =>
                k = <<AllProjects[rows[k].def].name, p.deployer>>

Inv == TypeOK /\ Partition /\ Keyed

(***************************************************************************)
(* The home of a package that is claimed: a definition that fits it, under *)
(* its own name, with the deployer in the key if it is an aggregate.       *)
(***************************************************************************)
LEMMA HomeFits ==
    ASSUME NEW p, NEW answered, Claims(p, Network, answered) # NoDef
    PROVE  LET home == Home(Claims(p, Network, answered), p, Network) IN
           /\ home.def \in Defs
           /\ Fits(home.def, p)
           /\ home.key[1] = AllProjects[home.def].name
           /\ AllProjects[home.def].splitByDeployer =>
                    home.key = <<AllProjects[home.def].name, p.deployer>>
<1> DEFINE def == Claims(p, Network, answered)
           target == RouteOf(p.deployer, Network)
           home == Home(Claims(p, Network, answered), p, Network)
<1>1. def \in Defs /\ Describes(def, p)
  BY ClaimsDescribed
<1>2. CASE ~AllProjects[def].splitByDeployer
  <2>1. home = [def |-> def, key |-> <<AllProjects[def].name, Unsplit>>]
    BY <1>2 DEF Home
  <2>2. Fits(def, p)
    BY <1>1 DEF Fits
  <2> HIDE DEF def
  <2> QED
    BY <2>1, <2>2, <1>1, <1>2
<1>3. CASE AllProjects[def].splitByDeployer /\ target = NoDef
  <2>1. home = [def |-> def, key |-> <<AllProjects[def].name, p.deployer>>]
    BY <1>3 DEF Home
  <2>2. Fits(def, p)
    BY <1>1 DEF Fits
  <2> HIDE DEF def
  <2> QED
    BY <2>1, <2>2, <1>1
<1>4. CASE AllProjects[def].splitByDeployer /\ target # NoDef
  <2>1. home = [def |-> target, key |-> <<AllProjects[target].name, Unsplit>>]
    BY <1>4 DEF Home
  <2>2. target \in Defs /\ RoutingOnly(AllProjects[target]) /\ PublishedBy(AllProjects[target].teamId, p)
    BY <1>4, RouteIsOpen
  <2>3. Fits(target, p)
    BY <2>2, <1>1, <1>4 DEF Fits
  <2>4. ~AllProjects[target].splitByDeployer
    BY <2>2, WholeAssumption
  <2> HIDE DEF def, target
  <2> QED
    BY <2>1, <2>2, <2>3, <2>4
<1> QED
  BY <1>2, <1>3, <1>4

(***************************************************************************)
(* The initial states satisfy the invariant.                               *)
(***************************************************************************)
LEMMA InitInv == Init => Inv
<1> SUFFICES ASSUME Init PROVE Inv
  OBVIOUS
<1>1. TypeOK
  BY DEF Init, TypeOK
<1>2. Partition
  BY DEF Init, Partition, Seen
<1>3. Keyed
  BY DEF Init, Keyed
<1> QED
  BY <1>1, <1>2, <1>3 DEF Inv

(***************************************************************************)
(* Joining a row keeps the invariant: a row of the same key is of the same *)
(* definition, for names are unique.                                       *)
(***************************************************************************)
LEMMA JoinKeeps ==
    ASSUME Inv, NEW p \in rest, NEW answered, Claims(p, Network, answered) # NoDef,
           rest' = rest \ {p}, raw' = raw, unanswered' \subseteq raw,
           Join(Home(Claims(p, Network, answered), p, Network), p), clusters' = clusters
    PROVE  Inv'
<1> DEFINE home == Home(Claims(p, Network, answered), p, Network)
<1>1. /\ home.def \in Defs
      /\ Fits(home.def, p)
      /\ home.key[1] = AllProjects[home.def].name
      /\ AllProjects[home.def].splitByDeployer =>
                home.key = <<AllProjects[home.def].name, p.deployer>>
  BY HomeFits
<1>2. /\ DOMAIN rows' = DOMAIN rows \cup {home.key}
      /\ \A k \in DOMAIN rows : k # home.key => rows'[k] = rows[k]
      /\ home.key \in DOMAIN rows =>
            rows'[home.key] = [rows[home.key] EXCEPT !.facts = @ \cup {p}]
      /\ home.key \notin DOMAIN rows => rows'[home.key] = [def |-> home.def, facts |-> {p}]
  BY DEF Join
<1> HIDE DEF home
<1>3. p \in raw /\ raw \in Snapshots /\ rest \subseteq raw
  BY DEF Inv, TypeOK
<1>4. home.key \in DOMAIN rows => rows[home.key].def = home.def
  BY <1>1, NamesAssumption DEF Inv, TypeOK, Defs
<1>5. /\ home.key \in DOMAIN rows =>
            rows'[home.key].def = home.def /\ rows'[home.key].facts = rows[home.key].facts \cup {p}
      /\ home.key \notin DOMAIN rows =>
            rows'[home.key].def = home.def /\ rows'[home.key].facts = {p}
  BY <1>2, <1>4 DEF Inv, TypeOK
<1>6. TypeOK'
  <2>1. ASSUME NEW k \in DOMAIN rows'
        PROVE  /\ rows'[k] \in [def : Defs, facts : (SUBSET raw) \ {{}}]
               /\ k[1] = AllProjects[rows'[k].def].name
    <3>1. CASE k # home.key
      BY <3>1, <1>2 DEF Inv, TypeOK
    <3>2. CASE k = home.key /\ k \in DOMAIN rows
      BY <3>2, <1>1, <1>2, <1>3, <1>5 DEF Inv, TypeOK
    <3>3. CASE k = home.key /\ k \notin DOMAIN rows
      BY <3>3, <1>1, <1>2, <1>3
    <3> QED
      BY <3>1, <3>2, <3>3
  <2> QED
    BY <1>3, <2>1 DEF Inv, TypeOK
<1>7. Partition'
  <2>1. Seen' = Seen \cup {p}
    BY <1>2, <1>3, <1>5 DEF Seen
  <2>2. p \notin Seen
    BY DEF Inv, Partition
  <2>3. \A k \in DOMAIN rows : p \notin rows[k].facts
    BY <2>2, <1>3 DEF Seen
  <2>4. \A d \in DOMAIN clusters : p \notin clusters[d]
    BY <2>2, <1>3 DEF Seen
  <2>5. \A k, l \in DOMAIN rows' : k # l => rows'[k].facts \cap rows'[l].facts = {}
    BY <1>2, <1>5, <2>3 DEF Inv, Partition
  <2>6. \A k \in DOMAIN rows', d \in DOMAIN clusters : rows'[k].facts \cap clusters[d] = {}
    BY <1>2, <1>5, <2>4 DEF Inv, Partition
  <2>7. Seen' \cap rest' = {} /\ Seen' \cup rest' = raw'
    BY <2>1 DEF Inv, Partition
  <2> QED
    BY <2>5, <2>6, <2>7 DEF Inv, Partition
<1>8. Keyed'
  <2> SUFFICES ASSUME NEW k \in DOMAIN rows', NEW q \in rows'[k].facts
               PROVE  /\ Fits(rows'[k].def, q)
                      /\ AllProjects[rows'[k].def].splitByDeployer =>
                            k = <<AllProjects[rows'[k].def].name, q.deployer>>
    BY DEF Keyed, Fits, Describes, PublishedBy
  <2>1. CASE k # home.key
    BY <2>1, <1>2 DEF Inv, Keyed
  <2>2. CASE k = home.key /\ q = p
    BY <2>2, <1>1, <1>5
  <2>3. CASE k = home.key /\ q # p
    BY <2>3, <1>2, <1>4, <1>5 DEF Inv, Keyed
  <2> QED
    BY <2>1, <2>2, <2>3
<1> QED
  BY <1>6, <1>7, <1>8 DEF Inv

(***************************************************************************)
(* Joining the cluster of its deployer keeps the invariant.                *)
(***************************************************************************)
LEMMA ClusterKeeps ==
    ASSUME Inv, NEW p \in rest, rest' = rest \ {p}, raw' = raw, unanswered' \subseteq raw,
           Cluster(p), rows' = rows
    PROVE  Inv'
<1>1. /\ DOMAIN clusters' = DOMAIN clusters \cup {p.deployer}
      /\ \A d \in DOMAIN clusters : d # p.deployer => clusters'[d] = clusters[d]
      /\ p.deployer \in DOMAIN clusters =>
            clusters'[p.deployer] = clusters[p.deployer] \cup {p}
      /\ p.deployer \notin DOMAIN clusters => clusters'[p.deployer] = {p}
  BY DEF Cluster
<1>2. p \in raw /\ raw \in Snapshots /\ rest \subseteq raw
  BY DEF Inv, TypeOK
<1>3. TypeOK'
  <2>1. ASSUME NEW d \in DOMAIN clusters'
        PROVE  /\ clusters'[d] \in (SUBSET raw) \ {{}}
               /\ \A q \in clusters'[d] : q.deployer = d
    BY <1>1, <1>2 DEF Inv, TypeOK
  <2> QED
    BY <1>2, <2>1 DEF Inv, TypeOK
<1>4. Partition'
  <2>1. Seen' = Seen \cup {p}
    BY <1>1, <1>2 DEF Seen
  <2>2. p \notin Seen
    BY DEF Inv, Partition
  <2>3. \A k \in DOMAIN rows : p \notin rows[k].facts
    BY <2>2, <1>2 DEF Seen
  <2>4. \A d \in DOMAIN clusters : p \notin clusters[d]
    BY <2>2, <1>2 DEF Seen
  <2>5. \A c, d \in DOMAIN clusters' : c # d => clusters'[c] \cap clusters'[d] = {}
    BY <1>1, <2>4 DEF Inv, Partition
  <2>6. \A k \in DOMAIN rows, d \in DOMAIN clusters' : rows[k].facts \cap clusters'[d] = {}
    BY <1>1, <2>3 DEF Inv, Partition
  <2>7. Seen' \cap rest' = {} /\ Seen' \cup rest' = raw'
    BY <2>1 DEF Inv, Partition
  <2> QED
    BY <2>5, <2>6, <2>7 DEF Inv, Partition
<1>5. Keyed'
  BY DEF Inv, Keyed, Fits, Describes, PublishedBy
<1> QED
  BY <1>3, <1>4, <1>5 DEF Inv

(***************************************************************************)
(* Every step keeps the invariant.                                         *)
(***************************************************************************)
LEMMA NextInv == Inv /\ [Next]_vars => Inv'
<1> SUFFICES ASSUME Inv, [Next]_vars PROVE Inv'
  OBVIOUS
<1>1. ASSUME NEW p \in rest, Classify(p) PROVE Inv'
  <2>1. PICK answered \in SUBSET Probed(p, Network) :
            /\ rest' = rest \ {p}
            /\ UNCHANGED raw
            /\ unanswered' = IF answered = Probed(p, Network) THEN unanswered
                             ELSE unanswered \cup {p}
            /\ IF Claims(p, Network, answered) = NoDef
               THEN Cluster(p) /\ UNCHANGED rows
               ELSE Join(Home(Claims(p, Network, answered), p, Network), p) /\ UNCHANGED clusters
    BY <1>1 DEF Classify
  <2>2. unanswered' \subseteq raw
    BY <2>1 DEF Inv, TypeOK
  <2>3. CASE Claims(p, Network, answered) = NoDef
    BY <2>1, <2>2, <2>3, ClusterKeeps
  <2>4. CASE Claims(p, Network, answered) # NoDef
    BY <2>1, <2>2, <2>4, JoinKeeps
  <2> QED
    BY <2>3, <2>4
<1>2. CASE UNCHANGED vars
  BY <1>2 DEF vars, Inv, TypeOK, Partition, Seen, Keyed, Fits, Describes, PublishedBy
<1> QED
  BY <1>1, <1>2 DEF Next

(***************************************************************************)
(* The invariant holds throughout.                                         *)
(***************************************************************************)
LEMMA AlwaysInv == Spec => []Inv
<1> QED
  BY InitInv, NextInv, PTL DEF Spec

(***************************************************************************)
(* TypeOK, for any registries and packages.                                *)
(***************************************************************************)
THEOREM TypeCorrect == Spec => []TypeOK
<1>1. Inv => TypeOK
  BY DEF Inv
<1> QED
  BY <1>1, AlwaysInv, PTL

(***************************************************************************)
(* Partition, the part of CountedOnce that says where packages go: in      *)
(* whatever order they come, each is in one row or in one cluster.         *)
(***************************************************************************)
THEOREM ClassifiedOnce == Spec => []Partition
<1>1. Inv => Partition
  BY DEF Inv
<1> QED
  BY <1>1, AlwaysInv, PTL

(***************************************************************************)
(* FitsTheRow: no project absorbs what its rules do not describe.          *)
(***************************************************************************)
THEOREM RowsFit == Spec => []FitsTheRow
<1>1. Inv => FitsTheRow
  <2> SUFFICES ASSUME Inv, NEW k \in DOMAIN rows, NEW p \in rows[k].facts
               PROVE  /\ Fits(rows[k].def, p)
                      /\ AllProjects[rows[k].def].splitByDeployer =>
                            \A q \in rows[k].facts : q.deployer = p.deployer
    BY DEF FitsTheRow
  <2> QED
    BY DEF Inv, Keyed
<1> QED
  BY <1>1, AlwaysInv, PTL

(***************************************************************************)
(* Where a package goes is settled by the package alone: one whose probes  *)
(* were all answered is in the row that the registry gives it, or in a     *)
(* cluster if no definition claims it, whatever came before it.            *)
(***************************************************************************)
Placed(p) ==
    LET def == Claims(p, Network, Probed(p, Network)) IN
    IF def = NoDef THEN \E d \in DOMAIN clusters : p \in clusters[d]
    ELSE \E k \in DOMAIN rows :
            p \in rows[k].facts /\ rows[k].def = Home(def, p, Network).def

AllPlaced == \A p \in Seen \ unanswered : Placed(p)

(***************************************************************************)
(* A package that joins a row is placed, and no other is moved.            *)
(***************************************************************************)
LEMMA JoinPlaces ==
    ASSUME Inv, NEW p \in rest, NEW answered, Claims(p, Network, answered) # NoDef,
           Join(Home(Claims(p, Network, answered), p, Network), p), clusters' = clusters,
           raw' = raw
    PROVE  /\ Seen' = Seen \cup {p}
           /\ \A q \in Seen : Placed(q) => Placed(q)'
           /\ answered = Probed(p, Network) => Placed(p)'
<1> DEFINE home == Home(Claims(p, Network, answered), p, Network)
<1>1. home.def \in Defs /\ home.key[1] = AllProjects[home.def].name
  BY HomeFits
<1>2. /\ DOMAIN rows' = DOMAIN rows \cup {home.key}
      /\ \A k \in DOMAIN rows : k # home.key => rows'[k] = rows[k]
      /\ home.key \in DOMAIN rows =>
            rows'[home.key] = [rows[home.key] EXCEPT !.facts = @ \cup {p}]
      /\ home.key \notin DOMAIN rows => rows'[home.key] = [def |-> home.def, facts |-> {p}]
  BY DEF Join
<1>3. answered = Probed(p, Network) =>
        home = Home(Claims(p, Network, Probed(p, Network)), p, Network)
  OBVIOUS
<1> HIDE DEF home
<1>4. home.key \in DOMAIN rows => rows[home.key].def = home.def
  BY <1>1, NamesAssumption DEF Inv, TypeOK, Defs
<1>5. /\ home.key \in DOMAIN rows =>
            rows'[home.key].def = home.def /\ rows'[home.key].facts = rows[home.key].facts \cup {p}
      /\ home.key \notin DOMAIN rows =>
            rows'[home.key].def = home.def /\ rows'[home.key].facts = {p}
  BY <1>2, <1>4 DEF Inv, TypeOK
<1>6. \A k \in DOMAIN rows :
        k \in DOMAIN rows' /\ rows'[k].def = rows[k].def /\ rows[k].facts \subseteq rows'[k].facts
  BY <1>2, <1>4, <1>5
<1>7. p \in raw
  BY DEF Inv, TypeOK
<1>8. Seen' = Seen \cup {p}
  BY <1>2, <1>5, <1>7 DEF Seen
<1>9. ASSUME NEW q \in Seen, Placed(q) PROVE Placed(q)'
  BY <1>6, <1>9 DEF Placed
<1>10. ASSUME answered = Probed(p, Network) PROVE Placed(p)'
  <2>1. Claims(p, Network, Probed(p, Network)) # NoDef
    BY <1>10
  <2>2. home.key \in DOMAIN rows' /\ p \in rows'[home.key].facts /\ rows'[home.key].def = home.def
    BY <1>2, <1>5
  <2> QED
    BY <1>3, <1>10, <2>1, <2>2 DEF Placed
<1> QED
  BY <1>8, <1>9, <1>10

(***************************************************************************)
(* A package that joins a cluster is placed, and no other is moved.        *)
(***************************************************************************)
LEMMA ClusterPlaces ==
    ASSUME Inv, NEW p \in rest, NEW answered, Claims(p, Network, answered) = NoDef,
           Cluster(p), rows' = rows, raw' = raw
    PROVE  /\ Seen' = Seen \cup {p}
           /\ \A q \in Seen : Placed(q) => Placed(q)'
           /\ answered = Probed(p, Network) => Placed(p)'
<1>1. /\ DOMAIN clusters' = DOMAIN clusters \cup {p.deployer}
      /\ \A d \in DOMAIN clusters : clusters[d] \subseteq clusters'[d]
      /\ \A d \in DOMAIN clusters' :
            clusters'[d] \subseteq (IF d \in DOMAIN clusters THEN clusters[d] ELSE {}) \cup {p}
      /\ p \in clusters'[p.deployer]
  BY DEF Cluster
<1>2. p \in raw
  BY DEF Inv, TypeOK
<1>3. Seen' = Seen \cup {p}
  BY <1>1, <1>2 DEF Seen
<1>4. ASSUME NEW q \in Seen, Placed(q) PROVE Placed(q)'
  BY <1>1, <1>4 DEF Placed
<1>5. ASSUME answered = Probed(p, Network) PROVE Placed(p)'
  BY <1>1, <1>5 DEF Placed
<1> QED
  BY <1>3, <1>4, <1>5

(***************************************************************************)
(* Every step places the package that it takes.                            *)
(***************************************************************************)
LEMMA NextPlaces == Inv /\ AllPlaced /\ [Next]_vars => AllPlaced'
<1> SUFFICES ASSUME Inv, AllPlaced, [Next]_vars PROVE AllPlaced'
  OBVIOUS
<1>1. ASSUME NEW p \in rest, Classify(p) PROVE AllPlaced'
  <2>1. PICK answered \in SUBSET Probed(p, Network) :
            /\ UNCHANGED raw
            /\ unanswered' = IF answered = Probed(p, Network) THEN unanswered
                             ELSE unanswered \cup {p}
            /\ IF Claims(p, Network, answered) = NoDef
               THEN Cluster(p) /\ UNCHANGED rows
               ELSE Join(Home(Claims(p, Network, answered), p, Network), p) /\ UNCHANGED clusters
    BY <1>1 DEF Classify
  <2>2. /\ Seen' = Seen \cup {p}
        /\ \A q \in Seen : Placed(q) => Placed(q)'
        /\ answered = Probed(p, Network) => Placed(p)'
    BY <2>1, JoinPlaces, ClusterPlaces
  <2>3. ASSUME NEW q \in Seen' \ unanswered' PROVE Placed(q)'
    <3>1. CASE q = p
      BY <2>1, <2>2, <2>3, <3>1
    <3>2. CASE q # p
      BY <2>1, <2>2, <2>3, <3>2 DEF AllPlaced
    <3> QED
      BY <3>1, <3>2
  <2> QED
    BY <2>3 DEF AllPlaced
<1>2. CASE UNCHANGED vars
  BY <1>2 DEF vars, AllPlaced, Placed, Seen
<1> QED
  BY <1>1, <1>2 DEF Next

(***************************************************************************)
(* Whatever the order of the packages, one whose probes were answered is   *)
(* where the rules put it: no row, team or cluster opened before it        *)
(* changes that.                                                           *)
(***************************************************************************)
THEOREM PlacedByRules == Spec => []AllPlaced
<1>1. Init => AllPlaced
  BY DEF Init, AllPlaced, Seen
<1> QED
  BY <1>1, NextPlaces, AlwaysInv, PTL DEF Spec

(***************************************************************************)
(* FoundByItsRule, for any registry whose rules do not take one another's  *)
(* packages (RulesApart, of one package at a time).                        *)
(***************************************************************************)
THEOREM RuledAreFound ==
    ASSUME RulesApart
    PROVE  Spec => []FoundByItsRule
<1>1. Inv /\ AllPlaced => FoundByItsRule
  <2> SUFFICES ASSUME Inv, AllPlaced, NEW p \in Seen \ unanswered, Ruled(p)
               PROVE  \E k \in DOMAIN rows : /\ p \in rows[k].facts
                                            /\ p.made = AllProjects[rows[k].def].name
    BY DEF FoundByItsRule
  <2>1. p \in Packages
    BY SnapshotsAssumption DEF Inv, TypeOK, Seen
  <2> DEFINE def == Claims(p, Network, Probed(p, Network))
  <2>2. def # NoDef /\ p.made = AllProjects[Home(def, p, Network).def].name
    BY <2>1 DEF RulesApart
  <2>3. Placed(p)
    BY DEF AllPlaced
  <2>4. PICK k \in DOMAIN rows : p \in rows[k].facts /\ rows[k].def = Home(def, p, Network).def
    BY <2>2, <2>3 DEF Placed
  <2> HIDE DEF def
  <2> QED
    BY <2>2, <2>4
<1> QED
  BY <1>1, PlacedByRules, AlwaysInv, PTL

-----------------------------------------------------------------------------
(***************************************************************************)
(* Sums over finite sets.                                                  *)
(*                                                                         *)
(* MapThenSumSet is a recursive function on the subsets of its set that    *)
(* takes one element after another by CHOOSE.  Adds says that a function   *)
(* solves this recursion.  What is known of recursion is got from a least  *)
(* set on which it would fail.                                             *)
(***************************************************************************)
Chosen(s) == CHOOSE x \in s : TRUE

Adds(h, F, S) ==
    h = [s \in SUBSET S |->
            IF s = {} THEN 0 ELSE F[Chosen(s)] + h[s \ {Chosen(s)}]]

SumOf(F, S) == (CHOOSE h : Adds(h, F, S))[S]

(***************************************************************************)
(* A set of subsets of a finite set has a minimal member.                  *)
(***************************************************************************)
LEMMA Minimal ==
    ASSUME NEW S, IsFiniteSet(S), NEW T \in SUBSET (SUBSET S), T # {}
    PROVE  \E t \in T : \A u \in T : u \subseteq t => u = t
<1>1. T \subseteq FiniteSubsetsOf(S)
  BY FS_FiniteSubsetsOfFinite
<1>2. PICK t \in T : \A u \in T : <<u, t>> \notin StrictSubsetOrdering(S)
  BY <1>1, FS_StrictSubsetOrderingWellFounded, WFMin
<1> QED
  BY <1>2 DEF StrictSubsetOrdering

(***************************************************************************)
(* A set that is not empty has its chosen element.                         *)
(***************************************************************************)
LEMMA ChosenIn == ASSUME NEW s, s # {} PROVE Chosen(s) \in s
BY DEF Chosen

(***************************************************************************)
(* Two solutions agree where both are defined.                             *)
(***************************************************************************)
LEMMA AddsAgree ==
    ASSUME NEW F, NEW A, NEW B, IsFiniteSet(A), NEW g, NEW h, Adds(g, F, A), Adds(h, F, B),
           NEW s \in SUBSET A, s \in SUBSET B
    PROVE  g[s] = h[s]
<1> DEFINE T == {u \in SUBSET A : u \in SUBSET B /\ g[u] # h[u]}
<1> SUFFICES ASSUME T # {} PROVE FALSE
  OBVIOUS
<1>1. PICK t \in T : \A u \in T : u \subseteq t => u = t
  <2>1. T \in SUBSET (SUBSET A)
    OBVIOUS
  <2> HIDE DEF T
  <2> QED BY <2>1, Minimal
<1>2. CASE t = {}
  BY <1>1, <1>2 DEF Adds
<1>3. CASE t # {}
  <2>1. Chosen(t) \in t
    BY <1>3, ChosenIn
  <2>2. t \ {Chosen(t)} \notin T
    BY <1>1, <2>1
  <2>3. g[t \ {Chosen(t)}] = h[t \ {Chosen(t)}]
    BY <1>1, <2>2
  <2>4. /\ g[t] = F[Chosen(t)] + g[t \ {Chosen(t)}]
        /\ h[t] = F[Chosen(t)] + h[t \ {Chosen(t)}]
    BY <1>1, <1>3 DEF Adds
  <2> QED BY <1>1, <2>3, <2>4
<1> QED BY <1>2, <1>3

(***************************************************************************)
(* There is a solution on every finite set.                                *)
(***************************************************************************)
LEMMA AddsExists ==
    ASSUME NEW F, NEW S, IsFiniteSet(S)
    PROVE  \E h : Adds(h, F, S)
<1> DEFINE T == {u \in SUBSET S : ~ \E h : Adds(h, F, u)}
<1> SUFFICES ASSUME T # {} PROVE FALSE
  OBVIOUS
<1>1. PICK t \in T : \A u \in T : u \subseteq t => u = t
  <2>1. T \in SUBSET (SUBSET S)
    OBVIOUS
  <2> HIDE DEF T
  <2> QED BY <2>1, Minimal
<1> DEFINE G(u) == CHOOSE h : Adds(h, F, u)
           H == [s \in SUBSET t |->
                    IF s = {} THEN 0
                    ELSE F[Chosen(s)] + G(s \ {Chosen(s)})[s \ {Chosen(s)}]]
<1>2. ASSUME NEW u \in SUBSET t, u # t PROVE Adds(G(u), F, u)
  <2>1. \E h : Adds(h, F, u)
    BY <1>1, <1>2
  <2> QED BY <2>1
<1>3. ASSUME NEW u \in SUBSET t, u # t PROVE H[u] = G(u)[u]
  <2>1. CASE u = {}
    <3>1. Adds(G(u), F, u)
      BY <1>2, <1>3
    <3> HIDE DEF G
    <3> QED BY <2>1, <3>1 DEF Adds
  <2>2. CASE u # {}
    <3>1. PICK v : v = u \ {Chosen(u)}
      OBVIOUS
    <3>2. Chosen(u) \in u /\ v \in SUBSET u /\ v \in SUBSET t /\ v # t
      BY <1>3, <2>2, <3>1, ChosenIn
    <3>3. Adds(G(u), F, u) /\ Adds(G(v), F, v) /\ IsFiniteSet(u)
      BY <1>2, <1>3, <3>2, FS_Subset
    <3>4. G(u)[v] = G(v)[v]
      <4> HIDE DEF G
      <4> QED BY <3>2, <3>3, AddsAgree
    <3>5. G(u)[u] = F[Chosen(u)] + G(u)[v]
      <4> HIDE DEF G
      <4> QED BY <2>2, <3>1, <3>3 DEF Adds
    <3>6. H[u] = F[Chosen(u)] + G(v)[v]
      <4> HIDE DEF G
      <4> QED BY <2>2, <3>1
    <3> QED BY <3>4, <3>5, <3>6
  <2> QED BY <2>1, <2>2
<1>4. Adds(H, F, t)
  <2>1. ASSUME NEW s \in SUBSET t, s # {}
        PROVE  H[s \ {Chosen(s)}] = G(s \ {Chosen(s)})[s \ {Chosen(s)}]
    BY <1>3, <2>1, ChosenIn
  <2> HIDE DEF G
  <2>2. H = [s \in SUBSET t |->
                IF s = {} THEN 0 ELSE F[Chosen(s)] + H[s \ {Chosen(s)}]]
    BY <2>1
  <2> HIDE DEF H
  <2> QED BY <2>2 DEF Adds
<1> QED BY <1>1, <1>4

(***************************************************************************)
(* The sum is that of every solution; a solution on a larger set gives it  *)
(* for a part.                                                             *)
(***************************************************************************)
LEMMA SumIs ==
    ASSUME NEW F, NEW S, IsFiniteSet(S), NEW h, Adds(h, F, S), NEW s \in SUBSET S
    PROVE  SumOf(F, s) = h[s]
<1>1. IsFiniteSet(s)
  BY FS_Subset
<1>2. PICK g : g = CHOOSE k : Adds(k, F, s)
  OBVIOUS
<1>3. Adds(g, F, s)
  BY <1>1, <1>2, AddsExists
<1> QED BY <1>1, <1>2, <1>3, AddsAgree DEF SumOf

(***************************************************************************)
(* Sums, unfolded once.                                                    *)
(***************************************************************************)
LEMMA SumUnfold ==
    ASSUME NEW F, NEW S, IsFiniteSet(S)
    PROVE  /\ SumOf(F, {}) = 0
           /\ S # {} => SumOf(F, S) = F[Chosen(S)] + SumOf(F, S \ {Chosen(S)})
<1>1. PICK h : Adds(h, F, S)
  BY AddsExists
<1>2. /\ h[{}] = 0
      /\ S # {} => h[S] = F[Chosen(S)] + h[S \ {Chosen(S)}]
  BY <1>1 DEF Adds
<1>3. SumOf(F, {}) = h[{}] /\ SumOf(F, S) = h[S]
  BY <1>1, SumIs
<1>4. SumOf(F, S \ {Chosen(S)}) = h[S \ {Chosen(S)}]
  BY <1>1, SumIs
<1> QED BY <1>2, <1>3, <1>4

(***************************************************************************)
(* A sum of numbers is a number.                                           *)
(***************************************************************************)
LEMMA SumType ==
    ASSUME NEW F, NEW S, IsFiniteSet(S), \A x \in S : F[x] \in Nat
    PROVE  SumOf(F, S) \in Nat
<1> DEFINE T == {u \in SUBSET S : SumOf(F, u) \notin Nat}
<1> SUFFICES ASSUME T # {} PROVE FALSE
  OBVIOUS
<1>1. PICK t \in T : \A u \in T : u \subseteq t => u = t
  <2>1. T \in SUBSET (SUBSET S)
    OBVIOUS
  <2> HIDE DEF T
  <2> QED BY <2>1, Minimal
<1>2. IsFiniteSet(t)
  BY <1>1, FS_Subset
<1>3. t # {}
  <2>1. SumOf(F, {}) \in Nat
    <3>1. SumOf(F, {}) = 0
      BY <1>2, SumUnfold
    <3> QED BY <3>1
  <2>2. SumOf(F, t) \notin Nat
    BY <1>1
  <2> QED BY <2>1, <2>2, Zenon
<1>4. Chosen(t) \in t
  BY <1>3, ChosenIn
<1>5. SumOf(F, t \ {Chosen(t)}) \in Nat /\ F[Chosen(t)] \in Nat
  BY <1>1, <1>4
<1>6. SumOf(F, t) = F[Chosen(t)] + SumOf(F, t \ {Chosen(t)})
  BY <1>2, <1>3, SumUnfold
<1> QED BY <1>1, <1>5, <1>6

(***************************************************************************)
(* Any element may be taken first.                                         *)
(***************************************************************************)
LEMMA SumRemove ==
    ASSUME NEW F, NEW S, IsFiniteSet(S), \A x \in S : F[x] \in Nat, NEW y \in S
    PROVE  SumOf(F, S) = F[y] + SumOf(F, S \ {y})
<1> DEFINE T == {u \in SUBSET S : \E z \in u : SumOf(F, u) # F[z] + SumOf(F, u \ {z})}
<1> SUFFICES ASSUME T # {} PROVE FALSE
  OBVIOUS
<1>1. PICK t \in T : \A u \in T : u \subseteq t => u = t
  <2>1. T \in SUBSET (SUBSET S)
    OBVIOUS
  <2> HIDE DEF T
  <2> QED BY <2>1, Minimal
<1>2. PICK z \in t : SumOf(F, t) # F[z] + SumOf(F, t \ {z})
  BY <1>1
<1>3. PICK x : x = Chosen(t)
  OBVIOUS
<1>4. x \in t
  BY <1>2, <1>3, ChosenIn
<1>5. SumOf(F, t) = F[x] + SumOf(F, t \ {x})
  BY <1>1, <1>3, <1>4, FS_Subset, SumUnfold
<1>6. x # z
  BY <1>2, <1>5
<1>7. PICK w : w = t \ {x, z}
  OBVIOUS
<1>8. (t \ {x}) \ {z} = w /\ (t \ {z}) \ {x} = w
  BY <1>7
<1>9. t \ {x} \notin T /\ t \ {z} \notin T
  BY <1>1, <1>2, <1>4
<1>10. SumOf(F, t \ {x}) = F[z] + SumOf(F, w)
  BY <1>1, <1>2, <1>6, <1>8, <1>9
<1>11. SumOf(F, t \ {z}) = F[x] + SumOf(F, w)
  BY <1>1, <1>4, <1>6, <1>8, <1>9
<1>12. F[x] \in Nat /\ F[z] \in Nat
  BY <1>1, <1>2, <1>4
<1>13. SumOf(F, w) \in Nat
  <2>1. w \in SUBSET S
    BY <1>1, <1>7
  <2> QED BY <2>1, FS_Subset, SumType
<1> QED BY <1>2, <1>5, <1>10, <1>11, <1>12, <1>13

(***************************************************************************)
(* A sum depends on the terms only.                                        *)
(***************************************************************************)
LEMMA SumSame ==
    ASSUME NEW F, NEW G, NEW S, IsFiniteSet(S), \A x \in S : F[x] = G[x]
    PROVE  SumOf(F, S) = SumOf(G, S)
<1>1. PICK h : Adds(h, F, S)
  BY AddsExists
<1>2. h = [s \in SUBSET S |->
              IF s = {} THEN 0 ELSE F[Chosen(s)] + h[s \ {Chosen(s)}]]
  BY <1>1 DEF Adds
<1>3. \A s \in SUBSET S : s # {} => F[Chosen(s)] = G[Chosen(s)]
  BY ChosenIn
<1>4. h = [s \in SUBSET S |->
              IF s = {} THEN 0 ELSE G[Chosen(s)] + h[s \ {Chosen(s)}]]
  BY <1>2, <1>3
<1>5. Adds(h, G, S)
  BY <1>4 DEF Adds
<1> QED BY <1>1, <1>5, SumIs

-----------------------------------------------------------------------------
(***************************************************************************)
(* The totals.  EventsOf is a function on the packages; the events of the  *)
(* rows and of the clusters are functions on their keys.                   *)
(***************************************************************************)
EventsOf == [p \in Packages |-> p.events]

RowEvents == [k \in DOMAIN rows |-> Events(rows[k].facts)]

ClusterEvents == [d \in DOMAIN clusters |-> Events(clusters[d])]

Totals ==
    /\ IsFiniteSet(DOMAIN rows) /\ IsFiniteSet(DOMAIN clusters)
    /\ SumOf(RowEvents, DOMAIN rows) + SumOf(ClusterEvents, DOMAIN clusters)
           = SumOf(EventsOf, Seen)

(***************************************************************************)
(* The sums of Classify are sums of functions.                             *)
(***************************************************************************)
LEMMA EventsSum ==
    ASSUME NEW S, S \subseteq Packages, IsFiniteSet(S)
    PROVE  Events(S) = SumOf(EventsOf, S) /\ Events(S) \in Nat
<1>1. PICK g : Adds(g, EventsOf, S)
  BY AddsExists
<1>2. PICK h : h = CHOOSE k : k = [s \in SUBSET S |->
                  IF s = {} THEN 0 ELSE Chosen(s).events + k[s \ {Chosen(s)}]]
  OBVIOUS
<1>3. \A s \in SUBSET S : s # {} => EventsOf[Chosen(s)] = Chosen(s).events
  BY ChosenIn DEF EventsOf
<1>4. g = [s \in SUBSET S |->
              IF s = {} THEN 0 ELSE Chosen(s).events + g[s \ {Chosen(s)}]]
  BY <1>1, <1>3 DEF Adds
<1>5. h = [s \in SUBSET S |->
              IF s = {} THEN 0 ELSE Chosen(s).events + h[s \ {Chosen(s)}]]
  BY <1>2, <1>4
<1>6. Adds(h, EventsOf, S)
  BY <1>3, <1>5 DEF Adds
<1>7. Events(S) = h[S]
  BY <1>2 DEF Events, Sum, MapThenSumSet, MapThenFoldSet, Chosen
<1>8. SumOf(EventsOf, S) \in Nat
  BY SumType, FiniteAssumption DEF EventsOf
<1> QED BY <1>6, <1>7, <1>8, SumIs

(***************************************************************************)
(* The same of the rows,                                                   *)
(***************************************************************************)
LEMMA RowsSum ==
    ASSUME IsFiniteSet(DOMAIN rows)
    PROVE  Sum(LAMBDA k : Events(rows[k].facts), DOMAIN rows) = SumOf(RowEvents, DOMAIN rows)
<1>1. PICK S, E : S = DOMAIN rows /\ E = RowEvents
  OBVIOUS
<1>2. PICK g : Adds(g, E, S)
  BY <1>1, AddsExists
<1>3. PICK h : h = CHOOSE k : k = [s \in SUBSET S |->
                  IF s = {} THEN 0 ELSE Events(rows[Chosen(s)].facts) + k[s \ {Chosen(s)}]]
  OBVIOUS
<1>4. \A s \in SUBSET S : s # {} => E[Chosen(s)] = Events(rows[Chosen(s)].facts)
  BY <1>1, ChosenIn DEF RowEvents
<1>5. g = [s \in SUBSET S |->
              IF s = {} THEN 0 ELSE Events(rows[Chosen(s)].facts) + g[s \ {Chosen(s)}]]
  BY <1>2, <1>4 DEF Adds
<1>6. h = [s \in SUBSET S |->
              IF s = {} THEN 0 ELSE Events(rows[Chosen(s)].facts) + h[s \ {Chosen(s)}]]
  BY <1>3, <1>5
<1>7. Adds(h, E, S)
  BY <1>4, <1>6 DEF Adds
<1>8. Sum(LAMBDA k : Events(rows[k].facts), S) = h[S]
  BY <1>3 DEF Sum, MapThenSumSet, MapThenFoldSet, Chosen
<1> QED BY <1>1, <1>7, <1>8, SumIs

(***************************************************************************)
(* and of the clusters.                                                    *)
(***************************************************************************)
LEMMA ClustersSum ==
    ASSUME IsFiniteSet(DOMAIN clusters)
    PROVE  Sum(LAMBDA d : Events(clusters[d]), DOMAIN clusters)
               = SumOf(ClusterEvents, DOMAIN clusters)
<1>1. PICK S, E : S = DOMAIN clusters /\ E = ClusterEvents
  OBVIOUS
<1>2. PICK g : Adds(g, E, S)
  BY <1>1, AddsExists
<1>3. PICK h : h = CHOOSE k : k = [s \in SUBSET S |->
                  IF s = {} THEN 0 ELSE Events(clusters[Chosen(s)]) + k[s \ {Chosen(s)}]]
  OBVIOUS
<1>4. \A s \in SUBSET S : s # {} => E[Chosen(s)] = Events(clusters[Chosen(s)])
  BY <1>1, ChosenIn DEF ClusterEvents
<1>5. g = [s \in SUBSET S |->
              IF s = {} THEN 0 ELSE Events(clusters[Chosen(s)]) + g[s \ {Chosen(s)}]]
  BY <1>2, <1>4 DEF Adds
<1>6. h = [s \in SUBSET S |->
              IF s = {} THEN 0 ELSE Events(clusters[Chosen(s)]) + h[s \ {Chosen(s)}]]
  BY <1>3, <1>5
<1>7. Adds(h, E, S)
  BY <1>4, <1>6 DEF Adds
<1>8. Sum(LAMBDA d : Events(clusters[d]), S) = h[S]
  BY <1>3 DEF Sum, MapThenSumSet, MapThenFoldSet, Chosen
<1> QED BY <1>1, <1>7, <1>8, SumIs

(***************************************************************************)
(* What the sums keep saying when a package joins a row or a cluster: a    *)
(* sum in which one term grows by n, or to which a term n is added.        *)
(***************************************************************************)
Grown(F, G, S, y, n) ==
    /\ \A x \in S : F[x] \in Nat
    /\ \A x \in S : x # y => G[x] = F[x]
    /\ y \in S => G[y] = F[y] + n
    /\ y \notin S => G[y] = n

\* A sum grows by what is added at one place.
LEMMA SumGrows ==
    ASSUME NEW S, IsFiniteSet(S), NEW F, NEW G, NEW y, NEW n \in Nat, Grown(F, G, S, y, n)
    PROVE  SumOf(G, S \cup {y}) = SumOf(F, S) + n
<1> USE DEF Grown
<1>1. PICK T : T = S \cup {y}
  OBVIOUS
<1>2. IsFiniteSet(T) /\ IsFiniteSet(T \ {y}) /\ T \ {y} = S \ {y}
  BY <1>1, FS_AddElement, FS_Subset
<1>3. y \in T /\ \A x \in T : G[x] \in Nat
  BY <1>1
<1>4. SumOf(G, T) = G[y] + SumOf(G, S \ {y})
  BY <1>2, <1>3, SumRemove
<1>5. SumOf(G, S \ {y}) = SumOf(F, S \ {y})
  <2>1. \A x \in S \ {y} : G[x] = F[x]
    OBVIOUS
  <2> QED BY <1>2, <2>1, SumSame
<1>6. SumOf(F, S \ {y}) \in Nat
  <2>1. \A x \in S \ {y} : F[x] \in Nat
    OBVIOUS
  <2> QED BY <1>2, <2>1, SumType
<1>7. CASE y \in S
  <2>1. SumOf(F, S) = F[y] + SumOf(F, S \ {y}) /\ F[y] \in Nat
    BY <1>7, SumRemove
  <2> QED BY <1>1, <1>4, <1>5, <1>6, <1>7, <2>1
<1>8. CASE y \notin S
  <2>1. S \ {y} = S
    BY <1>8
  <2>2. SumOf(F, S \ {y}) = SumOf(F, S)
    BY <2>1, Zenon
  <2> QED BY <1>1, <1>4, <1>5, <1>6, <1>8, <2>2
<1> QED BY <1>7, <1>8

(***************************************************************************)
(* The sets of packages that the totals are about are finite.              *)
(***************************************************************************)
LEMMA FiniteFacts ==
    ASSUME Inv
    PROVE  /\ \A S \in SUBSET raw : S \subseteq Packages /\ IsFiniteSet(S)
           /\ \A k \in DOMAIN rows : rows[k].facts \in SUBSET raw /\ RowEvents[k] \in Nat
           /\ \A d \in DOMAIN clusters : clusters[d] \in SUBSET raw /\ ClusterEvents[d] \in Nat
           /\ \A p \in raw : EventsOf[p] = p.events /\ p.events \in Nat
<1>1. raw \in Snapshots /\ raw \subseteq Packages /\ IsFiniteSet(raw)
  BY SnapshotsAssumption, FiniteAssumption DEF Inv, TypeOK
<1>2. \A S \in SUBSET raw : S \subseteq Packages /\ IsFiniteSet(S)
  BY <1>1, FS_Subset
<1>3. ASSUME NEW k \in DOMAIN rows PROVE rows[k].facts \in SUBSET raw /\ RowEvents[k] \in Nat
  <2>1. rows[k].facts \in SUBSET raw
    BY DEF Inv, TypeOK
  <2> QED BY <1>2, <2>1, EventsSum DEF RowEvents
<1>4. ASSUME NEW d \in DOMAIN clusters
      PROVE  clusters[d] \in SUBSET raw /\ ClusterEvents[d] \in Nat
  <2>1. clusters[d] \in SUBSET raw
    BY DEF Inv, TypeOK
  <2> QED BY <1>2, <2>1, EventsSum DEF ClusterEvents
<1>5. \A p \in raw : EventsOf[p] = p.events /\ p.events \in Nat
  BY <1>1, FiniteAssumption DEF EventsOf
<1> QED BY <1>2, <1>3, <1>4, <1>5

(***************************************************************************)
(* A package more makes the events of a set grow by its own.               *)
(***************************************************************************)
LEMMA EventsGrow ==
    ASSUME Inv, NEW S \in SUBSET raw, NEW p \in raw, p \notin S
    PROVE  Events(S \cup {p}) = Events(S) + p.events
<1>1. PICK T : T = S \cup {p}
  OBVIOUS
<1>2. /\ S \subseteq Packages /\ IsFiniteSet(S) /\ T \subseteq Packages /\ IsFiniteSet(T)
      /\ \A q \in T : EventsOf[q] \in Nat
      /\ EventsOf[p] = p.events
  BY <1>1, FiniteFacts
<1>3. Events(S) = SumOf(EventsOf, S) /\ Events(T) = SumOf(EventsOf, T)
  BY <1>2, EventsSum
<1>4. T \ {p} = S /\ p \in T
  BY <1>1
<1>5. SumOf(EventsOf, T) = EventsOf[p] + SumOf(EventsOf, S)
  BY <1>2, <1>4, SumRemove
<1>6. SumOf(EventsOf, S) \in Nat /\ p.events \in Nat
  BY <1>2, <1>4, SumType, FiniteFacts
<1> QED BY <1>1, <1>2, <1>3, <1>5, <1>6

(***************************************************************************)
(* A package that leaves `rest` is seen, and was not.                      *)
(***************************************************************************)
LEMMA SeenGrows ==
    ASSUME Inv, Inv', NEW p \in rest, rest' = rest \ {p}, raw' = raw
    PROVE  p \in raw /\ p \notin Seen /\ Seen \in SUBSET raw /\ Seen' = Seen \cup {p}
BY DEF Inv, TypeOK, Partition

(***************************************************************************)
(* The events of one package.                                              *)
(***************************************************************************)
LEMMA OneEvent ==
    ASSUME Inv, NEW p \in raw
    PROVE  Events({p}) = p.events
<1>1. PICK S : S = {}
  OBVIOUS
<1>2. IsFiniteSet(S) /\ S \subseteq Packages /\ S \in SUBSET raw /\ p \notin S
  BY <1>1, FS_EmptySet
<1>3. Events(S) = 0
  <2>1. SumOf(EventsOf, {}) = 0
    BY <1>2, SumUnfold
  <2>2. Events(S) = SumOf(EventsOf, S)
    BY <1>2, EventsSum
  <2> QED BY <1>1, <2>1, <2>2, Zenon
<1>4. Events(S \cup {p}) = Events(S) + p.events
  BY <1>2, EventsGrow
<1>5. S \cup {p} = {p}
  BY <1>1
<1>6. Events({p}) = Events(S) + p.events
  BY <1>4, <1>5, Zenon
<1>7. p.events \in Nat
  BY FiniteFacts
<1> QED BY <1>3, <1>6, <1>7

(***************************************************************************)
(* The events of what is seen grow by those of the next package.           *)
(***************************************************************************)
LEMMA SeenSum ==
    ASSUME Inv, Inv', NEW p \in rest, rest' = rest \ {p}, raw' = raw
    PROVE  /\ IsFiniteSet(Seen) /\ Seen' = Seen \cup {p}
           /\ SumOf(EventsOf, Seen \cup {p}) = SumOf(EventsOf, Seen) + p.events
           /\ SumOf(EventsOf, Seen) \in Nat
<1>1. p \in raw /\ p \notin Seen /\ Seen \in SUBSET raw /\ Seen' = Seen \cup {p}
  BY SeenGrows
<1>2. PICK S, T : S = Seen /\ T = Seen \cup {p}
  OBVIOUS
<1>3. /\ S \in SUBSET raw /\ T \in SUBSET raw /\ p \notin S /\ T = S \cup {p}
      /\ S \subseteq Packages /\ IsFiniteSet(S) /\ T \subseteq Packages /\ IsFiniteSet(T)
  BY <1>1, <1>2, FiniteFacts
<1>4. /\ Events(S) = SumOf(EventsOf, S) /\ Events(T) = SumOf(EventsOf, T)
      /\ Events(S) \in Nat
  BY <1>3, EventsSum
<1>5. Events(T) = Events(S) + p.events
  BY <1>1, <1>3, EventsGrow
<1> QED BY <1>1, <1>2, <1>3, <1>4, <1>5

(***************************************************************************)
(* Joining a row, the totals add up.                                       *)
(***************************************************************************)
LEMMA JoinTotals ==
    ASSUME Inv, Inv', Totals, NEW p \in rest, NEW home, Join(home, p),
           rest' = rest \ {p}, raw' = raw, clusters' = clusters
    PROVE  Totals'
<1>1. PICK S, F, y, n : S = DOMAIN rows /\ F = RowEvents /\ y = home.key /\ n = p.events
  OBVIOUS
<1>2. p \in raw /\ p \notin Seen /\ Seen \in SUBSET raw /\ Seen' = Seen \cup {p}
  BY SeenGrows
<1>3. /\ DOMAIN rows' = S \cup {y}
      /\ \A k \in S : k # y => rows'[k] = rows[k]
      /\ y \in S => rows'[y].facts = rows[y].facts \cup {p}
      /\ y \notin S => rows'[y].facts = {p}
  <2>1. /\ DOMAIN rows' = S \cup {y}
        /\ \A k \in S : k # y => rows'[k] = rows[k]
        /\ y \in S => rows'[y] = [rows[y] EXCEPT !.facts = @ \cup {p}]
        /\ y \notin S => rows'[y] = [def |-> home.def, facts |-> {p}]
    BY <1>1 DEF Join
  <2>2. y \in S => rows[y] \in [def : Defs, facts : (SUBSET raw) \ {{}}]
    BY <1>1 DEF Inv, TypeOK
  <2> QED BY <2>1, <2>2
<1>4. /\ IsFiniteSet(S) /\ \A k \in S : F[k] \in Nat /\ F[k] = Events(rows[k].facts)
      /\ n \in Nat /\ EventsOf[p] = n
  BY <1>1, <1>2, FiniteFacts DEF Totals, RowEvents
<1>5. PICK G : G = RowEvents'
  OBVIOUS
<1>6. \A k \in S \cup {y} : G[k] = Events(rows'[k].facts)
  BY <1>3, <1>5 DEF RowEvents
<1>7. \A k \in S : k # y => G[k] = F[k]
  BY <1>3, <1>4, <1>6
<1>8. y \in S => G[y] = F[y] + n
  <2>1. y \in S => rows[y].facts \in SUBSET raw /\ p \notin rows[y].facts
    BY <1>1, <1>2, FiniteFacts DEF Seen
  <2> QED BY <1>1, <1>2, <1>3, <1>4, <1>6, <2>1, EventsGrow
<1>9. y \notin S => G[y] = n
  BY <1>1, <1>2, <1>3, <1>4, <1>6, OneEvent
<1>10. SumOf(G, S \cup {y}) = SumOf(F, S) + n
  <2>1. IsFiniteSet(S) /\ n \in Nat
    BY <1>4
  <2>2. Grown(F, G, S, y, n)
    BY <1>4, <1>7, <1>8, <1>9 DEF Grown
  <2> QED BY <2>1, <2>2, SumGrows
<1>11. /\ Seen' = Seen \cup {p} /\ IsFiniteSet(Seen) /\ IsFiniteSet(DOMAIN rows')
       /\ SumOf(EventsOf, Seen \cup {p}) = SumOf(EventsOf, Seen) + n
       /\ SumOf(EventsOf, Seen) \in Nat
  BY <1>1, <1>2, <1>3, <1>4, SeenSum, FS_AddElement
<1>12. ClusterEvents' = ClusterEvents /\ EventsOf' = EventsOf
  BY DEF ClusterEvents, EventsOf
<1>13. SumOf(F, S) \in Nat /\ SumOf(ClusterEvents, DOMAIN clusters) \in Nat
  <2>1. \A k \in S : F[k] \in Nat
    BY <1>4
  <2>2. SumOf(F, S) \in Nat
    BY <1>4, <2>1, SumType
  <2>3. \A d \in DOMAIN clusters : ClusterEvents[d] \in Nat
    BY FiniteFacts
  <2>4. SumOf(ClusterEvents, DOMAIN clusters) \in Nat
    BY <2>3, SumType DEF Totals
  <2> QED BY <2>2, <2>4
<1>14. SumOf(F, S) + SumOf(ClusterEvents, DOMAIN clusters) = SumOf(EventsOf, Seen)
  BY <1>1 DEF Totals
<1>15. SumOf(RowEvents', DOMAIN rows') = SumOf(F, S) + n
  BY <1>3, <1>5, <1>10
<1> QED BY <1>4, <1>11, <1>12, <1>13, <1>14, <1>15 DEF Totals

(***************************************************************************)
(* Joining a cluster, the totals add up.                                   *)
(***************************************************************************)
LEMMA ClusterTotals ==
    ASSUME Inv, Inv', Totals, NEW p \in rest, Cluster(p),
           rest' = rest \ {p}, raw' = raw, rows' = rows
    PROVE  Totals'
<1>1. PICK S, F, y, n : S = DOMAIN clusters /\ F = ClusterEvents /\ y = p.deployer /\ n = p.events
  OBVIOUS
<1>2. p \in raw /\ p \notin Seen /\ Seen \in SUBSET raw /\ Seen' = Seen \cup {p}
  BY SeenGrows
<1>3. /\ DOMAIN clusters' = S \cup {y}
      /\ \A k \in S : k # y => clusters'[k] = clusters[k]
      /\ y \in S => clusters'[y] = clusters[y] \cup {p}
      /\ y \notin S => clusters'[y] = {p}
  BY <1>1 DEF Cluster
<1>4. /\ IsFiniteSet(S) /\ \A k \in S : F[k] \in Nat /\ F[k] = Events(clusters[k])
      /\ n \in Nat /\ EventsOf[p] = n
  BY <1>1, <1>2, FiniteFacts DEF Totals, ClusterEvents
<1>5. PICK G : G = ClusterEvents'
  OBVIOUS
<1>6. \A k \in S \cup {y} : G[k] = Events(clusters'[k])
  BY <1>3, <1>5 DEF ClusterEvents
<1>7. \A k \in S : k # y => G[k] = F[k]
  BY <1>3, <1>4, <1>6
<1>8. y \in S => G[y] = F[y] + n
  <2>1. y \in S => clusters[y] \in SUBSET raw /\ p \notin clusters[y]
    BY <1>1, <1>2, FiniteFacts DEF Seen
  <2> QED BY <1>1, <1>2, <1>3, <1>4, <1>6, <2>1, EventsGrow
<1>9. y \notin S => G[y] = n
  BY <1>1, <1>2, <1>3, <1>4, <1>6, OneEvent
<1>10. SumOf(G, S \cup {y}) = SumOf(F, S) + n
  <2>1. IsFiniteSet(S) /\ n \in Nat
    BY <1>4
  <2>2. Grown(F, G, S, y, n)
    BY <1>4, <1>7, <1>8, <1>9 DEF Grown
  <2> QED BY <2>1, <2>2, SumGrows
<1>11. /\ Seen' = Seen \cup {p} /\ IsFiniteSet(Seen) /\ IsFiniteSet(DOMAIN clusters')
       /\ SumOf(EventsOf, Seen \cup {p}) = SumOf(EventsOf, Seen) + n
       /\ SumOf(EventsOf, Seen) \in Nat
  BY <1>1, <1>2, <1>3, <1>4, SeenSum, FS_AddElement
<1>12. RowEvents' = RowEvents /\ EventsOf' = EventsOf
  BY DEF RowEvents, EventsOf
<1>13. SumOf(F, S) \in Nat /\ SumOf(RowEvents, DOMAIN rows) \in Nat
  <2>1. \A k \in S : F[k] \in Nat
    BY <1>4
  <2>2. SumOf(F, S) \in Nat
    BY <1>4, <2>1, SumType
  <2>3. \A d \in DOMAIN rows : RowEvents[d] \in Nat
    BY FiniteFacts
  <2>4. SumOf(RowEvents, DOMAIN rows) \in Nat
    BY <2>3, SumType DEF Totals
  <2> QED BY <2>2, <2>4
<1>14. SumOf(F, S) + SumOf(RowEvents, DOMAIN rows) = SumOf(EventsOf, Seen)
  BY <1>1, <1>13 DEF Totals
<1>15. SumOf(ClusterEvents', DOMAIN clusters') = SumOf(F, S) + n
  BY <1>3, <1>5, <1>10
<1> QED BY <1>4, <1>11, <1>12, <1>13, <1>14, <1>15 DEF Totals

(***************************************************************************)
(* The totals add up throughout.                                           *)
(***************************************************************************)
LEMMA InitTotals == Init => Totals
<1> SUFFICES ASSUME Init PROVE Totals
  OBVIOUS
<1>1. PICK S : S = {}
  OBVIOUS
<1>2. DOMAIN rows = S /\ DOMAIN clusters = S /\ Seen = S
  BY <1>1 DEF Init, Seen
<1>3. IsFiniteSet(S)
  BY <1>1, FS_EmptySet
<1>4. ASSUME NEW F PROVE SumOf(F, S) = 0
  <2>1. SumOf(F, {}) = 0
    BY <1>3, SumUnfold
  <2> QED BY <1>1, <2>1, Zenon
<1>5. /\ SumOf(RowEvents, S) = 0 /\ SumOf(ClusterEvents, S) = 0
      /\ SumOf(EventsOf, S) = 0
  BY <1>4
<1> QED BY <1>2, <1>3, <1>5 DEF Totals

(***************************************************************************)
(* Every step keeps the totals.                                            *)
(***************************************************************************)
LEMMA NextTotals == Inv /\ Inv' /\ Totals /\ [Next]_vars => Totals'
<1> SUFFICES ASSUME Inv, Inv', Totals, [Next]_vars PROVE Totals'
  OBVIOUS
<1>1. ASSUME NEW p \in rest, Classify(p) PROVE Totals'
  <2>1. PICK answered :
            /\ rest' = rest \ {p}
            /\ UNCHANGED raw
            /\ IF Claims(p, Network, answered) = NoDef
               THEN Cluster(p) /\ UNCHANGED rows
               ELSE Join(Home(Claims(p, Network, answered), p, Network), p) /\ UNCHANGED clusters
    BY <1>1 DEF Classify
  <2>2. CASE Claims(p, Network, answered) = NoDef
    BY <2>1, <2>2, ClusterTotals
  <2>3. CASE Claims(p, Network, answered) # NoDef
    BY <2>1, <2>3, JoinTotals
  <2> QED BY <2>2, <2>3
<1>2. CASE UNCHANGED vars
  BY <1>2 DEF vars, Totals, RowEvents, ClusterEvents, EventsOf, Seen
<1> QED BY <1>1, <1>2 DEF Next

(***************************************************************************)
(* CountedOnce: the totals of the view lose and double nothing.            *)
(***************************************************************************)
THEOREM EventsAddUp == Spec => []CountedOnce
<1>1. Inv /\ Totals => CountedOnce
  <2> SUFFICES ASSUME Inv, Totals PROVE TotalsAddUp
    BY DEF CountedOnce, Inv
  <2>1. Seen \subseteq Packages /\ IsFiniteSet(Seen)
    BY FiniteFacts DEF Seen
  <2>2. Events(Seen) = SumOf(EventsOf, Seen)
    BY <2>1, EventsSum
  <2>3. View.totalEvents = SumOf(RowEvents, DOMAIN rows)
    BY RowsSum DEF View, Totals
  <2>4. Sum(LAMBDA d : Events(clusters[d]), DOMAIN clusters)
            = SumOf(ClusterEvents, DOMAIN clusters)
    BY ClustersSum DEF Totals
  <2> QED BY <2>2, <2>3, <2>4 DEF TotalsAddUp, Totals
<1> QED BY <1>1, InitTotals, NextTotals, AlwaysInv, PTL DEF Spec

-----------------------------------------------------------------------------
(***************************************************************************)
(* Finitely many finite sets have a finite union.                          *)
(***************************************************************************)
LEMMA FiniteUnion ==
    ASSUME NEW S, IsFiniteSet(S), NEW f, \A x \in S : IsFiniteSet(f[x])
    PROVE  IsFiniteSet(UNION {f[x] : x \in S})
<1>1. PICK T : T = {f[x] : x \in S}
  OBVIOUS
<1>2. [x \in S |-> f[x]] \in Surjection(S, T)
  BY <1>1 DEF Surjection
<1>3. IsFiniteSet(T)
  BY <1>2, FS_Surjection
<1>4. \A A \in T : IsFiniteSet(A)
  BY <1>1
<1> QED BY <1>1, <1>3, <1>4, FS_UNION

(***************************************************************************)
(* The senders and the counted holders of finitely many packages.          *)
(***************************************************************************)
LEMMA FiniteWallets ==
    ASSUME NEW def, NEW S, S \subseteq Packages, IsFiniteSet(S)
    PROVE  IsFiniteSet(Senders(S)) /\ IsFiniteSet(Holders(def, S))
<1>1. IsFiniteSet(Senders(S))
  <2>1. PICK M, f : M = {q \in S : q.metered # {}} /\ f = [p \in M |-> p.senders]
    OBVIOUS
  <2>2. M \subseteq S /\ IsFiniteSet(M)
    BY <2>1, FS_Subset
  <2>3. \A p \in M : IsFiniteSet(f[p])
    BY <2>1, <2>2, FiniteAssumption
  <2>4. Senders(S) = UNION {f[p] : p \in M}
    BY <2>1 DEF Senders
  <2> QED BY <2>2, <2>3, <2>4, FiniteUnion
<1>2. ASSUME NEW p \in S
      PROVE  IsFiniteSet(UNION {p.holders[t] : t \in DOMAIN p.holders \cap def.countTypes})
  <2>1. PICK M, f : M = DOMAIN p.holders \cap def.countTypes /\ f = p.holders
    OBVIOUS
  <2>2. IsFiniteSet(M)
    BY <2>1, FS_Subset, FiniteAssumption
  <2>3. \A t \in M : IsFiniteSet(f[t])
    BY <2>1, FiniteAssumption
  <2>4. IsFiniteSet(UNION {f[t] : t \in M})
    BY <2>2, <2>3, FiniteUnion
  <2> QED BY <2>1, <2>4
<1>3. IsFiniteSet(Holders(def, S))
  <2>1. PICK f : f = [p \in S |->
                        UNION {p.holders[t] : t \in DOMAIN p.holders \cap def.countTypes}]
    OBVIOUS
  <2>2. \A p \in S : IsFiniteSet(f[p])
    BY <1>2, <2>1
  <2>3. Holders(def, S) = UNION {f[p] : p \in S}
    BY <2>1 DEF Holders
  <2> QED BY <2>2, <2>3, FiniteUnion
<1> QED BY <1>1, <1>3

(***************************************************************************)
(* The reach of a row: it is that of the union of its senders and its      *)
(* counted holders in each of the three ways of computing it.              *)
(***************************************************************************)
LEMMA ReachOfRow ==
    ASSUME NEW def, NEW S, S \subseteq Packages, IsFiniteSet(S)
    PROVE  /\ UniqueSenders(S) <= UniqueWalletsReach(def, S)
           /\ UniqueHolders(def, S) <= UniqueWalletsReach(def, S)
           /\ UniqueHolders(def, S) >= 0 =>
                  UniqueWalletsReach(def, S) <= UniqueSenders(S) + UniqueHolders(def, S)
<1>1. PICK A, B : A = Senders(S) /\ B = Holders(def, S)
  OBVIOUS
<1>2. IsFiniteSet(A) /\ IsFiniteSet(B)
  BY <1>1, FiniteWallets
<1>3. PICK a, b, c, d : /\ a = Cardinality(A) /\ b = Cardinality(B)
                        /\ c = Cardinality(B \cup A) /\ d = Cardinality(B \cap A)
  OBVIOUS
<1>4. a \in Nat /\ b \in Nat /\ c \in Nat /\ d \in Nat /\ c = b + a - d /\ d <= a /\ d <= b
  <2>1. IsFiniteSet(B \cup A) /\ IsFiniteSet(B \cap A) /\ c = b + a - d
    BY <1>2, <1>3, FS_Union, FS_Subset
  <2>2. d <= a /\ d <= b
    BY <1>2, <1>3, FS_Subset
  <2> QED BY <1>2, <1>3, <2>1, <2>2, FS_CardinalityType
<1>5. UniqueSenders(S) = a
  BY <1>1, <1>3 DEF UniqueSenders
<1>6. UniqueHolders(def, S) = IF def.countTypes = {} THEN -1 ELSE b
  BY <1>1, <1>3 DEF UniqueHolders
<1>7. CASE TypePairs(def, S) = {}
  <2>1. UniqueWalletsReach(def, S) = a
    BY <1>5, <1>7 DEF UniqueWalletsReach
  <2>2. \A p \in S : DOMAIN p.holders \cap def.countTypes = {}
    <3> SUFFICES ASSUME NEW p \in S, NEW t \in DOMAIN p.holders \cap def.countTypes PROVE FALSE
      OBVIOUS
    <3>1. <<p.address, t>> \in TypePairs(def, S)
      BY DEF TypePairs
    <3> QED BY <1>7, <3>1
  <2>3. B = {}
    BY <1>1, <2>2 DEF Holders
  <2>4. b = 0
    BY <1>2, <1>3, <2>3, FS_EmptySet
  <2> QED BY <1>4, <1>5, <1>6, <2>1, <2>4
<1>8. CASE TypePairs(def, S) # {}
  <2>1. def.countTypes # {}
    BY <1>8 DEF TypePairs
  <2>2. CASE Pairs(S) = {}
    <3>1. UniqueWalletsReach(def, S) = b
      BY <1>6, <1>8, <2>1, <2>2 DEF UniqueWalletsReach
    <3>2. \A p \in S : p.metered = {}
      <4> SUFFICES ASSUME NEW p \in S, NEW m \in p.metered PROVE FALSE
        OBVIOUS
      <4>1. <<p.address, m>> \in {p.address} \X p.metered
        OBVIOUS
      <4>2. <<p.address, m>> \in Pairs(S)
        BY <4>1 DEF Pairs
      <4> QED BY <2>2, <4>2
    <3>3. A = {}
      BY <1>1, <3>2 DEF Senders
    <3>4. a = 0
      BY <1>2, <1>3, <3>3, FS_EmptySet
    <3> QED BY <1>4, <1>5, <1>6, <2>1, <3>1, <3>4
  <2>3. CASE Pairs(S) # {}
    <3>1. UniqueWalletsReach(def, S) = c
      BY <1>1, <1>3, <1>8, <2>3 DEF UniqueWalletsReach
    <3> QED BY <1>4, <1>5, <1>6, <2>1, <3>1
  <2> QED BY <2>2, <2>3
<1> QED BY <1>7, <1>8

(***************************************************************************)
(* ReachCoversBoth: the reach of a row counts every sender and every       *)
(* counted holder, and nobody twice.                                       *)
(***************************************************************************)
THEOREM ReachCovers == Spec => []ReachCoversBoth
<1>1. Inv => ReachCoversBoth
  <2> SUFFICES ASSUME Inv, NEW r \in View.l1
               PROVE  /\ r.uniqueSenders <= r.uniqueWalletsReach
                      /\ r.uniqueHolders <= r.uniqueWalletsReach
                      /\ r.uniqueHolders >= 0 =>
                            r.uniqueWalletsReach <= r.uniqueSenders + r.uniqueHolders
    BY DEF ReachCoversBoth
  <2>1. PICK k \in DOMAIN rows : r = Row(k)
    BY DEF View
  <2>2. PICK def, S : def = AllProjects[rows[k].def] /\ S = rows[k].facts
    OBVIOUS
  <2>3. S \subseteq Packages /\ IsFiniteSet(S)
    BY <2>2, FiniteFacts
  <2>4. /\ r.uniqueSenders = UniqueSenders(S)
        /\ r.uniqueHolders = UniqueHolders(def, S)
        /\ r.uniqueWalletsReach = UniqueWalletsReach(def, S)
    BY <2>1, <2>2 DEF Row
  <2> QED BY <2>3, <2>4, ReachOfRow
<1> QED BY <1>1, AlwaysInv, PTL

-------------------------------------------------------------------------------

(***************************************************************************)
(* The inductive invariant.  While the modules are gone through, the draft *)
(* has a measure of each up to the one at hand; after them, of all.  A     *)
(* name is taken from the effects only while there is none from objects.   *)
(* The rows of the draft are those of the types that a worker has left; a  *)
(* count that goes on has had full pages only, and one that is over has    *)
(* every object there was unless it is capped or failed.  Outside the pool *)
(* no worker is busy.                                                      *)
(***************************************************************************)
Last == Len(Kinds)
AnyKind == UNION {Among(Kinds[m]) : m \in Modules}
Metric == [module : Nat, events : Nat, kinds : SUBSET AnyKind]
TypeRow == [type : Types, holders : Nat, listed : Nat, hcapped : BOOLEAN,
        objects : Nat, ocapped : BOOLEAN]
Told == Effects \cup (UNION Among(Display))
Idents == Told \cup UNION Among(Objects)
Fact == [tick : Nat, metrics : Seq(Metric), idents : SUBSET Idents,
         sampled : {"none", "own", "effects"}, rows : Seq(TypeRow)]

HolderWalk == [stage : {"waiting", "reset", "read", "page", "save", "done"}, read : Nat,
               oldest : Nat, pages : Nat, listed : Nat, holders : Nat, end : BOOLEAN]
ObjectWalk == [stage : {"waiting", "page", "done", "left"}, total : Nat, pages : Nat,
               capped : BOOLEAN]

Stages == {"idle", "entry", "count", "senders", "sample", "identity", "effects", "tx",
           "types", "pool"}
InModules == {"count", "senders", "sample"}
Before == {"idle", "entry"} \cup InModules
After == Stages \ Before

Typed ==
    /\ pkg \in [network : {"mainnet", "testnet"}, tutorial : BOOLEAN]
    /\ minted \in [Types -> Nat] /\ \A t \in Types : minted[t] <= Len(Owners[t])
    /\ entries \in [Types -> SUBSET UNION {Among(Owners[t]) : t \in Types}]
    /\ \A t \in Types : entries[t] \subseteq WalletsOf(t)
    /\ record \in [Types -> Nat]
    /\ ticks \in 0 .. MaxTicks
    /\ pc \in Stages
    /\ at \in [module : Modules, pages : Nat]
    /\ draft \in Fact /\ fact \in Fact
    /\ walk \in [Walkers \X Types -> HolderWalk]
    /\ count \in [Types -> ObjectWalk]
    /\ since \in [minted : [Types -> Nat], failed : SUBSET Types]
    /\ \A t \in Types : since.minted[t] <= minted[t]

\* What a fact says of module m, of its identifiers, and of a type.
MetricOf(m, x) ==
    /\ x.module = m
    /\ x.events <= Len(Kinds[m])
    /\ x.kinds \subseteq Among(Kinds[m])
    /\ Mainnet /\ x.events = 0 => x.kinds = {}

Measured(f, n) == Len(f.metrics) = n /\ \A m \in 1 .. n : MetricOf(m, f.metrics[m])

Identified(f) == f.sampled = "effects" => f.idents \subseteq Told

RowOf(row) == row.holders <= Cardinality(WalletsOf(row.type)) /\ row.objects <= minted[row.type]
Fresh(row) ==
    Mainnet /\ ~row.ocapped /\ row.type \notin since.failed =>
        row.objects >= since.minted[row.type]
Unrepeated(f) == \A i, j \in DOMAIN f.rows : f.rows[i].type = f.rows[j].type => i = j

\* The draft d of a probe that is at a stage, at a module.
DraftFor(stage, a, d) ==
    /\ stage = "idle" => d = NoFact
    /\ stage # "idle" => d.tick = ticks /\ fact.tick < ticks
    /\ stage = "entry" => a.module = 1
    /\ stage \in InModules => Measured(d, a.module)
    /\ stage = "count" => d.metrics[a.module].kinds = {}
    /\ stage = "sample" /\ Mainnet => d.metrics[a.module].events > 0
    /\ stage \in After => Measured(d, Last)
    /\ stage \in Before \cup {"effects"} => d.idents = {}
    /\ stage \in Before => d.sampled = "none"
    /\ stage \in {"identity", "effects"} => d.sampled # "effects"
    /\ Identified(d)
    /\ stage # "pool" => d.rows = <<>>

\* The two walks of a type: one counts its objects, one its holders.
PoolOf(t) ==
    LET c == count[t]
        h == walk[<<"probe", t>>]
    IN  /\ c.total <= minted[t]
        /\ c.stage = "waiting" => c.total = 0 /\ c.pages = 0
        /\ c.stage = "page" => c.total = c.pages * PageSize
        /\ c.stage = "done" /\ ~c.capped /\ t \notin since.failed => c.total >= since.minted[t]
        /\ h.stage \in {"read", "page", "save"} => c.stage \in {"page", "done"}
        /\ h.stage # "reset"
        /\ h.holders <= Cardinality(WalletsOf(t))
        /\ pc # "pool" => c.stage \in {"waiting", "left"}
        /\ pc \notin {"idle", "pool"} => c.stage = "waiting"

Pages ==
    \A x \in Walkers \X Types : walk[x].stage = "page" => walk[x].oldest \in 1 .. minted[x[2]] + 1

Pool ==
    /\ \A t \in Types : PoolOf(t)
    /\ pc = "pool" => \A t \in Types : t \in Rows <=> count[t].stage = "left"
    /\ Unrepeated(draft)
    /\ \A i \in DOMAIN draft.rows : RowOf(draft.rows[i]) /\ Fresh(draft.rows[i])
    /\ Cardinality(Busy) <= Workers

Published ==
    /\ fact.metrics # <<>> => Measured(fact, Last)
    /\ Identified(fact)
    /\ Unrepeated(fact)
    /\ fact.rows # <<>> => \A t \in Types : \E i \in DOMAIN fact.rows : fact.rows[i].type = t
    /\ \A i \in DOMAIN fact.rows : RowOf(fact.rows[i])
    /\ fact.tick > 0 /\ pc = "idle" /\ fact.tick = ticks => \A i \in DOMAIN fact.rows : Fresh(fact.rows[i])
    /\ fact.tick <= ticks

ProbeInv ==
    /\ Typed /\ DraftFor(pc, at, draft) /\ Pool /\ Pages /\ Published

(***************************************************************************)
(* What the assumption on the constants says of their lengths.             *)
(***************************************************************************)
LEMMA ProbeConstants ==
    /\ Last \in Nat /\ Last >= 1 /\ Modules = 1 .. Last
    /\ Len(Owners) \in Nat /\ Types = 1 .. Len(Owners)
    /\ \A m \in Modules : Len(Kinds[m]) \in Nat /\ DOMAIN Kinds[m] = 1 .. Len(Kinds[m])
    /\ \A t \in Types : Len(Owners[t]) \in Nat /\ DOMAIN Owners[t] = 1 .. Len(Owners[t])
    /\ {PageSize, ObjectPages} \subseteq Nat \ {0} /\ Workers \in Nat /\ MaxTicks \in Nat
<1>1. /\ Kinds \in Seq(Among(Kinds)) /\ Kinds # <<>>
      /\ Owners \in Seq(Among(Owners))
      /\ \A m \in Modules : Kinds[m] \in Seq(Among(Kinds[m]))
      /\ \A t \in Types : Owners[t] \in Seq(Among(Owners[t]))
  BY ProbeAssumption DEF IsSequence
<1>2. /\ Last \in Nat /\ Last >= 1 /\ Modules = 1 .. Last
      /\ Len(Owners) \in Nat /\ Types = 1 .. Len(Owners)
  BY <1>1 DEF Last, Modules, Types
<1>3. \A m \in Modules : Len(Kinds[m]) \in Nat /\ DOMAIN Kinds[m] = 1 .. Len(Kinds[m])
  BY <1>1
<1>4. \A t \in Types : Len(Owners[t]) \in Nat /\ DOMAIN Owners[t] = 1 .. Len(Owners[t])
  BY <1>1
<1>5. {PageSize, ObjectPages} \subseteq Nat \ {0} /\ Workers \in Nat /\ MaxTicks \in Nat
  BY ProbeAssumption
<1> QED BY <1>2, <1>3, <1>4, <1>5

(***************************************************************************)
(* A package has finitely many wallets of a type, and the more objects     *)
(* there are the more wallets: n is the number of its objects.             *)
(***************************************************************************)
OwnersUpTo(t, n) == {Owners[t][o] : o \in 1 .. n} \ {Parent}

\* Finitely many objects have finitely many wallets as owners.
LEMMA WalletsFinite ==
    ASSUME NEW t \in Types, NEW n \in Nat
    PROVE  IsFiniteSet(OwnersUpTo(t, n)) /\ Cardinality(OwnersUpTo(t, n)) \in Nat
<1> DEFINE S == {Owners[t][o] : o \in 1 .. n}
<1> DEFINE f == [o \in 1 .. n |-> Owners[t][o]]
<1>1. f \in Surjection(1 .. n, S)
  BY DEF Surjection
<1>2. IsFiniteSet(1 .. n)
  BY FS_Interval
<1>3. IsFiniteSet(S)
  <2> HIDE DEF f, S
  <2> QED BY <1>1, <1>2, FS_Surjection
<1>4. OwnersUpTo(t, n) \in SUBSET S
  BY DEF OwnersUpTo
<1> QED
  <2> HIDE DEF S
  <2> QED BY <1>3, <1>4, FS_Subset, FS_CardinalityType

\* More objects have more wallets.
LEMMA MoreWallets ==
    ASSUME NEW t \in Types, NEW n \in Nat, NEW m \in Nat, m <= n
    PROVE  /\ OwnersUpTo(t, m) \subseteq OwnersUpTo(t, n)
           /\ Cardinality(OwnersUpTo(t, m)) <= Cardinality(OwnersUpTo(t, n))
<1>1. OwnersUpTo(t, m) \in SUBSET OwnersUpTo(t, n)
  BY DEF OwnersUpTo
<1> QED BY <1>1, WalletsFinite, FS_Subset

\* The wallets of a type are those of the objects it has so far.
LEMMA WalletsAre ==
    Typed => \A t \in Types : /\ WalletsOf(t) = OwnersUpTo(t, minted[t])
                              /\ Cardinality(WalletsOf(t)) \in Nat
                              /\ IsFiniteSet(WalletsOf(t))
<1> SUFFICES ASSUME Typed, NEW t \in Types
             PROVE  /\ WalletsOf(t) = OwnersUpTo(t, minted[t])
                    /\ Cardinality(WalletsOf(t)) \in Nat
                    /\ IsFiniteSet(WalletsOf(t))
  OBVIOUS
<1>1. minted[t] \in Nat
  BY DEF Typed
<1>2. WalletsOf(t) = OwnersUpTo(t, minted[t])
  BY DEF WalletsOf, Existing, OwnersUpTo
<1> QED BY <1>1, <1>2, WalletsFinite

(***************************************************************************)
(* So are the objects inside another one.                                  *)
(***************************************************************************)
LEMMA ParentsFinite ==
    ASSUME NEW t \in Types, minted[t] \in Nat
    PROVE  Cardinality(ParentsOf(t)) \in Nat
<1>1. ParentsOf(t) \in SUBSET (1 .. minted[t])
  BY DEF ParentsOf, Existing
<1>2. IsFiniteSet(1 .. minted[t])
  BY FS_Interval
<1> QED BY <1>1, <1>2, FS_Subset, FS_CardinalityType

(***************************************************************************)
(* The facts that a probe starts from.                                     *)
(***************************************************************************)
LEMMA EmptyFact ==
    /\ NoFact \in Fact /\ NoFact.metrics = <<>> /\ NoFact.rows = <<>>
    /\ NoFact.idents = {} /\ NoFact.sampled = "none" /\ NoFact.tick = 0
BY DEF NoFact, Fact

\* The fact of an earlier probe is of the package as it is.
LEMMA EarlierIs ==
    ASSUME Typed \/ minted \in [Types -> Nat]
    PROVE  /\ EarlierFact \in Fact
           /\ EarlierFact.tick = 0
           /\ EarlierFact.idents = {} /\ EarlierFact.sampled = "none"
           /\ Measured(EarlierFact, Last)
           /\ EarlierFact.rows # <<>> =>
                 \A t \in Types : \E i \in DOMAIN EarlierFact.rows : EarlierFact.rows[i].type = t
           /\ Unrepeated(EarlierFact)
           /\ \A i \in DOMAIN EarlierFact.rows : RowOf(EarlierFact.rows[i])
<1>1. PICK M : M = [m \in Modules |-> EarlierMetric(m)]
  OBVIOUS
<1>2. PICK R : R = [t \in Types |-> EarlierRow(t)]
  OBVIOUS
<1>3. EarlierFact = [tick |-> 0, metrics |-> M, idents |-> {}, sampled |-> "none", rows |-> R]
  <2>1. EarlierFact = [NoFact EXCEPT !.metrics = M, !.rows = R]
    BY <1>1, <1>2, Zenon DEF EarlierFact
  <2> QED BY <2>1 DEF NoFact
<1>4. M \in Seq(Metric) /\ Len(M) = Last
  <2>1. \A m \in 1 .. Last : M[m] \in Metric
    BY <1>1, ProbeConstants DEF Metric, AnyKind, EarlierMetric
  <2>2. M \in [1 .. Last -> Metric]
    BY <1>1, <2>1, ProbeConstants
  <2> QED BY <2>2, ProbeConstants
<1>5. minted \in [Types -> Nat]
  BY DEF Typed
<1>6. \A t \in Types : Cardinality(WalletsOf(t)) \in Nat
  <2> SUFFICES ASSUME NEW t \in Types PROVE Cardinality(WalletsOf(t)) \in Nat
    OBVIOUS
  <2>1. WalletsOf(t) = OwnersUpTo(t, minted[t]) /\ minted[t] \in Nat
    BY <1>5 DEF WalletsOf, Existing, OwnersUpTo
  <2> QED BY <2>1, WalletsFinite
<1>7. \A t \in Types : Cardinality(ParentsOf(t)) \in Nat
  BY <1>5, ParentsFinite
<1>8. \A t \in Types : /\ R[t] \in TypeRow /\ R[t].type = t
                       /\ R[t].holders = Cardinality(WalletsOf(t)) /\ R[t].objects = minted[t]
  <2> SUFFICES ASSUME NEW t \in Types
               PROVE  /\ R[t] \in TypeRow /\ R[t].type = t
                      /\ R[t].holders = Cardinality(WalletsOf(t)) /\ R[t].objects = minted[t]
    OBVIOUS
  <2>1. R[t] = [type |-> t, holders |-> Cardinality(WalletsOf(t)),
                listed |-> Cardinality(ParentsOf(t)), hcapped |-> FALSE,
                objects |-> minted[t], ocapped |-> FALSE]
    BY <1>2 DEF EarlierRow, ZeroRow
  <2> QED BY <1>5, <1>6, <1>7, <2>1 DEF TypeRow
<1>9. R \in Seq(TypeRow) /\ DOMAIN R = Types
  <2>1. R \in [1 .. Len(Owners) -> TypeRow]
    BY <1>2, <1>8, ProbeConstants
  <2> QED BY <2>1, ProbeConstants
<1>10. Measured(EarlierFact, Last)
  <2>1. \A m \in 1 .. Last : MetricOf(m, M[m])
    <3> SUFFICES ASSUME NEW m \in 1 .. Last PROVE MetricOf(m, M[m])
      OBVIOUS
    <3>1. /\ M[m] = [module |-> m, events |-> Len(Kinds[m]), kinds |-> Among(Kinds[m])]
          /\ Len(Kinds[m]) \in Nat /\ DOMAIN Kinds[m] = 1 .. Len(Kinds[m])
      BY <1>1, ProbeConstants DEF EarlierMetric
    <3>2. Len(Kinds[m]) = 0 => Among(Kinds[m]) = {}
      BY <3>1 DEF Among
    <3> QED BY <3>1, <3>2 DEF MetricOf
  <2> QED BY <1>3, <1>4, <2>1 DEF Measured
<1>11. EarlierFact \in Fact
  BY <1>3, <1>4, <1>9 DEF Fact
<1>12. \A i \in DOMAIN R : RowOf(R[i])
  BY <1>5, <1>6, <1>8, <1>9 DEF RowOf
<1> QED BY <1>3, <1>8, <1>9, <1>10, <1>11, <1>12 DEF Unrepeated

(***************************************************************************)
(* The wallets of a type are owners of its objects.                        *)
(***************************************************************************)
LEMMA WalletsOwn ==
    ASSUME NEW t \in Types, minted[t] \in 0 .. Len(Owners[t])
    PROVE  WalletsOf(t) \subseteq Among(Owners[t]) \ {Parent}
BY ProbeConstants DEF WalletsOf, Existing, Among

(***************************************************************************)
(* The first probe finds the chain and the stores as the invariant says.   *)
(***************************************************************************)
LEMMA InitProbe == ProbeInit => ProbeInv
<1> SUFFICES ASSUME ProbeInit PROVE ProbeInv
  OBVIOUS
<1>1. minted \in [Types -> Nat] /\ \A t \in Types : minted[t] \in 0 .. Len(Owners[t])
  <2>1. PICK T \in SUBSET Types : minted = [t \in Types |-> IF t \in T THEN Len(Owners[t]) ELSE 0]
    BY DEF ProbeInit
  <2> QED BY <2>1, ProbeConstants
<1>2. /\ pkg \in [network : {"mainnet", "testnet"}, tutorial : BOOLEAN]
      /\ ticks = 0 /\ pc = "idle" /\ at = [module |-> 1, pages |-> 0] /\ draft = NoFact
      /\ walk = [w \in Walkers \X Types |-> NoWalk]
      /\ count = [t \in Types |-> NoCount]
      /\ since = [minted |-> minted, failed |-> {}]
  BY DEF ProbeInit
<1>3. \A t \in Types : WalletsOf(t) \subseteq Among(Owners[t]) \ {Parent}
  BY <1>1, WalletsOwn
<1>4. /\ entries \in [Types -> SUBSET UNION {Among(Owners[t]) : t \in Types}]
      /\ \A t \in Types : entries[t] \subseteq WalletsOf(t)
      /\ record \in [Types -> Nat]
      /\ fact \in Fact /\ fact.tick = 0 /\ Published
  <2>1. CASE /\ fact = NoFact
             /\ entries = [t \in Types |-> {}]
             /\ record = [t \in Types |-> 0]
    <3>1. /\ fact \in Fact /\ fact.tick = 0 /\ Identified(fact) /\ Unrepeated(fact)
          /\ fact.metrics = <<>> /\ fact.rows = <<>>
      BY <2>1, EmptyFact DEF Identified, Unrepeated
    <3> QED BY <1>2, <2>1, <3>1 DEF Published
  <2>2. CASE /\ fact = EarlierFact
             /\ entries = [t \in Types |-> WalletsOf(t)]
             /\ record = [t \in Types |-> Cardinality(ParentsOf(t))]
    <3>1. record \in [Types -> Nat]
      BY <1>1, <2>2, ParentsFinite
    <3>2. /\ entries \in [Types -> SUBSET UNION {Among(Owners[t]) : t \in Types}]
          /\ \A t \in Types : entries[t] \subseteq WalletsOf(t)
      BY <1>3, <2>2
    <3>3. /\ fact \in Fact /\ fact.tick = 0 /\ Identified(fact) /\ Unrepeated(fact)
          /\ Measured(fact, Last)
          /\ fact.rows # <<>> => \A t \in Types : \E i \in DOMAIN fact.rows : fact.rows[i].type = t
          /\ \A i \in DOMAIN fact.rows : RowOf(fact.rows[i])
      BY <1>1, <2>2, EarlierIs DEF Identified
    <3>4. Published
      BY <1>2, <3>3 DEF Published
    <3> QED BY <3>1, <3>2, <3>3, <3>4
  <2> QED BY <2>1, <2>2 DEF ProbeInit
<1>5. Typed
  <2>1. NoWalk \in HolderWalk /\ NoCount \in ObjectWalk
    BY DEF NoWalk, NoCount, HolderWalk, ObjectWalk
  <2>2. ticks \in 0 .. MaxTicks /\ at \in [module : Modules, pages : Nat] /\ pc \in Stages
    BY <1>2, ProbeConstants DEF Stages
  <2>3. walk \in [Walkers \X Types -> HolderWalk] /\ count \in [Types -> ObjectWalk]
    BY <1>2, <2>1
  <2>4. /\ since \in [minted : [Types -> Nat], failed : SUBSET Types]
        /\ \A t \in Types : since.minted[t] <= minted[t] /\ minted[t] <= Len(Owners[t])
    BY <1>1, <1>2
  <2>5. draft \in Fact
    BY <1>2, EmptyFact
  <2> QED BY <1>1, <1>2, <1>4, <2>2, <2>3, <2>4, <2>5 DEF Typed
<1>6. DraftFor(pc, at, draft)
  BY <1>2, EmptyFact DEF DraftFor, InModules, Before, After, Identified
<1>7. Pool
  <2>1. ASSUME NEW t \in Types PROVE PoolOf(t)
    <3>1. /\ count[t].total = 0 /\ count[t].stage = "waiting" /\ count[t].pages = 0
          /\ walk[<<"probe", t>>].stage = "waiting" /\ walk[<<"probe", t>>].holders = 0
      BY <1>2 DEF NoCount, NoWalk, Walkers
    <3>2. Cardinality(WalletsOf(t)) \in Nat /\ minted[t] \in Nat
      BY <1>1, <1>5, WalletsAre
    <3> QED BY <1>2, <3>1, <3>2 DEF PoolOf
  <2>2. Busy = {}
    BY <1>2 DEF Busy, Taken, NoCount
  <2>3. Cardinality(Busy) <= Workers
    BY <2>2, FS_EmptySet, ProbeConstants
  <2>4. draft.rows = <<>>
    BY <1>2, EmptyFact
  <2> QED BY <1>2, <2>1, <2>3, <2>4 DEF Pool, Unrepeated
<1>8. Pages
  BY <1>2 DEF Pages, NoWalk
<1> QED BY <1>4, <1>5, <1>6, <1>7, <1>8 DEF ProbeInv

(***************************************************************************)
(* A step of the probe before its object types: it moves between its       *)
(* stages and writes its draft.                                            *)
(***************************************************************************)
LEMMA ScanStep ==
    ASSUME ProbeInv, UNCHANGED Scanning, pc \notin {"idle", "pool"},
           pc' \in Stages \ {"pool"}, at' \in [module : Modules, pages : Nat],
           draft' \in Fact, DraftFor(pc', at', draft')
    PROVE  ProbeInv'
<1>1. /\ pkg' = pkg /\ minted' = minted /\ entries' = entries /\ record' = record
      /\ ticks' = ticks /\ walk' = walk /\ count' = count /\ since' = since /\ fact' = fact
  BY DEF Scanning, stores, pool
<1>2. \A t \in Types : WalletsOf(t)' = WalletsOf(t)
  BY <1>1 DEF WalletsOf, Existing
<1>3. Typed'
  BY <1>1, <1>2 DEF ProbeInv, Typed
<1>4. Pool'
  <2>1. draft'.rows = <<>>
    BY DEF DraftFor
  <2>2. ASSUME NEW t \in Types PROVE PoolOf(t)'
    <3>1. PoolOf(t)
      BY DEF ProbeInv, Pool
    <3>2. count[t].stage = "waiting"
      BY <3>1 DEF PoolOf, ProbeInv
    <3> QED BY <1>1, <1>2, <3>1, <3>2 DEF PoolOf
  <2>3. (Cardinality(Busy) <= Workers)'
    BY <1>1 DEF Busy, Taken, ProbeInv, Pool
  <2> QED BY <2>1, <2>2, <2>3 DEF Pool, Unrepeated
<1>5. Pages'
  BY <1>1 DEF ProbeInv, Pages
<1>6. Published'
  <2>1. fact.tick < ticks /\ fact.tick \in Nat /\ ticks \in Nat
    BY ProbeConstants DEF ProbeInv, DraftFor, Typed, Fact
  <2>2. Published
    BY DEF ProbeInv
  <2>3. /\ fact'.metrics # <<>> => Measured(fact, Last)'
        /\ Identified(fact)' /\ Unrepeated(fact)'
    BY <1>1, <2>2 DEF Published, Measured, MetricOf, Mainnet, Identified, Told, Unrepeated
  <2>4. (\A i \in DOMAIN fact.rows : RowOf(fact.rows[i]))'
    <3> SUFFICES ASSUME NEW i \in DOMAIN fact.rows PROVE RowOf(fact.rows[i])'
      BY <1>1
    <3>1. fact.rows[i] \in TypeRow /\ RowOf(fact.rows[i])
      BY <2>2 DEF Published, ProbeInv, Typed, Fact
    <3> QED BY <1>1, <1>2, <3>1 DEF RowOf, TypeRow
  <2> QED BY <1>1, <2>1, <2>2, <2>3, <2>4 DEF Published
<1>7. DraftFor(pc, at, draft)'
  BY <1>1 DEF DraftFor, Measured, MetricOf, Mainnet, Identified, Told
<1> QED BY <1>3, <1>4, <1>5, <1>6, <1>7 DEF ProbeInv

(***************************************************************************)
(* A metric of the draft is written, or the next one begun.                *)
(***************************************************************************)
WrittenOf(d, m, x) == [d EXCEPT !.metrics[m] = x]

\* A metric written says of its module what it must, and the others stay.
LEMMA MetricWritten ==
    ASSUME NEW d \in Fact, NEW n \in Nat, Measured(d, n), NEW m \in 1 .. n,
           NEW x \in Metric, MetricOf(m, x), NEW e, e = WrittenOf(d, m, x)
    PROVE  /\ e \in Fact /\ Measured(e, n) /\ e.metrics[m] = x
           /\ e.tick = d.tick /\ e.idents = d.idents /\ e.sampled = d.sampled
           /\ e.rows = d.rows
<1>1. PICK M : M = [d.metrics EXCEPT ![m] = x]
  OBVIOUS
<1>2. d.metrics \in [1 .. n -> Metric] /\ Len(d.metrics) = n
  BY DEF Fact, Measured
<1>3. M \in Seq(Metric) /\ Len(M) = n /\ M[m] = x
      /\ \A k \in 1 .. n : k # m => M[k] = d.metrics[k]
  <2>1. M \in [1 .. n -> Metric]
    BY <1>1, <1>2
  <2> QED BY <1>1, <1>2, <2>1
<1>4. e = [d EXCEPT !.metrics = M] /\ e.metrics = M
  BY <1>1 DEF Fact, WrittenOf
<1>5. e \in Fact
  BY <1>3, <1>4 DEF Fact
<1>6. \A k \in 1 .. n : MetricOf(k, M[k])
  BY <1>3 DEF Measured
<1> QED BY <1>3, <1>4, <1>5, <1>6 DEF Measured, Fact

NextOf(d, n) == [d EXCEPT !.metrics = Append(@, [NoMetric EXCEPT !.module = n + 1])]

\* A metric begun is one more, of the next module.
LEMMA MetricBegun ==
    ASSUME NEW d \in Fact, NEW n \in Nat, Measured(d, n), n + 1 \in Modules,
           NEW e, e = NextOf(d, n)
    PROVE  /\ e \in Fact /\ Measured(e, n + 1)
           /\ e.metrics[n + 1].kinds = {}
           /\ e.tick = d.tick /\ e.idents = d.idents /\ e.sampled = d.sampled
           /\ e.rows = d.rows
<1>1. PICK x : x = [NoMetric EXCEPT !.module = n + 1]
  OBVIOUS
<1>2. x \in Metric /\ x.module = n + 1 /\ x.events = 0 /\ x.kinds = {}
  BY <1>1 DEF NoMetric, Metric
<1>3. PICK M : M = Append(d.metrics, x)
  OBVIOUS
<1>4. d.metrics \in Seq(Metric) /\ Len(d.metrics) = n
  BY DEF Fact, Measured
<1>5. M \in Seq(Metric) /\ Len(M) = n + 1 /\ M[n + 1] = x
      /\ \A k \in 1 .. n : M[k] = d.metrics[k]
  BY <1>2, <1>3, <1>4
<1>6. e.metrics = M /\ e = [d EXCEPT !.metrics = M]
  BY <1>1, <1>3 DEF Fact, NextOf
<1>7. MetricOf(n + 1, x)
  BY <1>2, ProbeConstants DEF MetricOf
<1>8. \A k \in 1 .. n + 1 : MetricOf(k, M[k])
  BY <1>5, <1>7 DEF Measured
<1>9. e \in Fact
  BY <1>5, <1>6 DEF Fact
<1> QED BY <1>2, <1>5, <1>6, <1>8, <1>9 DEF Measured, Fact

(***************************************************************************)
(* The probe goes on to the next module, or from the last to the identity  *)
(* of the package.                                                         *)
(***************************************************************************)
LEMMA NextModuleStep ==
    ASSUME ProbeInv, UNCHANGED Scanning, pc \in InModules,
           NEW new \in Fact, NextModule(new), Measured(new, at.module),
           new.tick = draft.tick, new.idents = {}, new.sampled = "none", new.rows = <<>>
    PROVE  ProbeInv'
<1>1. /\ at \in [module : Modules, pages : Nat] /\ new.tick = ticks /\ fact.tick < ticks
      /\ at.module \in Nat
  BY ProbeConstants DEF ProbeInv, Typed, DraftFor, InModules
<1>2. CASE at.module = Len(Kinds)
  <2>1. pc' = "identity" /\ at' = [at EXCEPT !.pages = 0] /\ draft' = new
    BY <1>2 DEF NextModule, Goto
  <2>2. DraftFor("identity", at', new)
    BY <1>1, <1>2 DEF DraftFor, InModules, Before, After, Stages, Identified, Last
  <2> QED BY <1>1, <2>1, <2>2, ScanStep DEF Stages, InModules
<1>3. CASE at.module # Len(Kinds)
  <2>1. /\ pc' = Module /\ at' = [module |-> at.module + 1, pages |-> 0]
        /\ draft' = NextOf(new, at.module)
    BY <1>3 DEF NextModule, NextOf
  <2>2. at.module + 1 \in Modules
    BY <1>1, <1>3, ProbeConstants DEF Last
  <2>3. /\ draft' \in Fact /\ Measured(draft', at.module + 1)
        /\ draft'.metrics[at.module + 1].kinds = {}
        /\ draft'.tick = ticks /\ draft'.idents = {} /\ draft'.sampled = "none"
        /\ draft'.rows = <<>>
    BY <1>1, <2>1, <2>2, MetricBegun
  <2>4. DraftFor(pc', at', draft')
    BY <1>1, <2>1, <2>3 DEF DraftFor, Module, InModules, Before, After, Stages, Identified
  <2> QED BY <2>1, <2>2, <2>3, <2>4, ScanStep DEF Stages, InModules, Module
<1> QED BY <1>2, <1>3

(***************************************************************************)
(* The steps through the modules.                                          *)
(***************************************************************************)
LEMMA LoseStep == ASSUME ProbeInv, Lose PROVE ProbeInv'
<1>1. /\ pc' = "idle" /\ at' = [at EXCEPT !.pages = 0] /\ draft' = NoFact
      /\ UNCHANGED Scanning /\ pc \notin {"idle", "pool"}
  BY DEF Lose, Goto
<1>2. DraftFor("idle", at', NoFact)
  BY EmptyFact DEF DraftFor, InModules, Before, After, Identified
<1> QED BY <1>1, <1>2, EmptyFact, ScanStep DEF Stages, ProbeInv, Typed

\* The entry functions are read, and the first module is at hand.
LEMMA EntryStep == ASSUME ProbeInv, Entry PROVE ProbeInv'
<1>1. /\ pc = "entry" /\ pc' = Module /\ at' = [at EXCEPT !.pages = 0] /\ UNCHANGED Scanning
      /\ draft' = [draft EXCEPT !.metrics = <<[NoMetric EXCEPT !.module = 1]>>]
  BY DEF Entry, Goto
<1>2. /\ draft \in Fact /\ at \in [module : Modules, pages : Nat] /\ at.module = 1
      /\ draft.tick = ticks /\ fact.tick < ticks /\ draft.idents = {}
      /\ draft.sampled = "none" /\ draft.rows = <<>>
  BY <1>1 DEF ProbeInv, Typed, DraftFor, Before
<1>3. PICK x : x = [NoMetric EXCEPT !.module = 1]
  OBVIOUS
<1>4. x \in Metric /\ x.module = 1 /\ x.events = 0 /\ x.kinds = {} /\ MetricOf(1, x)
  BY <1>3, ProbeConstants DEF NoMetric, Metric, MetricOf
<1>5. <<x>> \in Seq(Metric) /\ Len(<<x>>) = 1 /\ <<x>>[1] = x
  BY <1>4
<1>6. /\ draft' \in Fact /\ draft'.metrics = <<x>>
      /\ draft'.tick = ticks /\ draft'.idents = {} /\ draft'.sampled = "none"
      /\ draft'.rows = <<>>
  BY <1>1, <1>2, <1>3, <1>5 DEF Fact
<1>7. Measured(draft', 1) /\ draft'.metrics[1].kinds = {}
  BY <1>4, <1>5, <1>6 DEF Measured
<1>8. DraftFor(pc', at', draft')
  BY <1>1, <1>2, <1>6, <1>7 DEF DraftFor, Module, InModules, Before, After, Stages, Identified
<1> QED BY <1>1, <1>2, <1>6, <1>8, ScanStep DEF Stages, Module

\* The metric of the module at hand.
LEMMA AtHand ==
    ASSUME ProbeInv, pc \in InModules
    PROVE  /\ draft \in Fact /\ at \in [module : Modules, pages : Nat]
           /\ at.module \in Nat /\ at.module \in 1 .. at.module /\ at.module \in Modules
           /\ draft.metrics[at.module] \in Metric
           /\ MetricOf(at.module, draft.metrics[at.module])
           /\ Measured(draft, at.module)
           /\ draft.tick = ticks /\ fact.tick < ticks /\ draft.idents = {}
           /\ draft.sampled = "none" /\ draft.rows = <<>>
<1>1. /\ draft \in Fact /\ at \in [module : Modules, pages : Nat]
      /\ at.module \in Nat /\ at.module \in 1 .. at.module /\ at.module \in Modules
  BY ProbeConstants DEF ProbeInv, Typed
<1>2. /\ Measured(draft, at.module)
      /\ draft.tick = ticks /\ fact.tick < ticks /\ draft.idents = {}
      /\ draft.sampled = "none" /\ draft.rows = <<>>
  BY DEF ProbeInv, DraftFor, InModules, Before
<1>3. draft.metrics \in Seq(Metric) /\ Len(draft.metrics) = at.module
  BY <1>1, <1>2 DEF Fact, Measured
<1>4. draft.metrics[at.module] \in Metric
  BY <1>1, <1>3
<1> QED BY <1>1, <1>2, <1>4 DEF Measured

\* The events of a module are counted.
LEMMA CountStep == ASSUME ProbeInv, NEW n, CountEvents(n) PROVE ProbeInv'
<1>1. /\ pc = "count" /\ pc' = "senders" /\ at' = [at EXCEPT !.pages = 0] /\ UNCHANGED Scanning
      /\ n \in Known(at.module) .. Len(Kinds[at.module])
      /\ draft' = [draft EXCEPT !.metrics[at.module].events = n]
  BY DEF CountEvents, Goto
<1>2. PICK m, x : m = at.module /\ x = [draft.metrics[m] EXCEPT !.events = n]
  OBVIOUS
<1>3. draft.metrics[m] \in Metric /\ draft.metrics[m].kinds = {} /\ MetricOf(m, draft.metrics[m])
  BY <1>1, <1>2, AtHand DEF ProbeInv, DraftFor, InModules
<1>4. Known(m) \in Nat
  <2>1. CASE fact.metrics = <<>>
    BY <2>1 DEF Known
  <2>2. CASE fact.metrics # <<>>
    <3>1. fact.metrics \in Seq(Metric) /\ Len(fact.metrics) = Last
      BY <2>2 DEF ProbeInv, Typed, Fact, Published, Measured
    <3>2. m \in 1 .. Last
      BY <1>1, <1>2, AtHand, ProbeConstants DEF InModules
    <3>3. fact.metrics[m] \in Metric
      BY <3>1, <3>2, ProbeConstants
    <3> QED BY <2>2, <3>3 DEF Known, Metric
  <2> QED BY <2>1, <2>2
<1>5. n \in Nat /\ n <= Len(Kinds[m])
  <2>1. Len(Kinds[m]) \in Nat
    BY <1>1, <1>2, AtHand, ProbeConstants DEF InModules
  <2> QED BY <1>1, <1>2, <1>4, <2>1
<1>6. x \in Metric /\ MetricOf(m, x)
  BY <1>2, <1>3, <1>5 DEF Metric, MetricOf
<1>7. draft' = WrittenOf(draft, m, x)
  BY <1>1, <1>2, AtHand DEF WrittenOf, Fact, InModules
<1>8. /\ draft' \in Fact /\ Measured(draft', m) /\ draft'.tick = ticks /\ draft'.idents = {}
      /\ draft'.sampled = "none" /\ draft'.rows = <<>>
  BY <1>1, <1>2, <1>6, <1>7, AtHand, MetricWritten DEF InModules
<1>9. at'.module = m /\ at' \in [module : Modules, pages : Nat] /\ fact.tick < ticks
  BY <1>1, <1>2, AtHand DEF InModules
<1>10. DraftFor("senders", at', draft')
  BY <1>8, <1>9 DEF DraftFor, InModules, Before, After, Identified
<1> QED BY <1>1, <1>8, <1>9, <1>10, ScanStep DEF Stages

\* Its senders are updated.
LEMMA SendersStep == ASSUME ProbeInv, UpdateSenders PROVE ProbeInv'
<1>1. pc = "senders" /\ pc \in InModules /\ UNCHANGED Scanning
  BY DEF UpdateSenders, InModules
<1>2. CASE draft.metrics[at.module].events > 0
  <2>1. pc' = "sample" /\ at' = [at EXCEPT !.pages = 0] /\ draft' = draft
    BY <1>2 DEF UpdateSenders, Goto
  <2>2. at'.module = at.module /\ at' \in [module : Modules, pages : Nat]
    BY <1>1, <2>1, AtHand
  <2>3. DraftFor("sample", at', draft')
    BY <1>1, <1>2, <2>1, <2>2, AtHand DEF DraftFor, InModules, Before, After, Identified
  <2> QED BY <1>1, <2>1, <2>2, <2>3, AtHand, ScanStep DEF Stages
<1>3. CASE ~(draft.metrics[at.module].events > 0)
  <2>1. NextModule(draft)
    BY <1>3 DEF UpdateSenders
  <2> QED BY <1>1, <2>1, AtHand, NextModuleStep
<1> QED BY <1>2, <1>3

\* A sample that fails.
LEMMA SampleFailsStep == ASSUME ProbeInv, SampleFails PROVE ProbeInv'
<1>1. pc \in InModules /\ UNCHANGED Scanning /\ NextModule(draft)
  BY DEF SampleFails, InModules
<1> QED BY <1>1, AtHand, NextModuleStep

\* A page of the sample.
LEMMA SampleStep == ASSUME ProbeInv, SamplePage PROVE ProbeInv'
<1>1. pc = "sample" /\ pc \in InModules /\ UNCHANGED Scanning
  BY DEF SamplePage, InModules
<1>2. PICK m, P : m = at.module /\ P = PageOf(Kinds[m], at.pages)
  OBVIOUS
<1>3. PICK x : x = [draft.metrics[m] EXCEPT !.kinds = @ \cup P]
  OBVIOUS
<1>4. PICK new : new = [draft EXCEPT !.metrics[m].kinds = @ \cup P]
  OBVIOUS
<1>5. P \subseteq Among(Kinds[m]) /\ P \subseteq AnyKind
  BY <1>1, <1>2, AtHand DEF PageOf, Among, AnyKind
<1>6. /\ draft.metrics[m] \in Metric /\ MetricOf(m, draft.metrics[m])
      /\ Mainnet => draft.metrics[m].events > 0
  BY <1>1, <1>2, AtHand DEF ProbeInv, DraftFor
<1>7. x \in Metric /\ MetricOf(m, x) /\ x.events = draft.metrics[m].events
  <2>1. /\ x.events = draft.metrics[m].events /\ x.module = m
        /\ x.kinds = draft.metrics[m].kinds \cup P
        /\ x \in Metric
    BY <1>3, <1>5, <1>6 DEF Metric, MetricOf
  <2> QED BY <1>5, <1>6, <2>1 DEF MetricOf, Metric
<1>8. new = WrittenOf(draft, m, x)
  BY <1>1, <1>2, <1>3, <1>4, AtHand DEF WrittenOf, Fact
<1>9. /\ new \in Fact /\ Measured(new, m) /\ new.tick = draft.tick /\ new.idents = {}
      /\ new.sampled = "none" /\ new.rows = <<>> /\ new.metrics[m] = x
  BY <1>1, <1>2, <1>7, <1>8, AtHand, MetricWritten
<1>10. CASE HasNext(Kinds[m], at.pages) /\ at.pages + 1 < SamplePages
  <2>1. pc' = pc /\ at' = [at EXCEPT !.pages = @ + 1] /\ draft' = new
    BY <1>2, <1>4, <1>10 DEF SamplePage
  <2>2. at'.module = m /\ at' \in [module : Modules, pages : Nat]
    BY <1>1, <1>2, <2>1, AtHand
  <2>3. DraftFor("sample", at', new)
    BY <1>1, <1>6, <1>7, <1>9, <2>2, AtHand DEF DraftFor, InModules, Before, After, Identified
  <2> QED BY <1>1, <1>9, <2>1, <2>2, <2>3, ScanStep DEF Stages
<1>11. CASE ~(HasNext(Kinds[m], at.pages) /\ at.pages + 1 < SamplePages)
  <2>1. NextModule(new)
    BY <1>2, <1>4, <1>11 DEF SamplePage
  <2> QED BY <1>1, <1>2, <1>9, <2>1, NextModuleStep
<1> QED BY <1>10, <1>11

(***************************************************************************)
(* The steps that identify the package write its identifiers and the type  *)
(* that was sampled.                                                       *)
(***************************************************************************)
LEMMA AfterModules ==
    ASSUME ProbeInv, pc \in After \ {"pool"}
    PROVE  /\ draft \in Fact /\ at \in [module : Modules, pages : Nat]
           /\ Measured(draft, Last) /\ Identified(draft)
           /\ draft.idents \in SUBSET Idents
           /\ draft.sampled \in {"none", "own", "effects"}
           /\ draft.tick = ticks /\ fact.tick < ticks /\ draft.rows = <<>>
           /\ pc = "effects" => draft.idents = {}
           /\ pc \in {"identity", "effects"} => draft.sampled # "effects"
<1>1. draft \in Fact /\ at \in [module : Modules, pages : Nat]
  BY DEF ProbeInv, Typed
<1>2. draft.idents \in SUBSET Idents /\ draft.sampled \in {"none", "own", "effects"}
  BY <1>1 DEF Fact
<1> QED BY <1>1, <1>2 DEF ProbeInv, DraftFor, After, Before

\* After the modules, only identifiers and their source are written.
LEMMA IdentifyStep ==
    ASSUME ProbeInv, pc \in After \ {"pool"}, UNCHANGED Scanning,
           at' \in [module : Modules, pages : Nat],
           NEW I \in SUBSET Idents, NEW s \in {"none", "own", "effects"},
           draft' = [draft EXCEPT !.idents = I, !.sampled = s],
           pc' \in After \ {"pool"},
           s = "effects" => I \subseteq Told,
           pc' = "effects" => I = {},
           pc' \in {"identity", "effects"} => s # "effects"
    PROVE  ProbeInv'
<1>1. /\ draft' \in Fact /\ draft'.idents = I /\ draft'.sampled = s
      /\ draft'.tick = draft.tick /\ draft'.rows = draft.rows
      /\ draft'.metrics = draft.metrics
  BY AfterModules DEF Fact
<1>2. Measured(draft', Last)
  BY <1>1, AfterModules DEF Measured
<1>3. DraftFor(pc', at', draft')
  BY <1>1, <1>2, AfterModules DEF DraftFor, InModules, Before, After, Identified
<1> QED BY <1>1, <1>3, ScanStep DEF After, Before

\* A page of the package's own objects.
LEMMA IdentityStep == ASSUME ProbeInv, IdentityPage PROVE ProbeInv'
<1>1. pc = "identity" /\ pc \in After \ {"pool"} /\ UNCHANGED Scanning
  BY DEF IdentityPage, After, Before, Stages, InModules
<1>2. PICK I, s : /\ I = draft.idents \cup UNION PageOf(Objects, at.pages)
                  /\ s = IF Objects = <<>> THEN draft.sampled ELSE "own"
  OBVIOUS
<1>3. I \in SUBSET Idents /\ s \in {"none", "own"}
  <2>1. UNION PageOf(Objects, at.pages) \subseteq Idents
    BY DEF PageOf, Among, Idents
  <2> QED BY <1>1, <1>2, <2>1, AfterModules
<1>4. draft' = [draft EXCEPT !.idents = I, !.sampled = s]
  BY <1>2 DEF IdentityPage
<1>5. \/ pc' = pc /\ at' = [at EXCEPT !.pages = @ + 1]
      \/ pc' = (IF I = {} THEN "effects" ELSE "tx") /\ at' = [at EXCEPT !.pages = 0]
  BY <1>2 DEF IdentityPage, Goto
<1>6. at' \in [module : Modules, pages : Nat]
  BY <1>1, <1>5, AfterModules
<1>7. pc' \in After \ {"pool"} /\ (pc' = "effects" => I = {})
  BY <1>1, <1>5 DEF After, Before, Stages, InModules
<1> QED BY <1>1, <1>3, <1>4, <1>6, <1>7, IdentifyStep

\* A step that writes nothing of the draft.
LEMMA SameDraft ==
    ASSUME ProbeInv, pc \in After \ {"pool"}
    PROVE  draft = [draft EXCEPT !.idents = draft.idents, !.sampled = draft.sampled]
BY AfterModules DEF Fact

\* Their reading fails.
LEMMA IdentityFailsStep == ASSUME ProbeInv, IdentityFails PROVE ProbeInv'
<1>1. /\ pc = "identity" /\ pc \in After \ {"pool"} /\ UNCHANGED Scanning /\ draft' = draft
      /\ pc' = (IF draft.idents = {} THEN "effects" ELSE "tx") /\ at' = [at EXCEPT !.pages = 0]
  BY DEF IdentityFails, Goto, After, Before, Stages, InModules
<1>2. at' \in [module : Modules, pages : Nat]
  BY <1>1, AfterModules
<1>3. /\ pc' \in After \ {"pool"} /\ (pc' = "effects" => draft.idents = {})
      /\ draft.sampled # "effects"
  BY <1>1, AfterModules DEF After, Before, Stages, InModules
<1> QED BY <1>1, <1>2, <1>3, AfterModules, SameDraft, IdentifyStep

\* The effects of its transactions are read, or are not.
LEMMA EffectsStep == ASSUME ProbeInv, NEW answered \in BOOLEAN, TxEffects(answered) PROVE ProbeInv'
<1>1. /\ pc = "effects" /\ pc \in After \ {"pool"} /\ UNCHANGED Scanning
      /\ pc' = "tx" /\ at' = [at EXCEPT !.pages = 0] /\ pc' \in After \ {"pool"}
  BY DEF TxEffects, Goto, After, Before, Stages, InModules
<1>2. at' \in [module : Modules, pages : Nat]
  BY <1>1, AfterModules
<1>3. CASE ~answered \/ Effects = {}
  <2>1. draft' = draft
    BY <1>3 DEF TxEffects
  <2> QED BY <1>1, <1>2, <2>1, AfterModules, SameDraft, IdentifyStep DEF Identified
<1>4. CASE ~(~answered \/ Effects = {})
  <2>1. PICK s : s = IF draft.sampled = "none" THEN "effects" ELSE draft.sampled
    OBVIOUS
  <2>2. draft' = [draft EXCEPT !.idents = Effects, !.sampled = s]
    BY <1>4, <2>1 DEF TxEffects
  <2>3. s \in {"none", "own", "effects"} /\ Effects \in SUBSET Idents /\ Effects \subseteq Told
    BY <1>1, <2>1, AfterModules DEF Idents, Told
  <2> QED BY <1>1, <1>2, <2>2, <2>3, IdentifyStep
<1> QED BY <1>3, <1>4

\* The Display lines join in.
LEMMA TxCountStep == ASSUME ProbeInv, NEW pages, TxCount(pages) PROVE ProbeInv'
<1>1. /\ pc = "tx" /\ pc \in After \ {"pool"} /\ UNCHANGED Scanning
      /\ pc' = "types" /\ at' = [at EXCEPT !.pages = 0] /\ pc' \in After \ {"pool"}
      /\ draft' = [draft EXCEPT !.idents = @ \cup Collected(pages)]
  BY DEF TxCount, Goto, After, Before, Stages, InModules
<1>2. at' \in [module : Modules, pages : Nat]
  BY <1>1, AfterModules
<1>3. Collected(pages) \subseteq Told
  BY DEF Collected, Told, Among
<1>4. PICK I : I = draft.idents \cup Collected(pages)
  OBVIOUS
<1>5. /\ I \in SUBSET Idents
      /\ draft.sampled = "effects" => I \subseteq Told
  BY <1>1, <1>3, <1>4, AfterModules DEF Identified, Idents
<1>6. draft' = [draft EXCEPT !.idents = I, !.sampled = draft.sampled]
  BY <1>1, <1>4, AfterModules DEF Fact
<1> QED BY <1>1, <1>2, <1>5, <1>6, AfterModules, IdentifyStep

\* The rows of the fact and of the draft.
LEMMA FactRows ==
    Typed => /\ \A i \in DOMAIN fact.rows : fact.rows[i] \in TypeRow
             /\ \A i \in DOMAIN draft.rows : draft.rows[i] \in TypeRow
             /\ \A x \in TypeRow : x.type \in Types
<1> SUFFICES ASSUME Typed
             PROVE  /\ \A i \in DOMAIN fact.rows : fact.rows[i] \in TypeRow
                    /\ \A i \in DOMAIN draft.rows : draft.rows[i] \in TypeRow
                    /\ \A x \in TypeRow : x.type \in Types
  OBVIOUS
<1>1. fact.rows \in Seq(TypeRow) /\ draft.rows \in Seq(TypeRow)
  BY DEF Typed, Fact
<1>2. \A x \in TypeRow : x.type \in Types
  BY DEF TypeRow
<1> QED BY <1>1, <1>2

(***************************************************************************)
(* A probe begins.                                                         *)
(***************************************************************************)
LEMMA NoneBusy ==
    (\A t \in Types : count[t].stage \in {"waiting", "left"}) =>
        Busy = {} /\ Cardinality(Busy) <= Workers
<1> SUFFICES ASSUME \A t \in Types : count[t].stage \in {"waiting", "left"}
             PROVE  Busy = {} /\ Cardinality(Busy) <= Workers
  OBVIOUS
<1>1. Busy = {}
  BY DEF Busy, Taken
<1> QED BY <1>1, FS_EmptySet, ProbeConstants

\* A probe begins, or a tutorial's package gets a fact without one.
LEMMA BeginStep == ASSUME ProbeInv, Begin PROVE ProbeInv'
<1>1. /\ pc = "idle" /\ ticks < MaxTicks /\ ticks' = ticks + 1
      /\ pkg' = pkg /\ minted' = minted /\ entries' = entries /\ record' = record
  BY DEF Begin, stores
<1>2. /\ ticks \in Nat /\ ticks' \in Nat /\ ticks' \in 0 .. MaxTicks
      /\ fact \in Fact /\ fact.tick \in Nat /\ fact.tick <= ticks
  BY <1>1, ProbeConstants DEF ProbeInv, Typed, Fact, Published
<1>3. \A t \in Types : WalletsOf(t)' = WalletsOf(t)
  BY <1>1 DEF WalletsOf, Existing
<1>4. PICK d : d = [NoFact EXCEPT !.tick = ticks']
  OBVIOUS
<1>5. /\ d \in Fact /\ d.tick = ticks' /\ d.metrics = <<>> /\ d.rows = <<>>
      /\ d.idents = {} /\ d.sampled = "none"
  BY <1>2, <1>4, EmptyFact DEF Fact
<1>6. CASE ~Mainnet /\ pkg.tutorial
  <2>1. fact' = d /\ pc' = pc /\ at' = at /\ draft' = draft
        /\ walk' = walk /\ count' = count /\ since' = since
    BY <1>4, <1>6 DEF Begin, pool
  <2>2. Typed'
    BY <1>1, <1>2, <1>3, <1>5, <2>1 DEF ProbeInv, Typed
  <2>3. DraftFor(pc, at, draft)'
    BY <1>1, <2>1 DEF ProbeInv, DraftFor, InModules, Before, After, Identified, Told
  <2>4. Pool'
    <3>1. draft.rows = <<>> /\ draft'.rows = <<>>
      BY <1>1, <2>1 DEF ProbeInv, DraftFor
    <3>2. ASSUME NEW t \in Types PROVE PoolOf(t)'
      BY <1>1, <1>3, <2>1 DEF ProbeInv, Pool, PoolOf
    <3>3. (Cardinality(Busy) <= Workers)'
      BY <2>1 DEF Busy, Taken, ProbeInv, Pool
    <3> QED BY <1>1, <2>1, <3>1, <3>2, <3>3 DEF Pool, Unrepeated
  <2>5. Pages'
    BY <1>1, <2>1 DEF ProbeInv, Pages
  <2>6. Published'
    BY <1>2, <1>5, <2>1 DEF Published, Identified, Unrepeated
  <2> QED BY <2>2, <2>3, <2>4, <2>5, <2>6 DEF ProbeInv
<1>7. CASE ~(~Mainnet /\ pkg.tutorial)
  <2>1. /\ fact' = fact /\ pc' = "entry" /\ at' = [module |-> 1, pages |-> 0] /\ draft' = d
        /\ walk' = [w \in DOMAIN walk |-> IF w[1] = "probe" THEN NoWalk ELSE walk[w]]
        /\ count' = [t \in Types |-> NoCount]
        /\ since' = [minted |-> minted, failed |-> {}]
    BY <1>4, <1>7 DEF Begin
  <2>2. NoWalk \in HolderWalk /\ NoCount \in ObjectWalk
    BY DEF NoWalk, NoCount, HolderWalk, ObjectWalk
  <2>3. /\ walk' \in [Walkers \X Types -> HolderWalk]
        /\ \A x \in Walkers \X Types : walk'[x] = IF x[1] = "probe" THEN NoWalk ELSE walk[x]
    BY <2>1, <2>2 DEF ProbeInv, Typed
  <2>4. Typed'
    <3>1. /\ at' \in [module : Modules, pages : Nat] /\ pc' \in Stages
          /\ count' \in [Types -> ObjectWalk]
      BY <2>1, <2>2, ProbeConstants DEF Stages
    <3>2. /\ minted \in [Types -> Nat]
          /\ since' \in [minted : [Types -> Nat], failed : SUBSET Types]
          /\ \A t \in Types : since'.minted[t] <= minted[t]
      BY <2>1 DEF ProbeInv, Typed
    <3> QED BY <1>1, <1>2, <1>3, <1>5, <2>1, <2>3, <3>1, <3>2 DEF ProbeInv, Typed
  <2>5. DraftFor(pc, at, draft)'
    BY <1>1, <1>2, <1>5, <2>1 DEF DraftFor, InModules, Before, After, Stages, Identified
  <2>6. Pool'
    <3>1. draft'.rows = <<>>
      BY <1>5, <2>1
    <3>2. ASSUME NEW t \in Types PROVE PoolOf(t)'
      <4>1. /\ count'[t].stage = "waiting" /\ count'[t].total = 0 /\ count'[t].pages = 0
            /\ walk'[<<"probe", t>>].stage = "waiting" /\ walk'[<<"probe", t>>].holders = 0
        BY <2>1, <2>3 DEF NoCount, NoWalk, Walkers
      <4>2. Cardinality(WalletsOf(t)) \in Nat /\ minted[t] \in Nat
        BY WalletsAre DEF ProbeInv, Typed
      <4> QED BY <1>1, <1>3, <2>1, <4>1, <4>2 DEF PoolOf
    <3>3. (Cardinality(Busy) <= Workers)'
      <4>1. (\A t \in Types : count[t].stage \in {"waiting", "left"})'
        BY <2>1 DEF NoCount
      <4> QED BY <4>1, NoneBusy, PTL
    <3> QED BY <2>1, <3>1, <3>2, <3>3 DEF Pool, Unrepeated
  <2>7. Pages'
    BY <1>1, <2>3 DEF ProbeInv, Pages, NoWalk
  <2>8. Published'
    <3>1. fact'.tick < ticks' /\ fact'.tick <= ticks' /\ pc' # "idle"
      BY <1>1, <1>2, <2>1
    <3>2. /\ fact'.metrics # <<>> => Measured(fact, Last)'
          /\ Identified(fact)' /\ Unrepeated(fact)'
      BY <1>1, <2>1 DEF ProbeInv, Published, Measured, MetricOf, Mainnet, Identified, Told,
                        Unrepeated
    <3>3. (\A i \in DOMAIN fact.rows : RowOf(fact.rows[i]))'
      BY <1>1, <1>3, <2>1, FactRows DEF ProbeInv, Published, RowOf
    <3> QED BY <2>1, <3>1, <3>2, <3>3 DEF ProbeInv, Published
  <2> QED BY <2>1, <2>4, <2>5, <2>6, <2>7, <2>8 DEF ProbeInv
<1> QED BY <1>6, <1>7

(***************************************************************************)
(* A probe returns its fact.                                               *)
(***************************************************************************)
LEMMA PublishStep ==
    ASSUME ProbeInv, pc \in {"types", "pool"}, NEW R \in Seq(TypeRow), Publish(R),
           UNCHANGED <<pkg, minted, stores, ticks, pool>>,
           \A t \in Types : count[t].stage \in {"waiting", "left"},
           \A i, j \in DOMAIN R : R[i].type = R[j].type => i = j,
           R # <<>> => \A t \in Types : \E i \in DOMAIN R : R[i].type = t,
           \A i \in DOMAIN R : RowOf(R[i]) /\ Fresh(R[i])
    PROVE  ProbeInv'
<1>1. /\ pkg' = pkg /\ minted' = minted /\ entries' = entries /\ record' = record
      /\ ticks' = ticks /\ walk' = walk /\ count' = count /\ since' = since
      /\ fact' = [draft EXCEPT !.rows = R] /\ draft' = NoFact /\ pc' = "idle"
      /\ at' = [at EXCEPT !.pages = 0]
  BY DEF Publish, Goto, stores, pool
<1>2. \A t \in Types : WalletsOf(t)' = WalletsOf(t)
  BY <1>1 DEF WalletsOf, Existing
<1>3. /\ draft \in Fact /\ draft.tick = ticks /\ Measured(draft, Last) /\ Identified(draft)
      /\ at \in [module : Modules, pages : Nat] /\ ticks \in Nat
  BY ProbeConstants DEF ProbeInv, Typed, DraftFor, After, Stages, Before, InModules
<1>4. /\ fact' \in Fact /\ fact'.rows = R /\ fact'.metrics = draft.metrics
      /\ fact'.tick = ticks /\ fact'.idents = draft.idents /\ fact'.sampled = draft.sampled
  BY <1>1, <1>3 DEF Fact
<1>5. Typed'
  <2>1. /\ pc' \in Stages /\ at' \in [module : Modules, pages : Nat]
        /\ draft' \in Fact
    BY <1>1, <1>3, EmptyFact DEF Stages
  <2> QED BY <1>1, <1>2, <1>4, <2>1 DEF ProbeInv, Typed
<1>6. DraftFor(pc, at, draft)'
  BY <1>1, EmptyFact DEF DraftFor, InModules, Before, After, Identified
<1>7. Pool'
  <2>1. draft'.rows = <<>>
    BY <1>1, EmptyFact
  <2>2. ASSUME NEW t \in Types PROVE PoolOf(t)'
    BY <1>1, <1>2 DEF ProbeInv, Pool, PoolOf
  <2>3. (Cardinality(Busy) <= Workers)'
    BY <1>1 DEF Busy, Taken, ProbeInv, Pool
  <2> QED BY <1>1, <2>1, <2>2, <2>3 DEF Pool, Unrepeated
<1>8. Pages'
  BY <1>1 DEF ProbeInv, Pages
<1>9. Published'
  <2>1. Measured(fact, Last)' /\ Identified(fact)' /\ Unrepeated(fact)'
    BY <1>1, <1>3, <1>4 DEF Measured, MetricOf, Mainnet, Identified, Told, Unrepeated
  <2>2. \A i \in DOMAIN R : R[i] \in TypeRow
    OBVIOUS
  <2>3. (\A i \in DOMAIN fact.rows : RowOf(fact.rows[i]) /\ Fresh(fact.rows[i]))'
    BY <1>1, <1>2, <1>4, <2>2 DEF RowOf, Fresh, Mainnet, TypeRow
  <2>4. (fact.rows # <<>> => \A t \in Types : \E i \in DOMAIN fact.rows : fact.rows[i].type = t)'
    BY <1>4
  <2>5. (fact.tick <= ticks)'
    BY <1>1, <1>3, <1>4
  <2> QED BY <2>1, <2>3, <2>4, <2>5 DEF Published
<1> QED BY <1>1, <1>5, <1>6, <1>7, <1>8, <1>9 DEF ProbeInv

(***************************************************************************)
(* The types of the package are found, and the workers start; or the probe *)
(* returns without them.                                                   *)
(***************************************************************************)
LEMMA ZeroRows ==
    ASSUME ProbeInv, NEW R, R = [t \in Types |-> ZeroRow(t)]
    PROVE  /\ R \in Seq(TypeRow) /\ DOMAIN R = Types
           /\ \A t \in Types : R[t].type = t /\ RowOf(R[t])
<1>1. ASSUME NEW t \in Types
      PROVE  /\ R[t] = [type |-> t, holders |-> 0, listed |-> 0, hcapped |-> FALSE,
                        objects |-> 0, ocapped |-> FALSE]
             /\ R[t] \in TypeRow
  BY DEF ZeroRow, TypeRow
<1>2. R \in [1 .. Len(Owners) -> TypeRow] /\ R \in Seq(TypeRow) /\ DOMAIN R = Types
  <2>1. R \in [1 .. Len(Owners) -> TypeRow]
    BY <1>1, ProbeConstants
  <2> QED BY <2>1, ProbeConstants
<1>3. ASSUME NEW t \in Types PROVE R[t].type = t /\ RowOf(R[t])
  <2>1. Cardinality(WalletsOf(t)) \in Nat /\ minted[t] \in Nat
    BY WalletsAre DEF ProbeInv, Typed
  <2> QED BY <1>1, <2>1 DEF RowOf
<1> QED BY <1>2, <1>3

\* The types are discovered: a worker starts, or the probe ends here.
LEMMA DiscoverStep == ASSUME ProbeInv, NEW answered \in BOOLEAN, Discover(answered) PROVE ProbeInv'
<1>1. /\ pc = "types" /\ UNCHANGED <<pkg, minted, stores, ticks, pool>>
      /\ pkg' = pkg /\ minted' = minted /\ entries' = entries /\ record' = record
      /\ ticks' = ticks /\ walk' = walk /\ count' = count /\ since' = since
  BY DEF Discover, stores, pool
<1>2. \A t \in Types : count[t].stage = "waiting"
  BY <1>1 DEF ProbeInv, Pool, PoolOf
<1>3. draft.rows = <<>>
  BY <1>1 DEF ProbeInv, DraftFor
<1>4. CASE answered /\ Mainnet /\ Types # {}
  <2>1. pc' = "pool" /\ at' = [at EXCEPT !.pages = 0] /\ draft' = draft /\ fact' = fact
    BY <1>4 DEF Discover, Goto
  <2>2. \A t \in Types : WalletsOf(t)' = WalletsOf(t)
    BY <1>1 DEF WalletsOf, Existing
  <2>3. Typed'
    <3>1. pc' \in Stages /\ at' \in [module : Modules, pages : Nat]
      BY <2>1 DEF ProbeInv, Typed, Stages
    <3> QED BY <1>1, <2>1, <2>2, <3>1 DEF ProbeInv, Typed
  <2>4. DraftFor(pc, at, draft)'
    BY <1>1, <2>1 DEF ProbeInv, DraftFor, InModules, Before, After, Stages, Identified, Told,
                      Measured, MetricOf, Mainnet
  <2>5. Pool'
    <3>1. ASSUME NEW t \in Types PROVE PoolOf(t)'
      BY <1>1, <1>2, <2>1, <2>2 DEF ProbeInv, Pool, PoolOf
    <3>2. (Cardinality(Busy) <= Workers)'
      BY <1>1 DEF Busy, Taken, ProbeInv, Pool
    <3>3. (\A t \in Types : t \in Rows <=> count[t].stage = "left")'
      BY <1>1, <1>2, <1>3, <2>1 DEF Rows
    <3> QED BY <1>3, <2>1, <3>1, <3>2, <3>3 DEF Pool, Unrepeated
  <2>6. Pages'
    BY <1>1 DEF ProbeInv, Pages
  <2>7. Published'
    <3>1. pc' # "idle" /\ fact'.tick <= ticks'
      BY <1>1, <2>1 DEF ProbeInv, Published
    <3>2. /\ fact'.metrics # <<>> => Measured(fact, Last)'
          /\ Identified(fact)' /\ Unrepeated(fact)'
      BY <1>1, <2>1 DEF ProbeInv, Published, Measured, MetricOf, Mainnet, Identified, Told,
                        Unrepeated
    <3>3. (\A i \in DOMAIN fact.rows : RowOf(fact.rows[i]))'
      BY <1>1, <2>1, <2>2, FactRows DEF ProbeInv, Published, RowOf
    <3> QED BY <2>1, <3>1, <3>2, <3>3 DEF ProbeInv, Published
  <2> QED BY <2>3, <2>4, <2>5, <2>6, <2>7 DEF ProbeInv
<1>5. CASE ~(answered /\ Mainnet /\ Types # {})
  <2>1. PICK R : R = IF answered THEN [t \in Types |-> ZeroRow(t)] ELSE <<>>
    OBVIOUS
  <2>2. Publish(R)
    BY <1>5, <2>1 DEF Discover
  <2>3. CASE answered
    <3>1. /\ R \in Seq(TypeRow) /\ DOMAIN R = Types
          /\ \A t \in Types : R[t].type = t /\ RowOf(R[t])
      BY <2>1, <2>3, ZeroRows
    <3>2. \A i \in DOMAIN R : RowOf(R[i]) /\ Fresh(R[i])
      BY <1>5, <2>3, <3>1 DEF Fresh
    <3>3. /\ \A i, j \in DOMAIN R : R[i].type = R[j].type => i = j
          /\ R # <<>> => \A t \in Types : \E i \in DOMAIN R : R[i].type = t
      BY <3>1
    <3>4. \A t \in Types : count[t].stage \in {"waiting", "left"}
      BY <1>2
    <3> QED BY <1>1, <2>2, <3>1, <3>2, <3>3, <3>4, PublishStep
  <2>4. CASE ~answered
    <3>1. R = <<>>
      BY <2>1, <2>4
    <3>2. /\ R \in Seq(TypeRow)
          /\ \A i, j \in DOMAIN R : R[i].type = R[j].type => i = j
          /\ R # <<>> => \A t \in Types : \E i \in DOMAIN R : R[i].type = t
          /\ \A i \in DOMAIN R : RowOf(R[i]) /\ Fresh(R[i])
      BY <3>1
    <3>3. \A t \in Types : count[t].stage \in {"waiting", "left"}
      BY <1>2
    <3> QED BY <1>1, <2>2, <3>2, <3>3, PublishStep
  <2> QED BY <2>3, <2>4
<1> QED BY <1>4, <1>5

(***************************************************************************)
(* The last worker has left: every type has its row.                       *)
(***************************************************************************)
LEMMA PoolEndsStep == ASSUME ProbeInv, PoolEnds PROVE ProbeInv'
<1>1. /\ pc = "pool" /\ Taken = Types /\ Busy = {} /\ Publish(draft.rows)
      /\ UNCHANGED <<pkg, minted, stores, ticks, pool>>
  BY DEF PoolEnds
<1>2. \A t \in Types : count[t].stage = "left"
  BY <1>1 DEF Busy, Taken
<1>3. \A t \in Types : \E i \in DOMAIN draft.rows : draft.rows[i].type = t
  BY <1>1, <1>2 DEF ProbeInv, Pool, Rows
<1>4. /\ draft.rows \in Seq(TypeRow)
      /\ \A i, j \in DOMAIN draft.rows : draft.rows[i].type = draft.rows[j].type => i = j
      /\ \A i \in DOMAIN draft.rows : RowOf(draft.rows[i]) /\ Fresh(draft.rows[i])
  BY DEF ProbeInv, Typed, Fact, Pool, Unrepeated
<1> QED BY <1>1, <1>2, <1>3, <1>4, PublishStep

(***************************************************************************)
(* A step of a walk: the probe stays where it is, and only failures are    *)
(* added to what is known since it began.                                  *)
(***************************************************************************)
Move ==
    /\ UNCHANGED <<pkg, minted, ticks, at, fact, pc>>
    /\ since' \in [minted : [Types -> Nat], failed : SUBSET Types]
    /\ since'.minted = since.minted /\ since.failed \subseteq since'.failed

\* What such a step leaves as it was.
LEMMA MoveKeeps ==
    ASSUME ProbeInv, Move
    PROVE  /\ pkg' = pkg /\ minted' = minted /\ ticks' = ticks /\ at' = at /\ fact' = fact
           /\ pc' = pc
           /\ \A t \in Types : WalletsOf(t)' = WalletsOf(t)
           /\ \A x \in TypeRow : (RowOf(x) => RowOf(x)') /\ (Fresh(x) => Fresh(x)')
           /\ Published'
<1>1. /\ pkg' = pkg /\ minted' = minted /\ ticks' = ticks /\ at' = at /\ fact' = fact
      /\ pc' = pc /\ since'.minted = since.minted /\ since.failed \subseteq since'.failed
  BY DEF Move
<1>2. \A t \in Types : WalletsOf(t)' = WalletsOf(t)
  BY <1>1 DEF WalletsOf, Existing
<1>3. \A x \in TypeRow : (RowOf(x) => RowOf(x)') /\ (Fresh(x) => Fresh(x)')
  <2>1. \A x \in TypeRow : x.type \in Types
    BY DEF TypeRow
  <2> QED BY <1>1, <1>2, <2>1 DEF RowOf, Fresh, Mainnet
<1>4. Published'
  <2>1. /\ fact'.metrics # <<>> => Measured(fact, Last)'
        /\ Identified(fact)' /\ Unrepeated(fact)'
    BY <1>1 DEF ProbeInv, Published, Measured, MetricOf, Mainnet, Identified, Told, Unrepeated
  <2>2. \A i \in DOMAIN fact.rows : fact.rows[i] \in TypeRow
    BY FactRows DEF ProbeInv
  <2>3. (\A i \in DOMAIN fact.rows : RowOf(fact.rows[i]))'
    BY <1>1, <1>3, <2>2 DEF ProbeInv, Published
  <2>4. (fact.tick > 0 /\ pc = "idle" /\ fact.tick = ticks =>
            \A i \in DOMAIN fact.rows : Fresh(fact.rows[i]))'
    BY <1>1, <1>3, <2>2 DEF ProbeInv, Published
  <2> QED BY <1>1, <2>1, <2>3, <2>4 DEF ProbeInv, Published
<1> QED BY <1>1, <1>2, <1>3, <1>4

\* It keeps the types, if the stores and walks it writes have theirs.
LEMMA MoveTyped ==
    ASSUME ProbeInv, Move,
           entries' \in [Types -> SUBSET UNION {Among(Owners[t]) : t \in Types}],
           \A t \in Types : entries'[t] \subseteq WalletsOf(t),
           record' \in [Types -> Nat], draft' \in Fact,
           walk' \in [Walkers \X Types -> HolderWalk], count' \in [Types -> ObjectWalk]
    PROVE  Typed'
<1>1. /\ since' \in [minted : [Types -> Nat], failed : SUBSET Types]
      /\ since'.minted = since.minted
  BY DEF Move
<1> QED BY <1>1, MoveKeeps DEF ProbeInv, Typed

\* It keeps what is known of a type whose walks it leaves alone.
LEMMA MoveOther ==
    ASSUME ProbeInv, Move, NEW t \in Types, count'[t] = count[t],
           walk'[<<"probe", t>>] = walk[<<"probe", t>>]
    PROVE  PoolOf(t)'
<1>1. since'.minted = since.minted /\ since.failed \subseteq since'.failed
  BY DEF Move
<1>2. PoolOf(t)
  BY DEF ProbeInv, Pool
<1> QED BY <1>1, <1>2, MoveKeeps DEF PoolOf

\* Where no type is taken, no more workers are busy.
LEMMA NoneStarts ==
    ASSUME ProbeInv,
           \A t \in Types : count[t].stage \in {"waiting", "left"} =>
                               count'[t].stage \in {"waiting", "left"}
    PROVE  (Cardinality(Busy) <= Workers)'
<1>1. PICK A, B : A = Busy /\ B = Busy'
  OBVIOUS
<1>2. B \in SUBSET A
  BY <1>1 DEF Busy, Taken
<1>3. A \subseteq Types /\ Cardinality(A) <= Workers
  BY <1>1 DEF Busy, Taken, ProbeInv, Pool
<1>4. IsFiniteSet(A)
  <2>1. IsFiniteSet(1 .. Len(Owners))
    BY ProbeConstants, FS_Interval
  <2> QED BY <1>3, <2>1, ProbeConstants, FS_Subset
<1>5. Cardinality(B) <= Cardinality(A) /\ Cardinality(A) \in Nat /\ Cardinality(B) \in Nat
  BY <1>2, <1>4, FS_Subset, FS_CardinalityType
<1>6. Cardinality(B) <= Workers
  BY <1>3, <1>5, ProbeConstants
<1> QED BY <1>1, <1>6

\* It keeps the invariant, if each part that it writes has its own.
LEMMA MoveStep ==
    ASSUME ProbeInv, Move, Typed', \A t \in Types : PoolOf(t)', Pages', draft' = draft,
           \A t \in Types : count'[t].stage = "left" <=> count[t].stage = "left",
           (Cardinality(Busy) <= Workers)'
    PROVE  ProbeInv'
<1>1. DraftFor(pc, at, draft)'
  BY MoveKeeps DEF ProbeInv, DraftFor, InModules, Before, After, Stages, Identified, Told,
                   Measured, MetricOf, Mainnet
<1>2. Pool'
  <2>1. (pc = "pool" => \A t \in Types : t \in Rows <=> count[t].stage = "left")'
    BY MoveKeeps DEF ProbeInv, Pool, Rows
  <2>2. Unrepeated(draft)'
    BY DEF ProbeInv, Pool, Unrepeated
  <2>3. (\A i \in DOMAIN draft.rows : RowOf(draft.rows[i]) /\ Fresh(draft.rows[i]))'
    BY MoveKeeps, FactRows DEF ProbeInv, Pool
  <2> QED BY <2>1, <2>2, <2>3 DEF Pool
<1> QED BY <1>1, <1>2, MoveKeeps DEF ProbeInv

(***************************************************************************)
(* The workers and their object walks.                                     *)
(***************************************************************************)
LEMMA WalksTyped ==
    ASSUME ProbeInv
    PROVE  /\ walk \in [Walkers \X Types -> HolderWalk] /\ count \in [Types -> ObjectWalk]
           /\ entries \in [Types -> SUBSET UNION {Among(Owners[t]) : t \in Types}]
           /\ \A t \in Types : entries[t] \subseteq WalletsOf(t)
           /\ record \in [Types -> Nat] /\ draft \in Fact
           /\ since \in [minted : [Types -> Nat], failed : SUBSET Types]
           /\ minted \in [Types -> Nat] /\ \A t \in Types : since.minted[t] <= minted[t]
           /\ \A t \in Types : <<"probe", t>> \in Walkers \X Types
BY DEF ProbeInv, Typed, Walkers

\* A worker takes a type.
LEMMA TakeTypeStep == ASSUME ProbeInv, NEW t \in Types, TakeType(t) PROVE ProbeInv'
<1>1. /\ pc = "pool" /\ Cardinality(Busy) < Workers /\ t \notin Taken
      /\ count' = [count EXCEPT ![t].stage = "page"]
      /\ walk' = [walk EXCEPT ![<<"probe", t>>].stage = "read"]
      /\ UNCHANGED <<pkg, minted, ticks, at, fact, pc>> /\ since' = since
      /\ entries' = entries /\ record' = record /\ draft' = draft
  BY DEF TakeType, Elsewhere, stores
<1>2. Move
  BY <1>1, WalksTyped DEF Move
<1>3. /\ count' \in [Types -> ObjectWalk]
      /\ count'[t] = [count[t] EXCEPT !.stage = "page"]
      /\ \A u \in Types : u # t => count'[u] = count[u]
  <2>1. [count[t] EXCEPT !.stage = "page"] \in ObjectWalk
    BY WalksTyped DEF ObjectWalk
  <2> QED BY <1>1, <2>1, WalksTyped
<1>4. /\ walk' \in [Walkers \X Types -> HolderWalk]
      /\ walk'[<<"probe", t>>] = [walk[<<"probe", t>>] EXCEPT !.stage = "read"]
      /\ \A x \in Walkers \X Types : x # <<"probe", t>> => walk'[x] = walk[x]
  <2>1. [walk[<<"probe", t>>] EXCEPT !.stage = "read"] \in HolderWalk
    BY WalksTyped DEF HolderWalk
  <2> QED BY <1>1, <2>1, WalksTyped
<1>5. Typed'
  BY <1>1, <1>2, <1>3, <1>4, WalksTyped, MoveTyped
<1>6. count[t] \in ObjectWalk /\ count[t].stage = "waiting" /\ walk[<<"probe", t>>] \in HolderWalk
  BY <1>1, WalksTyped DEF Taken
<1>7. ASSUME NEW u \in Types PROVE PoolOf(u)'
  <2>1. CASE u = t
    <3>1. /\ count'[t].stage = "page" /\ count'[t].total = 0 /\ count'[t].pages = 0
          /\ walk'[<<"probe", t>>].stage = "read"
          /\ walk'[<<"probe", t>>].holders = walk[<<"probe", t>>].holders
      BY <1>3, <1>4, <1>6 DEF ProbeInv, Pool, PoolOf, ObjectWalk, HolderWalk
    <3>2. walk[<<"probe", t>>].holders <= Cardinality(WalletsOf(t)) /\ minted[t] \in Nat
      BY WalksTyped DEF ProbeInv, Pool, PoolOf
    <3>3. 0 = 0 * PageSize
      BY ProbeConstants
    <3> QED BY <1>1, <1>2, <2>1, <3>1, <3>2, <3>3, MoveKeeps DEF PoolOf
  <2>2. CASE u # t
    <3>1. walk'[<<"probe", u>>] = walk[<<"probe", u>>] /\ count'[u] = count[u]
      BY <1>3, <1>4, <2>2, WalksTyped
    <3> QED BY <1>2, <3>1, MoveOther
  <2> QED BY <2>1, <2>2
<1>8. Pages'
  BY <1>1, <1>2, <1>4, <1>6 DEF ProbeInv, Pages, HolderWalk
<1>9. (Cardinality(Busy) <= Workers)'
  <2>1. PICK A, B : A = Busy /\ B = Busy'
    OBVIOUS
  <2>2. B = A \cup {t}
    BY <1>1, <1>3, <1>6, <2>1 DEF Busy, Taken, ObjectWalk
  <2>3. IsFiniteSet(A)
    <3>1. IsFiniteSet(1 .. Len(Owners))
      BY ProbeConstants, FS_Interval
    <3> QED BY <2>1, <3>1, ProbeConstants, FS_Subset DEF Busy, Taken
  <2>4. Cardinality(A) \in Nat /\ Cardinality(A) < Workers
    BY <1>1, <2>1, <2>3, FS_CardinalityType
  <2>5. Cardinality(B) = IF t \in A THEN Cardinality(A) ELSE Cardinality(A) + 1
    BY <2>2, <2>3, FS_AddElement, Zenon
  <2>6. Cardinality(B) <= Workers
    BY <2>4, <2>5, ProbeConstants
  <2> QED BY <2>1, <2>6
<1>10. \A u \in Types : count'[u].stage = "left" <=> count[u].stage = "left"
  BY <1>3, <1>6 DEF ObjectWalk
<1> QED BY <1>1, <1>2, <1>5, <1>7, <1>8, <1>9, <1>10, MoveStep

\* One more full page.
LEMMA FullPage ==
    ASSUME NEW p \in Nat, NEW s \in Nat
    PROVE  (p + 1) * s = p * s + s
OBVIOUS

\* The step of one object walk: what it leaves of its own type.
LEMMA CountStepOf ==
    ASSUME ProbeInv, NEW t \in Types, NEW c \in ObjectWalk,
           count' = [count EXCEPT ![t] = c], count[t].stage = "page", c.stage \in {"page", "done"},
           Move, UNCHANGED <<stores, draft, walk>>,
           c.total <= minted[t],
           c.stage = "page" => c.total = c.pages * PageSize,
           c.stage = "done" /\ ~c.capped /\ t \notin since'.failed => c.total >= since.minted[t]
    PROVE  ProbeInv'
<1>1. /\ count' \in [Types -> ObjectWalk] /\ count'[t] = c
      /\ \A u \in Types : u # t => count'[u] = count[u]
      /\ walk' = walk /\ entries' = entries /\ record' = record /\ draft' = draft
      /\ since'.minted = since.minted
  BY WalksTyped DEF stores, Move
<1>2. Typed'
  BY <1>1, WalksTyped, MoveTyped
<1>3. ASSUME NEW u \in Types PROVE PoolOf(u)'
  <2>1. CASE u = t
    <3>1. PoolOf(t) /\ pc = "pool"
      BY DEF ProbeInv, Pool, PoolOf
    <3> QED BY <1>1, <2>1, <3>1, MoveKeeps DEF PoolOf
  <2>2. CASE u # t
    BY <1>1, <2>2, MoveOther
  <2> QED BY <2>1, <2>2
<1>4. Pages'
  BY <1>1, MoveKeeps DEF ProbeInv, Pages
<1>5. \A u \in Types : /\ count'[u].stage = "left" <=> count[u].stage = "left"
                       /\ count[u].stage \in {"waiting", "left"} =>
                             count'[u].stage \in {"waiting", "left"}
  BY <1>1
<1>6. (Cardinality(Busy) <= Workers)'
  BY <1>5, NoneStarts
<1> QED BY <1>1, <1>2, <1>3, <1>4, <1>5, <1>6, MoveStep

\* A page of an object walk.
LEMMA ObjectPageStep == ASSUME ProbeInv, NEW t \in Types, ObjectPage(t) PROVE ProbeInv'
<1>1. PICK total, p : total = Read(count[t].total, t) /\ p = count[t].pages + 1
  OBVIOUS
<1>2. PICK c : c = IF total = minted[t]
                   THEN [stage |-> "done", total |-> total, pages |-> p, capped |-> FALSE]
                   ELSE [stage |-> IF p = ObjectPages THEN "done" ELSE "page",
                         total |-> total, pages |-> p,
                         capped |-> total >= ObjectPages * PageSize]
  OBVIOUS
<1>3. /\ count[t].stage = "page" /\ count' = [count EXCEPT ![t] = c]
      /\ UNCHANGED <<Elsewhere, stores, pc, draft, walk, since>>
  BY <1>1, <1>2 DEF ObjectPage
<1>4. Move /\ UNCHANGED <<stores, draft, walk>> /\ since' = since
  BY <1>3, WalksTyped DEF Move, Elsewhere
<1>5. /\ count[t].total \in Nat /\ count[t].pages \in Nat /\ minted[t] \in Nat
      /\ count[t].total <= minted[t] /\ count[t].total = count[t].pages * PageSize
      /\ since.minted[t] \in Nat /\ since.minted[t] <= minted[t]
      /\ PageSize \in Nat /\ ObjectPages \in Nat
  <2>1. count[t] \in ObjectWalk
    BY WalksTyped
  <2> QED BY <1>3, <2>1, WalksTyped, ProbeConstants DEF ProbeInv, Pool, PoolOf, ObjectWalk
<1>6. /\ total \in Nat /\ total <= minted[t]
      /\ total # minted[t] => total = p * PageSize
      /\ p \in Nat
  <2>1. (count[t].pages + 1) * PageSize = count[t].pages * PageSize + PageSize
    BY <1>5, FullPage
  <2> QED BY <1>1, <1>5, <2>1 DEF Read
<1>7. PICK b \in BOOLEAN : b = (total >= ObjectPages * PageSize)
  <2>1. PICK x \in Int : x = ObjectPages * PageSize
    BY <1>5
  <2>2. (total >= x) \in BOOLEAN
    BY <1>6
  <2> QED BY <2>1, <2>2, Zenon
<1>8. c \in ObjectWalk /\ c.stage \in {"page", "done"} /\ c.total = total /\ c.pages = p
  BY <1>2, <1>6, <1>7 DEF ObjectWalk
<1>9. c.stage = "page" => c.total = c.pages * PageSize
  BY <1>2, <1>6, <1>8
<1>10. c.stage = "done" /\ ~c.capped => c.total >= since.minted[t]
  <2>1. CASE total = minted[t]
    BY <1>5, <1>8, <2>1
  <2>2. CASE total # minted[t]
    <3>1. c.stage = "done" => p = ObjectPages
      BY <1>2, <2>2
    <3>2. PICK x \in Int : x = ObjectPages * PageSize
      BY <1>5
    <3>3. c.stage = "done" => total >= x
      BY <1>5, <1>6, <2>2, <3>1, <3>2
    <3>4. c.capped = (total >= x)
      BY <1>2, <2>2, <3>2
    <3> QED BY <3>3, <3>4
  <2> QED BY <2>1, <2>2
<1> QED BY <1>3, <1>4, <1>6, <1>8, <1>9, <1>10, CountStepOf

\* An object walk fails.
LEMMA ObjectFailsStep == ASSUME ProbeInv, NEW t \in Types, ObjectFails(t) PROVE ProbeInv'
<1>1. /\ count[t].stage = "page" /\ count' = [count EXCEPT ![t].stage = "done"]
      /\ since' = [since EXCEPT !.failed = @ \cup {t}]
      /\ UNCHANGED <<Elsewhere, stores, pc, draft, walk>>
  BY DEF ObjectFails
<1>2. /\ since' \in [minted : [Types -> Nat], failed : SUBSET Types]
      /\ since'.minted = since.minted /\ since'.failed = since.failed \cup {t}
  BY <1>1, WalksTyped
<1>3. Move /\ UNCHANGED <<stores, draft, walk>> /\ t \in since'.failed
  BY <1>1, <1>2 DEF Move, Elsewhere
<1>4. PICK c : c = [count[t] EXCEPT !.stage = "done"]
  OBVIOUS
<1>5. count[t] \in ObjectWalk /\ count[t].total <= minted[t]
  BY WalksTyped DEF ProbeInv, Pool, PoolOf
<1>6. c \in ObjectWalk /\ c.stage = "done" /\ c.total <= minted[t]
  BY <1>4, <1>5 DEF ObjectWalk
<1>7. count' = [count EXCEPT ![t] = c]
  BY <1>1, <1>4
<1> QED BY <1>1, <1>3, <1>6, <1>7, CountStepOf

(***************************************************************************)
(* The holder walks.  A step of one, of the probe or of the backfill: what *)
(* it leaves of its own walk.                                              *)
(***************************************************************************)
LEMMA WalkStepOf ==
    ASSUME ProbeInv, NEW w \in Walkers, NEW t \in Types, NEW h \in HolderWalk,
           Put(w, t, h), Move, UNCHANGED <<draft, count>>,
           entries' \in [Types -> SUBSET UNION {Among(Owners[u]) : u \in Types}],
           \A u \in Types : entries'[u] \subseteq WalletsOf(u),
           record' \in [Types -> Nat],
           h.stage = "page" => h.oldest \in 1 .. minted[t] + 1,
           w = "probe" =>
              /\ walk[<<w, t>>].stage \in {"read", "page", "save"}
              /\ h.stage # "reset" /\ h.holders <= Cardinality(WalletsOf(t))
    PROVE  ProbeInv'
<1>1. /\ walk' \in [Walkers \X Types -> HolderWalk] /\ walk'[<<w, t>>] = h
      /\ \A x \in Walkers \X Types : x # <<w, t>> => walk'[x] = walk[x]
      /\ count' = count /\ draft' = draft
  <2>1. <<w, t>> \in Walkers \X Types
    OBVIOUS
  <2>2. walk' = [walk EXCEPT ![<<w, t>>] = h]
    BY DEF Put
  <2> QED BY <2>1, <2>2, WalksTyped
<1>2. Typed'
  BY <1>1, WalksTyped, MoveTyped
<1>3. ASSUME NEW u \in Types PROVE PoolOf(u)'
  <2>1. CASE w = "probe" /\ u = t
    <3>1. since'.minted = since.minted /\ since.failed \subseteq since'.failed
      BY DEF Move
    <3>2. PoolOf(t) /\ walk'[<<"probe", t>>] = h
      BY <1>1, <2>1 DEF ProbeInv, Pool
    <3>3. /\ walk[<<"probe", t>>].stage \in {"read", "page", "save"}
          /\ h.stage # "reset" /\ h.holders <= Cardinality(WalletsOf(t))
      BY <2>1
    <3> QED BY <1>1, <2>1, <3>1, <3>2, <3>3, MoveKeeps DEF PoolOf
  <2>2. CASE ~(w = "probe" /\ u = t)
    <3>1. <<"probe", u>> \in Walkers \X Types /\ <<"probe", u>> # <<w, t>>
      BY <2>2 DEF Walkers
    <3>2. walk'[<<"probe", u>>] = walk[<<"probe", u>>]
      BY <1>1, <3>1
    <3> QED BY <1>1, <3>2, MoveOther
  <2> QED BY <2>1, <2>2
<1>4. Pages'
  <2> SUFFICES ASSUME NEW x \in Walkers \X Types, walk'[x].stage = "page"
               PROVE  walk'[x].oldest \in 1 .. minted'[x[2]] + 1
    BY Zenon DEF Pages
  <2>1. CASE x = <<w, t>>
    BY <1>1, <2>1, MoveKeeps
  <2>2. CASE x # <<w, t>>
    BY <1>1, <2>2, MoveKeeps DEF ProbeInv, Pages
  <2> QED BY <2>1, <2>2
<1>5. (Cardinality(Busy) <= Workers)'
  BY <1>1, NoneStarts
<1> QED BY <1>1, <1>2, <1>3, <1>4, <1>5, MoveStep

\* A walk is a walk, and its oldest object is there.
LEMMA WalkAt ==
    ASSUME ProbeInv, NEW w \in Walkers, NEW t \in Types
    PROVE  /\ walk[<<w, t>>] \in HolderWalk
           /\ walk[<<w, t>>].stage = "page" => walk[<<w, t>>].oldest \in 1 .. minted[t] + 1
           /\ w = "probe" => /\ walk[<<w, t>>].stage # "reset"
                             /\ walk[<<w, t>>].holders <= Cardinality(WalletsOf(t))
<1>1. <<w, t>> \in Walkers \X Types /\ <<w, t>>[2] = t
  OBVIOUS
<1>2. walk[<<w, t>>] \in HolderWalk
  BY <1>1, WalksTyped
<1>3. walk[<<w, t>>].stage = "page" => walk[<<w, t>>].oldest \in 1 .. minted[t] + 1
  BY <1>1 DEF ProbeInv, Pages
<1>4. w = "probe" => /\ walk[<<w, t>>].stage # "reset"
                     /\ walk[<<w, t>>].holders <= Cardinality(WalletsOf(t))
  BY DEF ProbeInv, Pool, PoolOf
<1> QED BY <1>2, <1>3, <1>4

\* The probe's walk has read the record.
LEMMA HolderReadStep == ASSUME ProbeInv, NEW t \in Types, HolderRead(t) PROVE ProbeInv'
<1>1. PICK h : h = [NoWalk EXCEPT !.stage = "page", !.read = record[t], !.oldest = minted[t] + 1]
  OBVIOUS
<1>2. /\ walk[<<"probe", t>>].stage = "read" /\ Put("probe", t, h)
      /\ UNCHANGED <<Elsewhere, stores, pc, draft, count, since>>
  BY <1>1 DEF HolderRead
<1>3. Move /\ UNCHANGED <<draft, count>> /\ entries' = entries /\ record' = record
  BY <1>2, WalksTyped DEF Move, Elsewhere, stores
<1>4. record[t] \in Nat /\ minted[t] \in Nat /\ Cardinality(WalletsOf(t)) \in Nat
  BY WalksTyped, WalletsAre DEF ProbeInv
<1>5. /\ h \in HolderWalk /\ h.stage = "page" /\ h.oldest \in 1 .. minted[t] + 1
      /\ h.holders <= Cardinality(WalletsOf(t))
  <2>1. h = [stage |-> "page", read |-> record[t], oldest |-> minted[t] + 1, pages |-> 0,
             listed |-> 0, holders |-> 0, end |-> FALSE]
    BY <1>1 DEF NoWalk
  <2> QED BY <1>4, <2>1 DEF HolderWalk
<1>6. "probe" \in Walkers
  BY DEF Walkers
<1> QED BY <1>2, <1>3, <1>5, <1>6, WalksTyped, WalkStepOf

\* The page that ends at an object: what it reads is of the type.
LEMMA PageRead ==
    ASSUME ProbeInv, NEW t \in Types, NEW top \in 1 .. minted[t] + 1,
           NEW oldest, oldest = IF top > PageSize THEN top - PageSize ELSE 1
    PROVE  /\ oldest \in 1 .. minted[t] + 1
           /\ {Owners[t][i] : i \in oldest .. top - 1} \ {Parent} \subseteq WalletsOf(t)
           /\ Cardinality({i \in oldest .. top - 1 : Owners[t][i] = Parent}) \in Nat
<1>1. minted[t] \in Nat /\ PageSize \in Nat \ {0}
  BY WalksTyped, ProbeConstants
<1>2. oldest \in 1 .. minted[t] + 1 /\ oldest \in Nat /\ top - 1 \in Int
  BY <1>1
<1>3. {Owners[t][i] : i \in oldest .. top - 1} \ {Parent} \subseteq WalletsOf(t)
  <2>1. oldest .. top - 1 \subseteq 1 .. minted[t]
    BY <1>1, <1>2
  <2> QED BY <2>1 DEF WalletsOf, Existing
<1>4. Cardinality({i \in oldest .. top - 1 : Owners[t][i] = Parent}) \in Nat
  <2>1. IsFiniteSet(oldest .. top - 1)
    BY <1>2, FS_Interval
  <2>2. {i \in oldest .. top - 1 : Owners[t][i] = Parent} \in SUBSET (oldest .. top - 1)
    OBVIOUS
  <2> QED BY <2>1, <2>2, FS_Subset, FS_CardinalityType
<1> QED BY <1>2, <1>3, <1>4

\* A page of a holder walk.
LEMMA HolderPageStep ==
    ASSUME ProbeInv, NEW w \in Walkers, NEW t \in Types, HolderPage(w, t) PROVE ProbeInv'
<1>1. PICK h : h = walk[<<w, t>>]
  OBVIOUS
<1>2. PICK oldest : oldest = IF h.oldest > PageSize THEN h.oldest - PageSize ELSE 1
  OBVIOUS
<1>3. PICK wallets, listed :
          /\ wallets = {Owners[t][i] : i \in oldest .. h.oldest - 1} \ {Parent}
          /\ listed = Cardinality({i \in oldest .. h.oldest - 1 : Owners[t][i] = Parent})
  OBVIOUS
<1>4. PICK end \in BOOLEAN :
          end = ((wallets # {} /\ wallets \subseteq entries[t]) \/ oldest = 1)
  BY Zenon
<1>5. PICK stage \in {"save", "page"} :
          stage = IF end \/ (w = "probe" /\ h.pages + 1 = HolderPages) THEN "save" ELSE "page"
  OBVIOUS
<1>6. PICK new : new = [h EXCEPT !.stage = stage, !.oldest = oldest, !.pages = @ + 1, !.end = end,
                                 !.listed = @ + listed]
  OBVIOUS
<1>7. /\ h.stage = "page" /\ Put(w, t, new)
      /\ entries' = [entries EXCEPT ![t] = @ \cup wallets]
      /\ UNCHANGED <<Elsewhere, record, pc, draft, count, since>>
  BY <1>1, <1>2, <1>3, <1>4, <1>5, <1>6 DEF HolderPage
<1>8. Move /\ UNCHANGED <<draft, count>> /\ record' = record
  BY <1>7, WalksTyped DEF Move, Elsewhere
<1>9. h \in HolderWalk /\ h.oldest \in 1 .. minted[t] + 1
  BY <1>1, <1>7, WalkAt
<1>10. /\ oldest \in 1 .. minted[t] + 1 /\ wallets \subseteq WalletsOf(t) /\ listed \in Nat
  BY <1>2, <1>3, <1>9, PageRead
<1>11. /\ entries' \in [Types -> SUBSET UNION {Among(Owners[u]) : u \in Types}]
       /\ \A u \in Types : entries'[u] \subseteq WalletsOf(u)
  <2>1. WalletsOf(t) \subseteq Among(Owners[t])
    BY WalletsOwn DEF ProbeInv, Typed
  <2>2. entries[t] \cup wallets \in SUBSET UNION {Among(Owners[u]) : u \in Types}
    BY <1>10, <2>1, WalksTyped
  <2> QED BY <1>7, <1>10, <2>2, WalksTyped
<1>12. /\ new \in HolderWalk /\ new.stage = stage /\ new.oldest = oldest
       /\ new.holders = h.holders
  <2>1. oldest \in Nat
    BY <1>10, WalksTyped
  <2>2. new = [stage |-> stage, read |-> h.read, oldest |-> oldest, pages |-> h.pages + 1,
               listed |-> h.listed + listed, holders |-> h.holders, end |-> end]
    BY <1>6, <1>9 DEF HolderWalk
  <2>3. h.read \in Nat /\ h.pages + 1 \in Nat /\ h.listed + listed \in Nat /\ h.holders \in Nat
    BY <1>9, <1>10 DEF HolderWalk
  <2> QED BY <2>1, <2>2, <2>3 DEF HolderWalk
<1>13. w = "probe" => /\ walk[<<w, t>>].stage \in {"read", "page", "save"}
                      /\ new.stage # "reset" /\ new.holders <= Cardinality(WalletsOf(t))
  BY <1>1, <1>7, <1>12, WalkAt
<1> QED BY <1>7, <1>8, <1>10, <1>11, <1>12, <1>13, WalksTyped, WalkStepOf

\* A page that fails ends the walk.
LEMMA HolderPageFailsStep ==
    ASSUME ProbeInv, NEW w \in Walkers, NEW t \in Types, HolderPageFails(w, t) PROVE ProbeInv'
<1>1. PICK h : h = [walk[<<w, t>>] EXCEPT !.stage = "save"]
  OBVIOUS
<1>2. /\ walk[<<w, t>>].stage = "page" /\ Put(w, t, h)
      /\ since' = IF w = "probe" THEN [since EXCEPT !.failed = @ \cup {t}] ELSE since
      /\ UNCHANGED <<Elsewhere, stores, pc, draft, count>>
  BY <1>1 DEF HolderPageFails
<1>3. /\ since' \in [minted : [Types -> Nat], failed : SUBSET Types]
      /\ since'.minted = since.minted /\ since.failed \subseteq since'.failed
  BY <1>2, WalksTyped
<1>4. Move /\ UNCHANGED <<draft, count>> /\ entries' = entries /\ record' = record
  BY <1>2, <1>3 DEF Move, Elsewhere, stores
<1>5. h \in HolderWalk /\ h.stage = "save" /\ h.holders = walk[<<w, t>>].holders
  BY <1>1, WalkAt DEF HolderWalk
<1>6. w = "probe" => /\ walk[<<w, t>>].stage \in {"read", "page", "save"}
                     /\ h.stage # "reset" /\ h.holders <= Cardinality(WalletsOf(t))
  BY <1>2, <1>5, WalkAt
<1> QED BY <1>2, <1>4, <1>5, <1>6, WalksTyped, WalkStepOf

\* A walk saves its count.
LEMMA HolderSaveStep ==
    ASSUME ProbeInv, NEW w \in Walkers, NEW t \in Types, HolderSave(w, t) PROVE ProbeInv'
<1>1. PICK h : h = walk[<<w, t>>]
  OBVIOUS
<1>2. PICK new : new = IF w = "backfill" THEN [NoWalk EXCEPT !.stage = "done"]
                       ELSE [h EXCEPT !.stage = "done", !.holders = Cardinality(entries[t])]
  OBVIOUS
<1>3. PICK n : n = IF h.listed = 0 THEN record[t] ELSE h.read + h.listed
  OBVIOUS
<1>4. /\ h.stage = "save" /\ Put(w, t, new) /\ record' = [record EXCEPT ![t] = n]
      /\ UNCHANGED <<Elsewhere, entries, pc, draft, count, since>>
  BY <1>1, <1>2, <1>3 DEF HolderSave
<1>5. Move /\ UNCHANGED <<draft, count>> /\ entries' = entries
  BY <1>4, WalksTyped DEF Move, Elsewhere
<1>6. h \in HolderWalk
  BY <1>1, WalkAt
<1>7. record' \in [Types -> Nat]
  <2>1. n \in Nat
    BY <1>3, <1>6, WalksTyped DEF HolderWalk
  <2> QED BY <1>4, <2>1, WalksTyped
<1>8. /\ Cardinality(entries[t]) \in Nat /\ Cardinality(WalletsOf(t)) \in Nat
      /\ Cardinality(entries[t]) <= Cardinality(WalletsOf(t))
  <2>1. entries[t] \in SUBSET WalletsOf(t) /\ IsFiniteSet(WalletsOf(t))
    BY WalksTyped, WalletsAre DEF ProbeInv
  <2> QED BY <2>1, FS_Subset, FS_CardinalityType
<1>9. new \in HolderWalk /\ new.stage = "done"
  <2>1. NoWalk \in HolderWalk
    BY DEF NoWalk, HolderWalk
  <2> QED BY <1>2, <1>6, <1>8, <2>1 DEF HolderWalk
<1>10. w = "probe" => new.holders = Cardinality(entries[t])
  BY <1>2, <1>6 DEF HolderWalk
<1>11. w = "probe" => /\ walk[<<w, t>>].stage \in {"read", "page", "save"}
                      /\ new.stage # "reset" /\ new.holders <= Cardinality(WalletsOf(t))
  BY <1>1, <1>4, <1>8, <1>9, <1>10
<1> QED BY <1>4, <1>5, <1>7, <1>9, <1>11, WalksTyped, WalkStepOf

\* The backfill reads the record and resets it.
LEMMA BackfillResetStep == ASSUME ProbeInv, NEW t \in Types, BackfillReset(t) PROVE ProbeInv'
<1>1. PICK h : h = walk[<<"backfill", t>>]
  OBVIOUS
<1>2. UNCHANGED <<Elsewhere, entries, pc, draft, count, since>>
  BY DEF BackfillReset
<1>3. Move /\ UNCHANGED <<draft, count>> /\ entries' = entries
  BY <1>2, WalksTyped DEF Move, Elsewhere
<1>4. "backfill" \in Walkers /\ h \in HolderWalk /\ record[t] \in Nat /\ minted[t] \in Nat
  <2>1. "backfill" \in Walkers
    BY DEF Walkers
  <2> QED BY <1>1, <2>1, WalkAt, WalksTyped
<1>5. CASE /\ h.stage = "waiting" /\ record' = record
           /\ Put("backfill", t, [h EXCEPT !.stage = "reset", !.read = record[t]])
  <2>1. PICK new : new = [h EXCEPT !.stage = "reset", !.read = record[t]]
    OBVIOUS
  <2>2. new \in HolderWalk /\ new.stage = "reset"
    BY <1>4, <2>1 DEF HolderWalk
  <2>3. Put("backfill", t, new)
    BY <1>5, <2>1
  <2> QED BY <1>3, <1>4, <1>5, <2>2, <2>3, WalksTyped, WalkStepOf
<1>6. CASE /\ h.stage = "reset"
           /\ record' = [record EXCEPT ![t] = IF h.read = 0 THEN @ ELSE 0]
           /\ Put("backfill", t, [h EXCEPT !.stage = "page", !.read = 0,
                                           !.oldest = minted[t] + 1])
  <2>1. PICK new : new = [h EXCEPT !.stage = "page", !.read = 0, !.oldest = minted[t] + 1]
    OBVIOUS
  <2>2. new \in HolderWalk /\ new.stage = "page" /\ new.oldest \in 1 .. minted[t] + 1
    <3>1. new = [stage |-> "page", read |-> 0, oldest |-> minted[t] + 1, pages |-> h.pages,
                 listed |-> h.listed, holders |-> h.holders, end |-> h.end]
      BY <1>4, <2>1 DEF HolderWalk
    <3>2. minted[t] + 1 \in Nat /\ minted[t] + 1 \in 1 .. minted[t] + 1
      BY <1>4
    <3> QED BY <1>4, <3>1, <3>2 DEF HolderWalk
  <2>3. Put("backfill", t, new)
    BY <1>6, <2>1
  <2>4. record' \in [Types -> Nat]
    BY <1>4, <1>6, WalksTyped
  <2> QED BY <1>3, <1>4, <2>2, <2>3, <2>4, WalksTyped, WalkStepOf
<1> QED BY <1>1, <1>5, <1>6 DEF BackfillReset

(***************************************************************************)
(* A worker leaves a type with a row for it.                               *)
(***************************************************************************)
LEMMA RowPushed ==
    ASSUME ProbeInv, Move, NEW t \in Types, NEW x \in TypeRow,
           pc = "pool", count[t].stage # "left", PushRow(t, x), UNCHANGED stores,
           x.type = t, RowOf(x), Fresh(x)'
    PROVE  ProbeInv'
<1>1. PICK R : R = Append(draft.rows, x)
  OBVIOUS
<1>2. PICK c, h : c = [NoCount EXCEPT !.stage = "left"] /\ h = [NoWalk EXCEPT !.stage = "done"]
  OBVIOUS
<1>3. /\ draft' = [draft EXCEPT !.rows = R] /\ count' = [count EXCEPT ![t] = c]
      /\ walk' = [walk EXCEPT ![<<"probe", t>>] = h] /\ entries' = entries /\ record' = record
  BY <1>1, <1>2 DEF PushRow, Put, stores
<1>4. draft.rows \in Seq(TypeRow) /\ draft \in Fact
  BY WalksTyped DEF Fact
<1>5. /\ R \in Seq(TypeRow) /\ Len(R) = Len(draft.rows) + 1 /\ R[Len(R)] = x
      /\ DOMAIN R = 1 .. Len(R) /\ DOMAIN draft.rows = 1 .. Len(draft.rows)
      /\ Len(draft.rows) \in Nat
      /\ \A i \in DOMAIN draft.rows : R[i] = draft.rows[i]
  BY <1>1, <1>4
<1>6. /\ draft' \in Fact /\ draft'.rows = R /\ draft'.metrics = draft.metrics
      /\ draft'.tick = draft.tick /\ draft'.idents = draft.idents
      /\ draft'.sampled = draft.sampled
  BY <1>3, <1>4, <1>5 DEF Fact
<1>7. c \in ObjectWalk /\ c.stage = "left" /\ c.total = 0
  BY <1>2 DEF NoCount, ObjectWalk
<1>8. h \in HolderWalk /\ h.stage = "done" /\ h.holders = 0
  BY <1>2 DEF NoWalk, HolderWalk
<1>9. /\ count' \in [Types -> ObjectWalk] /\ count'[t] = c
      /\ \A u \in Types : u # t => count'[u] = count[u]
  BY <1>3, <1>7, WalksTyped
<1>10. /\ walk' \in [Walkers \X Types -> HolderWalk] /\ walk'[<<"probe", t>>] = h
       /\ \A y \in Walkers \X Types : y # <<"probe", t>> => walk'[y] = walk[y]
  BY <1>3, <1>8, WalksTyped
<1>11. Typed'
  BY <1>3, <1>6, <1>9, <1>10, WalksTyped, MoveTyped
<1>12. ASSUME NEW u \in Types PROVE PoolOf(u)'
  <2>1. CASE u = t
    <3>1. Cardinality(WalletsOf(t)) \in Nat /\ minted[t] \in Nat
      BY WalksTyped, WalletsAre DEF ProbeInv
    <3> QED BY <1>7, <1>8, <1>9, <1>10, <2>1, <3>1, MoveKeeps DEF PoolOf
  <2>2. CASE u # t
    <3>1. walk'[<<"probe", u>>] = walk[<<"probe", u>>] /\ count'[u] = count[u]
      BY <1>9, <1>10, <2>2, WalksTyped
    <3> QED BY <3>1, MoveOther
  <2> QED BY <2>1, <2>2
<1>13. Pages'
  <2> SUFFICES ASSUME NEW y \in Walkers \X Types, walk'[y].stage = "page"
               PROVE  walk'[y].oldest \in 1 .. minted'[y[2]] + 1
    BY Zenon DEF Pages
  <2>1. y # <<"probe", t>>
    BY <1>8, <1>10
  <2> QED BY <1>10, <2>1, MoveKeeps DEF ProbeInv, Pages
<1>14. (Cardinality(Busy) <= Workers)'
  BY <1>7, <1>9, NoneStarts
<1>15. \A u \in Types : u \in Rows <=> count[u].stage = "left"
  BY DEF ProbeInv, Pool
<1>16. (\A u \in Types : u \in Rows <=> count[u].stage = "left")'
  <2>1. Rows' = Rows \cup {t}
    BY <1>5, <1>6 DEF Rows
  <2> QED BY <1>7, <1>9, <1>15, <2>1
<1>17. Unrepeated(draft)'
  <2>1. \A i \in DOMAIN draft.rows : draft.rows[i].type # t
    BY <1>15 DEF Rows
  <2>2. \A i, j \in DOMAIN draft.rows : draft.rows[i].type = draft.rows[j].type => i = j
    BY DEF ProbeInv, Pool, Unrepeated
  <2>3. ASSUME NEW i \in DOMAIN R, NEW j \in DOMAIN R, R[i].type = R[j].type PROVE i = j
    <3>1. /\ i = Len(R) \/ (i \in DOMAIN draft.rows /\ R[i] = draft.rows[i])
          /\ j = Len(R) \/ (j \in DOMAIN draft.rows /\ R[j] = draft.rows[j])
      <4>1. \A k \in DOMAIN R : k = Len(R) \/ k \in DOMAIN draft.rows
        BY <1>5
      <4> QED BY <1>5, <4>1
    <3>2. R[Len(R)].type = t
      BY <1>5
    <3> QED BY <2>1, <2>2, <2>3, <3>1, <3>2
  <2> QED BY <1>6, <2>3 DEF Unrepeated
<1>18. (\A i \in DOMAIN draft.rows : RowOf(draft.rows[i]) /\ Fresh(draft.rows[i]))'
  <2>1. \A i \in DOMAIN draft.rows : draft.rows[i] \in TypeRow
    BY <1>4
  <2>2. PICK D : D = draft.rows
    OBVIOUS
  <2>3. \A i \in DOMAIN D : RowOf(D[i])' /\ Fresh(D[i])'
    BY <2>1, <2>2, MoveKeeps DEF ProbeInv, Pool
  <2>4. RowOf(x)' /\ Fresh(x)'
    BY MoveKeeps
  <2>5. \A i \in DOMAIN R : RowOf(R[i])' /\ Fresh(R[i])'
    BY <1>5, <2>2, <2>3, <2>4
  <2> QED BY <1>6, <2>5
<1>19. Pool'
  BY <1>12, <1>14, <1>16, <1>17, <1>18 DEF Pool
<1>20. DraftFor(pc, at, draft)'
  BY <1>6, MoveKeeps DEF ProbeInv, DraftFor, InModules, Before, After, Stages, Identified, Told,
                         Measured, MetricOf, Mainnet
<1> QED BY <1>11, <1>13, <1>19, <1>20, MoveKeeps DEF ProbeInv

\* Both walks of a type are over.
LEMMA JoinRowStep == ASSUME ProbeInv, NEW t \in Types, JoinRow(t) PROVE ProbeInv'
<1>1. PICK h, c : h = walk[<<"probe", t>>] /\ c = count[t]
  OBVIOUS
<1>2. PICK x : x = [type |-> t, holders |-> h.holders, listed |-> h.read + h.listed,
                    hcapped |-> ~h.end, objects |-> c.total, ocapped |-> c.capped]
  OBVIOUS
<1>3. /\ pc = "pool" /\ c.stage = "done" /\ h.stage = "done" /\ PushRow(t, x)
      /\ UNCHANGED <<Elsewhere, stores, pc, since>>
  BY <1>1, <1>2 DEF JoinRow
<1>4. Move /\ UNCHANGED stores /\ since' = since
  BY <1>3, WalksTyped DEF Move, Elsewhere
<1>5. h \in HolderWalk /\ c \in ObjectWalk /\ PoolOf(t)
  BY <1>1, WalksTyped DEF ProbeInv, Pool
<1>6. x \in TypeRow /\ x.type = t /\ x.holders = h.holders /\ x.objects = c.total
      /\ x.ocapped = c.capped
  <2>1. h.holders \in Nat /\ h.read + h.listed \in Nat /\ c.total \in Nat /\ (~h.end) \in BOOLEAN
        /\ c.capped \in BOOLEAN
    BY <1>5 DEF HolderWalk, ObjectWalk
  <2> QED BY <1>2, <2>1 DEF TypeRow
<1>7. RowOf(x)
  BY <1>1, <1>5, <1>6 DEF RowOf, PoolOf
<1>8. Fresh(x)
  BY <1>1, <1>3, <1>5, <1>6 DEF Fresh, PoolOf
<1>9. Fresh(x)'
  BY <1>4, <1>6, <1>8, MoveKeeps
<1>10. count[t].stage # "left"
  BY <1>1, <1>3
<1> QED BY <1>3, <1>4, <1>6, <1>7, <1>9, <1>10, RowPushed

\* A write of the holder walk fails: a row of zeros.
LEMMA HolderThrowsStep == ASSUME ProbeInv, NEW t \in Types, HolderThrows(t) PROVE ProbeInv'
<1>1. PICK x : x = ZeroRow(t)
  OBVIOUS
<1>2. /\ pc = "pool" /\ walk[<<"probe", t>>].stage \in {"read", "page", "save"}
      /\ PushRow(t, x) /\ since' = [since EXCEPT !.failed = @ \cup {t}]
      /\ UNCHANGED <<Elsewhere, stores, pc>>
  BY <1>1 DEF HolderThrows
<1>3. /\ since' \in [minted : [Types -> Nat], failed : SUBSET Types]
      /\ since'.minted = since.minted /\ since.failed \subseteq since'.failed
      /\ t \in since'.failed
  BY <1>2, WalksTyped
<1>4. Move /\ UNCHANGED stores
  BY <1>2, <1>3 DEF Move, Elsewhere
<1>5. x \in TypeRow /\ x.type = t /\ x.holders = 0 /\ x.objects = 0
  BY <1>1 DEF ZeroRow, TypeRow
<1>6. RowOf(x)
  <2>1. Cardinality(WalletsOf(t)) \in Nat /\ minted[t] \in Nat
    BY WalksTyped, WalletsAre DEF ProbeInv
  <2> QED BY <1>5, <2>1 DEF RowOf
<1>7. Fresh(x)'
  BY <1>3, <1>5 DEF Fresh
<1>8. count[t].stage # "left"
  BY <1>2 DEF ProbeInv, Pool, PoolOf
<1> QED BY <1>2, <1>4, <1>5, <1>6, <1>7, <1>8, RowPushed

(***************************************************************************)
(* Objects are minted meanwhile: what is known of the chain stays true.    *)
(***************************************************************************)
LEMMA MintStep == ASSUME ProbeInv, NEW t \in Types, Mint(t) PROVE ProbeInv'
<1>1. /\ minted[t] < Len(Owners[t]) /\ minted' = [minted EXCEPT ![t] = @ + 1]
      /\ pkg' = pkg /\ entries' = entries /\ record' = record /\ ticks' = ticks /\ pc' = pc
      /\ at' = at /\ draft' = draft /\ walk' = walk /\ count' = count /\ since' = since
      /\ fact' = fact
  BY DEF Mint, stores, pool
<1>2. /\ minted \in [Types -> Nat] /\ minted' \in [Types -> Nat]
      /\ \A u \in Types : minted[u] <= minted'[u] /\ minted'[u] <= Len(Owners[u])
  <2>1. minted \in [Types -> Nat] /\ \A u \in Types : minted[u] <= Len(Owners[u])
    BY DEF ProbeInv, Typed
  <2>2. \A u \in Types : Len(Owners[u]) \in Nat
    BY ProbeConstants
  <2> QED BY <1>1, <2>1, <2>2
<1>3. ASSUME NEW u \in Types
      PROVE  /\ WalletsOf(u) \subseteq WalletsOf(u)'
             /\ Cardinality(WalletsOf(u)) <= Cardinality(WalletsOf(u)')
             /\ Cardinality(WalletsOf(u)) \in Nat /\ Cardinality(WalletsOf(u)') \in Nat
  <2>1. PICK m, n : m = minted[u] /\ n = minted'[u]
    OBVIOUS
  <2>2. m \in Nat /\ n \in Nat /\ m <= n
    BY <1>2, <2>1
  <2>3. WalletsOf(u) = OwnersUpTo(u, m) /\ WalletsOf(u)' = OwnersUpTo(u, n)
    BY <2>1 DEF WalletsOf, Existing, OwnersUpTo
  <2>4. /\ OwnersUpTo(u, m) \subseteq OwnersUpTo(u, n)
        /\ Cardinality(OwnersUpTo(u, m)) <= Cardinality(OwnersUpTo(u, n))
        /\ Cardinality(OwnersUpTo(u, m)) \in Nat /\ Cardinality(OwnersUpTo(u, n)) \in Nat
    BY <2>2, MoreWallets, WalletsFinite
  <2> QED BY <2>3, <2>4
<1>4. ASSUME NEW x \in TypeRow PROVE (RowOf(x) => RowOf(x)') /\ (Fresh(x) => Fresh(x)')
  <2>1. x.type \in Types /\ x.holders \in Nat /\ x.objects \in Nat
    BY DEF TypeRow
  <2>2. RowOf(x) => RowOf(x)'
    <3>1. PICK a, b : a = Cardinality(WalletsOf(x.type)) /\ b = Cardinality(WalletsOf(x.type)')
      OBVIOUS
    <3>2. a \in Nat /\ b \in Nat /\ a <= b
      BY <1>3, <2>1, <3>1
    <3>3. minted[x.type] \in Nat /\ minted'[x.type] \in Nat /\ minted[x.type] <= minted'[x.type]
      BY <1>2, <2>1
    <3>4. x.holders <= a => x.holders <= b
      BY <2>1, <3>2
    <3>5. x.objects <= minted[x.type] => x.objects <= minted'[x.type]
      BY <2>1, <3>3
    <3> QED BY <3>1, <3>4, <3>5 DEF RowOf
  <2>3. Fresh(x) => Fresh(x)'
    BY <1>1 DEF Fresh, Mainnet
  <2> QED BY <2>2, <2>3
<1>5. Typed'
  <2>1. \A u \in Types : entries'[u] \subseteq WalletsOf(u)'
    BY <1>1, <1>3 DEF ProbeInv, Typed
  <2>2. \A u \in Types : since'.minted[u] <= minted'[u]
    BY <1>1, <1>2 DEF ProbeInv, Typed
  <2> QED BY <1>1, <1>2, <2>1, <2>2 DEF ProbeInv, Typed
<1>6. DraftFor(pc, at, draft)'
  BY <1>1 DEF ProbeInv, DraftFor, InModules, Before, After, Stages, Identified, Told,
              Measured, MetricOf, Mainnet
<1>7. ASSUME NEW u \in Types PROVE PoolOf(u)'
  <2>1. PoolOf(u) /\ count[u] \in ObjectWalk /\ walk[<<"probe", u>>] \in HolderWalk
    BY WalksTyped DEF ProbeInv, Pool
  <2>2. count[u].total \in Nat /\ walk[<<"probe", u>>].holders \in Nat
    BY <2>1 DEF ObjectWalk, HolderWalk
  <2>3. PICK a, b, k : /\ a = Cardinality(WalletsOf(u)) /\ b = Cardinality(WalletsOf(u)')
                       /\ k = walk[<<"probe", u>>].holders
    OBVIOUS
  <2>4. k <= a => k <= b
    BY <1>3, <2>2, <2>3
  <2>5. count[u].total <= minted'[u]
    BY <1>2, <2>1, <2>2 DEF PoolOf
  <2>6. (walk[<<"probe", u>>].holders <= Cardinality(WalletsOf(u)))'
    BY <1>1, <2>1, <2>3, <2>4 DEF PoolOf
  <2> QED BY <1>1, <2>1, <2>5, <2>6 DEF PoolOf
<1>8. Pages'
  <2> SUFFICES ASSUME NEW x \in Walkers \X Types, walk'[x].stage = "page"
               PROVE  walk'[x].oldest \in 1 .. minted'[x[2]] + 1
    BY Zenon DEF Pages
  <2>1. walk[x].oldest \in 1 .. minted[x[2]] + 1 /\ walk'[x] = walk[x]
    BY <1>1 DEF ProbeInv, Pages
  <2>2. x[2] \in Types
    OBVIOUS
  <2> QED BY <1>2, <2>1, <2>2
<1>9. Pool'
  <2>1. (pc = "pool" => \A u \in Types : u \in Rows <=> count[u].stage = "left")'
    BY <1>1 DEF ProbeInv, Pool, Rows
  <2>2. Unrepeated(draft)'
    BY <1>1 DEF ProbeInv, Pool, Unrepeated
  <2>3. \A i \in DOMAIN draft.rows : draft.rows[i] \in TypeRow
    BY FactRows DEF ProbeInv
  <2>4. (\A i \in DOMAIN draft.rows : RowOf(draft.rows[i]) /\ Fresh(draft.rows[i]))'
    BY <1>1, <1>4, <2>3 DEF ProbeInv, Pool
  <2>5. (Cardinality(Busy) <= Workers)'
    BY <1>1 DEF Busy, Taken, ProbeInv, Pool
  <2> QED BY <1>7, <2>1, <2>2, <2>4, <2>5 DEF Pool
<1>10. Published'
  <2>1. /\ fact'.metrics # <<>> => Measured(fact, Last)'
        /\ Identified(fact)' /\ Unrepeated(fact)'
    BY <1>1 DEF ProbeInv, Published, Measured, MetricOf, Mainnet, Identified, Told, Unrepeated
  <2>2. \A i \in DOMAIN fact.rows : fact.rows[i] \in TypeRow
    BY FactRows DEF ProbeInv
  <2>3. (\A i \in DOMAIN fact.rows : RowOf(fact.rows[i]))'
    BY <1>1, <1>4, <2>2 DEF ProbeInv, Published
  <2>4. (fact.tick > 0 /\ pc = "idle" /\ fact.tick = ticks =>
            \A i \in DOMAIN fact.rows : Fresh(fact.rows[i]))'
    BY <1>1, <1>4, <2>2 DEF ProbeInv, Published
  <2> QED BY <1>1, <2>1, <2>3, <2>4 DEF ProbeInv, Published
<1> QED BY <1>5, <1>6, <1>8, <1>9, <1>10 DEF ProbeInv

(***************************************************************************)
(* A step that changes nothing, and every step.                            *)
(***************************************************************************)
LEMMA ProbeStutters == ASSUME ProbeInv, UNCHANGED probeVars PROVE ProbeInv'
<1>1. /\ pkg' = pkg /\ minted' = minted /\ entries' = entries /\ record' = record
      /\ ticks' = ticks /\ pc' = pc /\ at' = at /\ draft' = draft /\ walk' = walk
      /\ count' = count /\ fact' = fact /\ since' = since
  BY DEF probeVars
<1>2. Move /\ UNCHANGED <<stores, draft, walk, count>>
  BY <1>1, WalksTyped DEF Move, stores
<1>3. Typed'
  BY <1>1, <1>2, WalksTyped, MoveTyped
<1>4. \A t \in Types : PoolOf(t)'
  BY <1>1, <1>2, MoveOther
<1>5. Pages'
  BY <1>1 DEF ProbeInv, Pages
<1>6. (Cardinality(Busy) <= Workers)'
  BY <1>1, NoneStarts
<1> QED BY <1>1, <1>2, <1>3, <1>4, <1>5, <1>6, MoveStep

\* Every step keeps the invariant.
LEMMA NextProbe == ProbeInv /\ [ProbeNext]_probeVars => ProbeInv'
<1> SUFFICES ASSUME ProbeInv, [ProbeNext]_probeVars PROVE ProbeInv'
  OBVIOUS
<1>1. CASE Begin BY <1>1, BeginStep
<1>2. CASE Entry BY <1>2, EntryStep
<1>3. CASE Lose BY <1>3, LoseStep
<1>4. CASE UpdateSenders BY <1>4, SendersStep
<1>5. CASE SamplePage BY <1>5, SampleStep
<1>6. CASE SampleFails BY <1>6, SampleFailsStep
<1>7. CASE IdentityPage BY <1>7, IdentityStep
<1>8. CASE IdentityFails BY <1>8, IdentityFailsStep
<1>9. CASE PoolEnds BY <1>9, PoolEndsStep
<1>10. ASSUME NEW pages, TxCount(pages) PROVE ProbeInv'
  BY <1>10, TxCountStep
<1>11. ASSUME NEW answered \in BOOLEAN, TxEffects(answered) \/ Discover(answered) PROVE ProbeInv'
  BY <1>11, EffectsStep, DiscoverStep
<1>12. ASSUME NEW n, CountEvents(n) PROVE ProbeInv'
  BY <1>12, CountStep
<1>13. ASSUME NEW t \in Types,
              \/ Mint(t) \/ TakeType(t) \/ ObjectPage(t) \/ ObjectFails(t)
              \/ HolderRead(t) \/ JoinRow(t) \/ HolderThrows(t) \/ BackfillReset(t)
       PROVE  ProbeInv'
  BY <1>13, MintStep, TakeTypeStep, ObjectPageStep, ObjectFailsStep, HolderReadStep, JoinRowStep,
     HolderThrowsStep, BackfillResetStep
<1>14. ASSUME NEW t \in Types, NEW w \in Walkers,
              HolderPage(w, t) \/ HolderPageFails(w, t) \/ HolderSave(w, t)
       PROVE  ProbeInv'
  BY <1>14, HolderPageStep, HolderPageFailsStep, HolderSaveStep
<1>15. CASE UNCHANGED probeVars BY <1>15, ProbeStutters
<1> QED BY <1>1, <1>2, <1>3, <1>4, <1>5, <1>6, <1>7, <1>8, <1>9, <1>10, <1>11, <1>12, <1>13,
           <1>14, <1>15 DEF ProbeNext

\* So it holds throughout a run.
LEMMA ProbeAlways == ProbeSpec => []ProbeInv
BY InitProbe, NextProbe, PTL DEF ProbeSpec

(***************************************************************************)
(* Nowhere in a run are more types counted at a time than there are        *)
(* workers, does a fact have a type twice, or do the stores name a wallet  *)
(* that owns nothing.                                                      *)
(***************************************************************************)
THEOREM ProbeTyped == ProbeSpec => []ProbeTypeOK
<1>1. ProbeInv => ProbeTypeOK
  <2> SUFFICES ASSUME ProbeInv PROVE ProbeTypeOK
    OBVIOUS
  <2>1. ASSUME NEW t \in Types
        PROVE  /\ minted[t] \in 0 .. Len(Owners[t])
               /\ entries[t] \subseteq Among(Owners[t]) \ {Parent}
               /\ record[t] \in Nat
    <3>1. /\ minted[t] \in Nat /\ minted[t] <= Len(Owners[t]) /\ record[t] \in Nat
          /\ entries[t] \subseteq WalletsOf(t)
      BY DEF ProbeInv, Typed
    <3>2. minted[t] \in 0 .. Len(Owners[t])
      BY <3>1, ProbeConstants
    <3> QED BY <3>1, <3>2, WalletsOwn
  <2>2. ASSUME NEW f \in Facts
        PROVE  /\ f.tick \in 0 .. ticks
               /\ f.sampled \in {"none", "own", "effects"}
               /\ \A i, j \in DOMAIN f.rows : f.rows[i].type = f.rows[j].type => i = j
    <3>1. f \in Fact /\ ticks \in Nat
      BY ProbeConstants DEF Facts, ProbeInv, Typed
    <3>2. f.tick \in Nat /\ f.sampled \in {"none", "own", "effects"}
      BY <3>1 DEF Fact
    <3>3. draft.tick <= ticks
      BY <3>1, EmptyFact DEF ProbeInv, DraftFor
    <3>4. f.tick <= ticks
      BY <3>3 DEF Facts, ProbeInv, Published
    <3>5. Unrepeated(f)
      BY DEF Facts, ProbeInv, Pool, Published
    <3> QED BY <3>1, <3>2, <3>4, <3>5 DEF Unrepeated
  <2>3. /\ pkg \in [network : {"mainnet", "testnet"}, tutorial : BOOLEAN]
        /\ ticks \in 0 .. MaxTicks /\ pc \in Stages /\ at \in [module : Modules, pages : Nat]
        /\ Cardinality(Busy) <= Workers
    BY DEF ProbeInv, Typed, Pool
  <2> QED BY <2>1, <2>2, <2>3 DEF ProbeTypeOK, Stages
<1> QED BY <1>1, ProbeAlways, PTL

(***************************************************************************)
(* Whatever fails on the way, for every package, however many its modules, *)
(* types and objects: the fact that a probe returns says of each module    *)
(* and of each type what is on chain, or less.                             *)
(***************************************************************************)
THEOREM FactIsHonest == ProbeSpec => []FactHonest
<1>1. ProbeInv => FactHonest
  <2> SUFFICES ASSUME ProbeInv, fact.tick > 0, fact.metrics # <<>>
               PROVE  /\ [m \in DOMAIN fact.metrics |-> fact.metrics[m].module]
                            = [m \in Modules |-> m]
                      /\ \A m \in Modules : MetricOf(m, fact.metrics[m])
                      /\ fact.idents \subseteq Effects \cup (UNION Among(Display))
                                               \cup (UNION Among(Objects))
                      /\ fact.sampled = "effects" =>
                            fact.idents \subseteq Effects \cup (UNION Among(Display))
                      /\ fact.rows # <<>> => {fact.rows[i].type : i \in DOMAIN fact.rows} = Types
                      /\ \A i \in DOMAIN fact.rows :
                            /\ RowOf(fact.rows[i])
                            /\ pc = "idle" /\ fact.tick = ticks => Fresh(fact.rows[i])
    BY DEF FactHonest, MetricOf, RowOf, Fresh
  <2>1. Published /\ fact \in Fact
    BY DEF ProbeInv, Typed
  <2>2. Measured(fact, Last)
    BY <2>1 DEF Published
  <2>3. /\ DOMAIN fact.metrics = Modules
        /\ \A m \in Modules : MetricOf(m, fact.metrics[m])
    BY <2>1, <2>2, ProbeConstants DEF Measured, Fact
  <2>4. [m \in DOMAIN fact.metrics |-> fact.metrics[m].module] = [m \in Modules |-> m]
    BY <2>3 DEF MetricOf
  <2>5. fact.idents \subseteq Effects \cup (UNION Among(Display)) \cup (UNION Among(Objects))
    BY <2>1 DEF Fact, Idents, Told
  <2>6. fact.sampled = "effects" => fact.idents \subseteq Effects \cup (UNION Among(Display))
    BY <2>1 DEF Published, Identified, Told
  <2>7. fact.rows # <<>> => {fact.rows[i].type : i \in DOMAIN fact.rows} = Types
    <3>1. \A i \in DOMAIN fact.rows : fact.rows[i].type \in Types
      BY FactRows DEF ProbeInv
    <3> QED BY <2>1, <3>1 DEF Published
  <2>8. \A i \in DOMAIN fact.rows :
           /\ RowOf(fact.rows[i])
           /\ pc = "idle" /\ fact.tick = ticks => Fresh(fact.rows[i])
    BY <2>1 DEF Published
  <2> QED BY <2>3, <2>4, <2>5, <2>6, <2>7, <2>8
<1> QED BY <1>1, ProbeAlways, PTL

================================================================================
