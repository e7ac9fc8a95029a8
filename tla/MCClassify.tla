------------------------------ MODULE MCClassify -------------------------------
(***************************************************************************)
(* Classify with the registries of the source.  For every rule there are   *)
(* packages that meet just this rule; for every address of every team      *)
(* there is a package that the NFT aggregate claims; and there are some    *)
(* that no rule describes.  A snapshot holds one of them, or two of one    *)
(* deployer, which is where rows could be mixed up.                        *)
(***************************************************************************)
EXTENDS Classify

CONSTANT Nobody     \* a deployer that is on no list

Registry == INSTANCE Projects
Roster == INSTANCE Teams

RealProjects == Registry!ALL_PROJECTS
RealTeams == Roster!ALL_TEAMS

Or(S, default) == IF S = {} THEN {default} ELSE S

\* Further modules, for a rule that asks for a number of them.
Padding(n) ==
    IF n = 0 THEN {} ELSE {"m1", "m2", "m3", "m4", "m5", "m6", "m7", "m8", "m9", "m10"}

Package(made, address, deployer, modules, structs, samples, types) ==
    [made |-> made, address |-> address, deployer |-> deployer, modules |-> modules,
     structs |-> structs, samples |-> samples, publishedAt |-> Cardinality(modules),
     metered |-> IF deployer = NoDeployer THEN {} ELSE modules,
     events |-> IF deployer = NoDeployer THEN 0 ELSE Cardinality(modules), senders |-> {deployer, "wallet"},
     holders |-> [t \in types |-> {"wallet", "holder"}]]

\* What the chain answers for an object that fulfils every constraint.
SamplesOf(fp) == {<<fp.type, f>> : f \in fp.fields}

\* Packages that meet the rule of a definition; the fingerprint is not asked
\* where the rest of the rule decides.
MadeFor(i) ==
    LET def == Registry!ALL_PROJECTS[i]
        m == def.match
        main == IF m.exact \cup m.all = {} THEN "main" ELSE "any" IN
    IF ~HasSyncMatch(def) THEN {}
    ELSE {Package(def.name, a, d, m.exact \cup m.all \cup ({x} \ {"any"}) \cup Padding(m.minModules),
                  m.objectTypes, {}, def.countTypes) :
            a \in Or(m.packageAddresses, def.name),
            d \in Or(m.deployerAddresses, Nobody),
            x \in Or(m.any, main)}

\* Packages that only the fingerprint tells from others.
Sampled(i) ==
    LET def == Registry!ALL_PROJECTS[i] IN
    IF ~HasFingerprint(def) THEN {}
    ELSE {Package(def.name, "sampled", d, {def.match.fingerprint.module}, {},
                  SamplesOf(def.match.fingerprint), def.countTypes) :
            d \in {Nobody, NoDeployer, "0xcb6956e9"}}

Collections ==
    {Package("none", "collection", d.address, {"nft"}, {}, {}, {}) :
        d \in UNION {Roster!ALL_TEAMS[i].deployers : i \in DOMAIN Roster!ALL_TEAMS}}
    \cup {Package("none", "collection", d, {"nft"}, {}, {}, {}) : d \in {Nobody, NoDeployer}}

Strangers ==
    {Package("none", "stranger", d, {"stranger"}, {}, {}, {}) :
        d \in {Nobody, NoDeployer, "0x164625aa", "0xcb6956e9"}}

MCPackages ==
    UNION {MadeFor(i) \cup Sampled(i) : i \in Defs} \cup Collections \cup Strangers

MCSnapshots ==
    {{p} : p \in MCPackages}
        \cup UNION {{{p, q} : q \in {q \in MCPackages : q.deployer = p.deployer}} :
                        p \in Collections \cup Strangers}

(***************************************************************************)
(* What has to be true of the registry for that: a package made for a rule *)
(* is claimed by it when all its probes are answered, or is routed to it.  *)
(***************************************************************************)
Ruled(p) == p.made # "none" /\ ~(p.made = "Spam Club" /\ p.modules = {"nft"})

RulesApart ==
    \A p \in Packages :
        Ruled(p) => LET def == Claims(p, Network, Probed(p, Network)) IN
                    /\ def # NoDef
                    /\ p.made = AllProjects[Home(def, p, Network).def].name

(***************************************************************************)
(* FoundByItsRule: a package that meets the rule of a definition, and no   *)
(* more than that, ends in the row of this definition unless the probe of  *)
(* a fingerprint failed on it: no rule earlier in the registry takes its   *)
(* packages.  The one exception of the registry is in SpamKeepsItsPackages.*)
(***************************************************************************)
FoundByItsRule ==
    \A p \in Seen \ unanswered :
        Ruled(p) => \E k \in DOMAIN rows : /\ p \in rows[k].facts
                                          /\ p.made = AllProjects[rows[k].def].name

(***************************************************************************)
(* SpamKeepsItsPackages: what the comment on the order of the teams says:  *)
(* of the two teams of the deployer that publishes Spam Club, the routing  *)
(* of aggregates prefers rising-phoenix-2 for the packages of its project. *)
(***************************************************************************)
SpamKeepsItsPackages ==
    \A p \in Seen : p.made = "Spam Club" =>
        \E k \in DOMAIN rows : /\ p \in rows[k].facts
                               /\ AllProjects[rows[k].def].teamId = "rising-phoenix-2"

Finished == rest = {} /\ UNCHANGED vars

MCSpec == Init /\ [][Next \/ Finished]_vars

================================================================================
