\* The registries of the source over packages made for every rule.
SPECIFICATION MCSpec
CONSTANTS
    AllProjects <- RealProjects
    AllTeams <- RealTeams
    Packages <- MCPackages
    Snapshots <- MCSnapshots
    NoDeployer = NoDeployer
    Unsplit = Unsplit
    Nobody = Nobody
    Network = "mainnet"
INVARIANTS TypeOK CountedOnce FitsTheRow ReachCoversBoth FoundByItsRule
