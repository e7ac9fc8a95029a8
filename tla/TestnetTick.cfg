\* Three runs, each a tick or a backfill, over three packages.
SPECIFICATION MCSpec
CONSTANTS
    MaxRuns = 3
    MaxPackages = 3
    PageSize = 2
    Tutorials <- MCTutorials
INVARIANTS TypeOK TotalCountsRows KeepsPrevious CoversChain
