\* Three captures of one module, with events, pruning, failed fetches and crashes.
SPECIFICATION MCSpec
CONSTANTS
    MaxRuns = 3
    MaxEvents = 6
    PageSize = 2
    MaxPages = 2
    LegacyCount = 2
    Snapshots <- MCSnapshots
INVARIANTS TypeOK CountsEachOnce PublishedNeverFalls
PROPERTY CappedIsHonest
