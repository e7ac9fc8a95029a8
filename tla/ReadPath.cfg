\* Two processes, two registries, two snapshots, a cache of one entry.
SPECIFICATION MCSpec
CONSTANTS
    scan = scan
    web = web
    Procs = {scan, web}
    Runs <- MCRuns
    Registries = {1, 2}
    MaxSnaps = 2
    MaxSenders = 1
    MaxBoots = 1
    MaxAsks = 2
    CacheMax = 1
    Rows = {1, 2, 3, 4}
    RowEvents <- MCRowEvents
    Protos = {1, 2, 3, 4}
    OnIota = {1, 3}
    NameMatch <- MCNameMatch
    SameName <- MCSameName
    Responses <- MCResponses
INVARIANTS TypeOK AnswerOwn TvlCountedOnce
PROPERTY HealsLatest
