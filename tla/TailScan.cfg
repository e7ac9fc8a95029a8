\* Transactions: a live tick and a backfill command at work on the same package.
SPECIFICATION FairSpec
CONSTANTS
    live = live
    drain = drain
    None = None
    Scanners <- MCScanners
    StopOnDups <- MCLive
    MaxPages <- MCPages
    PageSize = 2
    MaxNodes = 5
    KeyOf <- Digests
INVARIANTS TypeOK DrainIsComplete UndisturbedIsComplete
PROPERTY DrainFills
