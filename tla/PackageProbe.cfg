\* One probe, with a backfill of the types that the earlier one found.
SPECIFICATION MCSpec
CONSTANTS
    Kinds <- MCKinds
    Objects <- MCObjects
    Effects = {"creates"}
    Display <- MCDisplay
    Owners <- MCOwners
    Parent = "parent"
    PageSize = 1
    SamplePages = 1
    IdentPages = 2
    TargetIdents = 2
    Workers = 2
    ObjectPages = 2
    DisplayPages = 2
    HolderPages = 1
    MaxTicks = 1
INVARIANTS ProbeTypeOK 
CHECK_DEADLOCK FALSE
