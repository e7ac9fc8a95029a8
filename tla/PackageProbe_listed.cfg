\* One object, listed, of a package that an earlier probe has met.
SPECIFICATION MCSpec
CONSTANTS
    Kinds <- MCKinds
    Objects <- MCObjects
    Effects = {"creates"}
    Display <- MCDisplay
    Owners <- MCListing
    Parent = "parent"
    PageSize = 1
    SamplePages = 1
    IdentPages = 2
    TargetIdents = 2
    Workers = 2
    ObjectPages = 2
    DisplayPages = 2
    HolderPages = 2
    MaxTicks = 1
INVARIANT ListedIsLive
CHECK_DEADLOCK FALSE
