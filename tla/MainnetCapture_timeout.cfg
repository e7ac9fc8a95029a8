\* A clean start; the hard timeout of capture() may fire at any point of a run.
SPECIFICATION TimeoutSpec
CONSTANTS
    MaxRuns = 3
    MaxPkg = 4
    InitialHead = 3
    PageSize = 2
    CheckpointEveryN = 2
    Framework = {1}
    VanishRuns = {3}
    None = None
INVARIANT PartialNotShared
