\* Serialized captures with crashes, failed calls and a growing chain.
SPECIFICATION MCSpec
CONSTANTS
    MaxRuns = 3
    MaxPkg = 4
    InitialHead = 3
    PageSize = 2
    CheckpointEveryN = 1
    Framework = {1}
    VanishRuns = {3}
    None = None
INVARIANTS TypeOK OwnsTheOnlyPartial ResumesAfterCursorSameDay LossBounded
PROPERTY PublishedOnce FactsFollowHistory
