\* Two processes, three calls, crashes and shutdowns at any point, halts between captures.
SPECIFICATION FairSpec
CONSTANTS
    c1 = c1
    c2 = c2
    c3 = c3
    p1 = p1
    p2 = p2
    None = None
    Operator = Operator
    Calls <- MCCalls
    Procs <- MCProcs
    ProcOf <- MCProcOf
    TTL = 5
    HardTimeout = 2
    Latency = 1
INVARIANTS TypeOK HolderExclusive
PROPERTIES LostOnlyByOwner HaltKept GuardReleased LockReturns
