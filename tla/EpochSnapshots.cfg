\* Two processes, two epochs.
SPECIFICATION MCSpec
CONSTANTS
    scan = scan
    cmd = cmd
    Procs = {scan, cmd}
    Methods <- MCMethods
    MaxEpoch = 2
    MaxWrites = 4
    MaxBoots = 1
    DefaultEpoch = 1
INVARIANT TypeOK
PROPERTIES AnswersFresh LiveKept
