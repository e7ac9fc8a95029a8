\* A request ends, and the bounded network with it: CHECK_DEADLOCK FALSE.
SPECIFICATION ChartSpec
CONSTANTS
    MaxChains = 3
    MaxProbed = 2
    Workers = 1
    PageSize = 1
    MaxPages = 2
    MaxDay = 2
    MaxLength = 3
    MaxEvents = 5
INVARIANTS ChartTypeOK ChartHonest
CHECK_DEADLOCK FALSE
