SPECIFICATION Spec
CONSTANTS
    t1 = t1
    t2 = t2
    a = a
    b = b
    s1 = s1
    Null = Null
    Columns <- MCColumns
    Producers <- MCProducers
    MergeChunk = 1
    Callers = {1, 2, 3}
    Scenarios <- MCScenarios
    TenantOf <- MCTenantOf
    OwnToken = "k1"
    DefaultTenant = t1
    FlushRows = 2
    MaxK = 3
    DefaultK = 2
    TTL = 1
    MaxClock = 2
    MaxFaults = 1
    MaxRestarts = 1
    MaxTries = 1
INVARIANTS
    TypeOK
    MergesReachCommitted
    SuppressionOnce
    WideViewCovers
    ExportOwned
PROPERTIES
    EditWins
\* every caller makes one call
CHECK_DEADLOCK FALSE
