\* Two tenants share a table; batches of two rows; one failing writer call
\* and one crash at any point.
SPECIFICATION FairSpec
CONSTANTS
    Tenants = {alice, bob}
    DefaultTenant = alice
    Tables = {orders}
    Engine = engine
    Shapes = {s1, s2}
    EmptyCommands = FALSE
    MaxRows = 2
    FlushRows = 2
    AgeFlush = TRUE
    MaxFaults = 1
    MaxCrashes = 1
INVARIANTS
    TypeOK
    StampedByOwner
    AckedAccounted
    StoppedMeansDurable
    SweepCoversWrites
PROPERTIES
    
    CommitsAreUniform
    BuffersDrain
    ImplementsRowLife
\* the thread ends after shutdown
CHECK_DEADLOCK FALSE
