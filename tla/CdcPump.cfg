\* Three messages in two partitions; one failing transaction, one
\* restart and one resume that times out, at any point.
SPECIFICATION FairSpec
CONSTANTS
    Partitions = {p1, p2}
    Keys = {a}
    MaxBatch = 2
    MaxEvents = 3
    MaxFaults = 1
    MaxCrashes = 1
    MaxTimeouts = 1
INVARIANTS
    TypeOK
    NoSilentSkip
    CaughtUpMatches
PROPERTIES
    NoRegression
    EveryMessageSettles
\* the pump waits for a source that has nothing more
CHECK_DEADLOCK FALSE
