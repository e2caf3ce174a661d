\* One transaction fails; nothing else goes wrong.
SPECIFICATION Spec
CONSTANTS
    Partitions = {p1, p2}
    Keys = {a}
    MaxBatch = 2
    MaxEvents = 3
    MaxFaults = 1
    MaxCrashes = 0
    MaxTimeouts = 0
INVARIANT
    NoReplayLoss
CHECK_DEADLOCK FALSE
