\* Read-your-writes on one pooled worker, no failures.
SPECIFICATION Spec
CONSTANTS
    Workers = {w1}
    OnWrite = TRUE
    QueueCap = 1
    MaxCommits = 2
    MaxFaults = 0
INVARIANT ReadsSeeAckedWrites
CHECK_DEADLOCK FALSE
