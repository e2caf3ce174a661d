\* The pooled readers of the server: refresh on write, one attach may fail.
SPECIFICATION FairSpec
CONSTANTS
    Workers = {w1}
    OnWrite = TRUE
    QueueCap = 2
    MaxCommits = 3
    MaxFaults = 1
INVARIANTS
    TypeOK
    NoStaleRead
    RunsAttached
PROPERTIES
    ViewsAdvance
    EventuallyVisible
\* shutdown stops every worker and the writer may have nothing left to commit
CHECK_DEADLOCK FALSE
