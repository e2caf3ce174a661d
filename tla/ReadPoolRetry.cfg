\* One re-attach fails, every later one would succeed.
SPECIFICATION FairSpec
CONSTANTS
    Workers = {w1}
    OnWrite = TRUE
    QueueCap = 1
    MaxCommits = 1
    MaxFaults = 1
PROPERTY FailedRefreshIsRetried
CHECK_DEADLOCK FALSE
