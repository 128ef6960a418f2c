SPECIFICATION FairLSpec
CONSTANTS
    g1 = g1
    g2 = g2
    Threads = {g1, g2}
    Requests <- MCRequests
    Capacity = 1
    LocalCap = 1
    Rate = 1
    LocalMaxBuckets = 3
    failureThreshold = 2
    MaxTime = 1
    MaxRequests = 3
    MaxOutages = 1
INVARIANTS SharedLimit LruConsistent
PROPERTIES Restored
CHECK_DEADLOCK FALSE
