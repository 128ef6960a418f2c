SPECIFICATION FairQSpec
CONSTANTS
    Queues <- MCQueues
    Workers = {w1, w2}
    Operators = {o1, o2}
    BatchSize = 2
    MaxFaults = 1
INVARIANTS DoneIsDelivered NothingLost
PROPERTIES OutboxFinal SettlesForGood
CHECK_DEADLOCK FALSE
