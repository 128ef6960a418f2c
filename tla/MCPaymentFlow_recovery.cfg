SPECIFICATION FairSpec
CONSTANTS
    Workers = {w1, w2}
    Refs = {r1}
    NoRef = NoRef
    NoRow = NoRow
    Modes = {"manual"}
    ApiCalls = {"authorize", "capture"}
    Decisions = {"authorized", "succeeded", "refunded"}
    MaxCalls = 2
    MaxAttempts = 1
    MaxFaults = 0
    IdempotentGateway = TRUE
    TtlOutlivesCalls = TRUE
PROPERTIES ReaperResolves
CHECK_DEADLOCK FALSE
