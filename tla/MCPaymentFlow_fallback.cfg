SPECIFICATION FairSpec
CONSTANTS
    Workers = {w1}
    Refs = {r1}
    NoRef = NoRef
    NoRow = NoRow
    Modes = {"auto"}
    ApiCalls = {"initiate"}
    Decisions = {"authorized", "succeeded", "failed", "cancelled", "refunded"}
    MaxCalls = 1
    MaxAttempts = 2
    MaxFaults = 0
    IdempotentGateway = TRUE
    TtlOutlivesCalls = TRUE
PROPERTIES RelayFallback
CHECK_DEADLOCK FALSE
