SPECIFICATION CSpec
CONSTANTS
    Workers = {w1, w2}
    Refs = {r1}
    NoRef = NoRef
    NoRow = NoRow
    NoWorker = NoWorker
    Modes = {"manual"}
    ApiCalls = {"authorize", "capture", "settle"}
    Decisions = {"authorized", "succeeded", "refunded"}
    MaxCalls = 3
    MaxAttempts = 1
    MaxFaults = 1
    IdempotentGateway = TRUE
    TtlOutlivesCalls = TRUE
SYMMETRY Symmetry
INVARIANTS CopiesAgreeOrPending RefundedOnce
PROPERTIES IntentKept
CHECK_DEADLOCK FALSE
