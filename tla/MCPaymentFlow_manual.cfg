SPECIFICATION Spec
CONSTANTS
    Workers = {w1, w2}
    Refs = {r1}
    NoRef = NoRef
    NoRow = NoRow
    Modes = {"manual"}
    ApiCalls = {"authorize", "capture", "settle"}
    Decisions = {"authorized", "succeeded", "failed", "cancelled", "refunded"}
    MaxCalls = 3
    MaxAttempts = 1
    MaxFaults = 1
    IdempotentGateway = TRUE
    TtlOutlivesCalls = TRUE
SYMMETRY Symmetry
INVARIANTS CapturedByItsReference SingleFlight
PROPERTIES LegalTransitions ReferenceStable
CHECK_DEADLOCK FALSE
