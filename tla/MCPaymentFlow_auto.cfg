SPECIFICATION Spec
CONSTANTS
    Workers = {w1, w2}
    Refs = {r1, r2}
    NoRef = NoRef
    NoRow = NoRow
    Modes = {"auto"}
    ApiCalls = {"initiate", "settle"}
    Decisions = {"succeeded", "failed"}
    MaxCalls = 1
    MaxAttempts = 2
    MaxFaults = 1
    IdempotentGateway = FALSE
    TtlOutlivesCalls = FALSE
SYMMETRY Symmetry
CONSTRAINT OneTrouble
INVARIANTS SnapshotsAgree CapturedIsBacked AnnouncedOnce
CHECK_DEADLOCK FALSE
