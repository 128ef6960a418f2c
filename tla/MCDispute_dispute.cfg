SPECIFICATION FairDSpec
CONSTANTS
    Workers = {w1}
    Refunds = {r1}
    Handlers = {h1, h2}
    Disputes = {d1}
    NoRow = NoRow
    Amount = 1
    Starts = {"CAPTURED"}
    MaxAttempts = 3
    MaxDeliveries = 2
    MaxFaults = 1
    MaxEvents = 2
    Reports = {"NEEDS_RESPONSE", "WON", "LOST"}
    KeyedRefunds = TRUE
    RefundWebhooks = FALSE
INVARIANTS DisputeExcludesRefund DisputeOpenedOnce RefundedIsBacked
PROPERTIES RefundResolves
CHECK_DEADLOCK FALSE
