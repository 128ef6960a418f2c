SPECIFICATION RSpec
CONSTANTS
    Workers = {w1, w2}
    Refunds = {r1, r2}
    NoRow = NoRow
    Amount = 2
    Starts = {"CAPTURED"}
    MaxAttempts = 2
    MaxDeliveries = 2
    MaxFaults = 1
    KeyedRefunds = TRUE
    RefundWebhooks = TRUE
SYMMETRY Symmetry
INVARIANTS RefundsWithinAmount RefundTruth AnnouncedWithResult ParentFollowsRefunds
CHECK_DEADLOCK FALSE
