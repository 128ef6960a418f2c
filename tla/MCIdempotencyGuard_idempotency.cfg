SPECIFICATION FairGSpec
CONSTANTS
    Clients = {c1, c2, c3}
    Keys = {k1}
    Bodies <- MCBodies
    requestHash <- MCRequestHash
    NoOne = NoOne
    MaxFaults = 1
    MaxExpiries = 1
INVARIANTS ReservationsExclusive
PROPERTIES PerformedOnce Answered
CHECK_DEADLOCK FALSE
