SPECIFICATION FairHSpec
CONSTANTS
    Callers = {c1, c2}
    Listers = {l1, l2}
    Threshold = 2
    MaxFails = 3
INVARIANTS NothingInvented ClosedCountsTrouble
PROPERTIES LegalCircuit OpenEnds
CHECK_DEADLOCK FALSE
