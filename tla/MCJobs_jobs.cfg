SPECIFICATION JobsSpec
CONSTANTS
    Processes = {p1, p2}
    WeeksAhead = 1
    RetentionWeeks = 1
    DropAfter = 1
    FirstWeek = 154
    LastWeek = 158
    RowWeeks = {154, 157, 158}
    MaxFaults = 1
    Runners = {r1, r2}
    Txns <- MCTxns
    Rows <- MCRows
    PageSize = 1
    MaxPages = 3
    MaxRows = 2
    MaxMoves = 1
    MaxRunFaults = 1
    Positions = 5
    MaxWorkers = 4
SYMMETRY Symmetry
INVARIANTS UnpublishedStayVisible CompletedIsRecorded   RollingDeployServed
PROPERTIES DroppedAfterGrace 
CHECK_DEADLOCK FALSE
