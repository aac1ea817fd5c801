CONSTANTS
    b1 = b1  b2 = b2  b3 = b3
    None = None
    Backend = {b1, b2, b3}
    MaxNode = 2
    MaxPages = 2
    PageCap = 2
    MaxXid = 2
    MaxEdges = 1
    Task <- WritersReaderVacuum
    Repeatable = {b2}
SPECIFICATION FewerSpec
INVARIANTS TypeOK ScanOnce ScanComplete VacuumSafe HeaderIntact
CHECK_DEADLOCK FALSE
