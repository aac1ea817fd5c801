CONSTANTS
    b1 = b1  b2 = b2  b3 = b3
    n1 = n1  n2 = n2
    None = None
    Backend = {b1, b2, b3}
    Node = {n1, n2}
    Blk <- BlkTwo
    MaxEdge = 2
    PageCap = 1
    MaxPages = 2
    MaxXid = 3
    Task <- InsertersAndReaders
SPECIFICATION DisjointSpec
INVARIANTS LockOrder
PROPERTY OperationsEnd
CHECK_DEADLOCK FALSE
