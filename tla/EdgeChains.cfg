CONSTANTS
    b1 = b1  b2 = b2  b3 = b3
    n1 = n1  n2 = n2
    None = None
    Backend = {b1, b2}
    Node = {n1, n2}
    Blk <- BlkTwo
    MaxEdge = 3
    PageCap = 2
    MaxPages = 2
    MaxXid = 2
    Task <- WritersAndReader
SPECIFICATION FromFirstSpec
INVARIANTS TypeOK ChainExact DegreeExact FollowExact
PROPERTY ImplementsGraph
CHECK_DEADLOCK FALSE
