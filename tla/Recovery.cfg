CONSTANTS
    p1 = p1  p2 = p2
    NodePage = {p1, p2}
    EdgePage = EdgePage
    OvfPage = OvfPage
    None = None
    Cap = 2
    MaxWal = 8
    MaxXid = 3
    MaxCrash = 2
    MaxOps = 2
    Ops <- AllOps
    CheckpointApart = TRUE
SPECIFICATION Spec
SYMMETRY Pages
INVARIANTS TypeOK  ItemsDurable NoDangling ChainsDurable OverflowDurable
CHECK_DEADLOCK FALSE
