CONSTANTS
    p1 = p1  p2 = p2
    NodePage = {p1}
    EdgePage = EdgePage
    OvfPage = OvfPage
    None = None
    Cap = 3
    MaxWal = 8
    MaxXid = 3
    MaxCrash = 2
    MaxOps = 2
    Ops = {"node"}
    CheckpointApart = TRUE
SPECIFICATION Spec
INVARIANT SlotsDurable
CHECK_DEADLOCK FALSE
