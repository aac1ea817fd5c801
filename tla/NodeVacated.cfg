CONSTANTS
    b1 = b1  b2 = b2  b3 = b3
    None = None
    Backend = {b1, b2}
    MaxNode = 1
    MaxPages = 1
    PageCap = 2
    MaxXid = 2
    MaxEdges = 1
    Task <- UpdateAndVacuum
    Repeatable = {}
SPECIFICATION Spec
INVARIANT HeaderKept
CHECK_DEADLOCK FALSE
