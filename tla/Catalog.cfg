SPECIFICATION Spec
CONSTANTS
    Backends = {b1, b2}
    Labels = {A}
    Key = key
    Values = {x}
    NoVal = noval
    Apis = {"cypher"}
    MaxNode = 3
    MaxName = 4
    MaxStmt = 5
SYMMETRY Symmetry
INVARIANTS TypeOK IdsRegistered IndexExact UniqueHolds
CHECK_DEADLOCK FALSE
