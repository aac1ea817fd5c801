SPECIFICATION Spec
CONSTANTS
    Statements <- StatementList
    Queries <- QueryList
    Asks <- AskList
    Params <- ParamList
    MaxNode = 3
    MaxEdge = 3
INVARIANTS
    TypeOK
    LabelIndexExact
    PropIndexExact
    EdgesAnchored
    ReadsExact
    TernaryPartition
    MergeIdempotent
    
CHECK_DEADLOCK FALSE
