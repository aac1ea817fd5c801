SPECIFICATION Spec
CONSTANTS
    Statements <- StatementsAll
    Queries <- QueryList
    Asks <- AskList
    Params <- ParamList
    MaxNode = 3
    MaxEdge = 3
INVARIANT PropIndexExact
CHECK_DEADLOCK FALSE
