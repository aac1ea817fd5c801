SPECIFICATION Spec
CONSTANTS
    Backends = {b1, b2}
    Labels = {A}
    Values = {u, v}
    Kinds = {"create_node", "update_node", "add_label", "remove_label", "delete_node", "detach_delete", "create_edge", "delete_edge", "set_edge", "clear", "rebuild"}
    IdBatch = 2
    MaxNode = 3
    MaxEdge = 5
    MaxOps = 2
    MaxResets = 1
SYMMETRY Symmetry
INVARIANTS EdgeIdsUnique StoresAgree FramesWellFormed  OldImagesExact
CHECK_DEADLOCK FALSE
