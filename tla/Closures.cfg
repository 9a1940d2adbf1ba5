SPECIFICATION Spec
CONSTANTS
    MaxCalls = 3
    MaxDepth = 6
    Val = {v1}
    Uninit = uninit
    Enumerators = FALSE
    CapturedBlocks = FALSE
INVARIANTS NoDangling MoveFinds
PROPERTIES LexicalScoping
CHECK_DEADLOCK FALSE
