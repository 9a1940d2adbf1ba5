SPECIFICATION Spec
CONSTANTS
    MaxFrames = 6
    MaxDepth = 1
    MaxResults = 1
    Yields = FALSE
    Nested = FALSE
INVARIANTS OperandsFound StacksOfCallsInProgress
PROPERTIES JumpsLeadHome
CHECK_DEADLOCK FALSE
