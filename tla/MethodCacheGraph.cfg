SPECIFICATION Spec
CONSTANTS
    f = f
    s1 = s1
    Cell <- MCCell6
    Name <- MCNone
    Site <- MCNone
    NameOf <- MCNoNameOf
    MaxVersion = 3
    Anonymous = TRUE
INVARIANTS ChainsAllocated
PROPERTIES AncestorsKept ModuleReachesSubclasses
