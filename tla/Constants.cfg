SPECIFICATION Spec
CONSTANTS
    Files = {"lib"}
    Classes = {"C1"}
    Depth = 4
    Nesting = 4
    Slots = 1
    Values = 2
    Methods = 1
INVARIANT CacheTransparent
INVARIANT SearchesAsRuby
PROPERTY RequiredOnce
