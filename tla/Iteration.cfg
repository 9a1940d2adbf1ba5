SPECIFICATION Spec
CONSTANTS
    MaxLen = 4
    Depth = 2
    Ids = 16
    Nested = {"map", "uniq!", "Range#map"}
INVARIANT ResultsRooted
INVARIANT ReturnsAsRuby
INVARIANT RetainKeepsAll
