SPECIFICATION Spec
CONSTANTS
    f = f
    s1 = s1
    Cell <- MCCell4
    Name <- MCName
    Site <- MCSite
    NameOf <- MCNameOf
    MaxVersion = 3
    Anonymous = FALSE
INVARIANTS CachesTransparent
