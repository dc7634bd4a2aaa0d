SPECIFICATION Spec
SYMMETRY Symmetry
CONSTANTS
    Keys = {k1, k2}
    Names = {f, g}
    Words = {w}
    EMPTY = EMPTY
    MINUS = MINUS
    Padded = {1}
    IntMax = 1
    NULL = NULL
    GARBAGE = GARBAGE
    MaxLength = 2
    MaxItems = 2
    Given <- MCGiven
INVARIANTS
    TypeOK
PROPERTIES
    RepliesCount
    ArraysAgree
    TypeIsKept
CHECK_DEADLOCK FALSE
