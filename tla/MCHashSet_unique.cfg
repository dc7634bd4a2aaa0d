SPECIFICATION Spec
CONSTANTS
    Keys = {"a", "b", "d", "g", "i"}
    djb2 <- MCdjb2
    sdbm <- MCsdbm
    IntMax = 32767
    NULL = NULL
    DELETED = DELETED
    HT_BASE_SIZE = 2
    MaxSize = 23
INVARIANT NoDuplicates
