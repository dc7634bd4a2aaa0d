SPECIFICATION SpecKey
CONSTANTS
    Keys = {"a", "b", "d", "g", "i"}
    djb2 <- MCdjb2
    sdbm <- MCsdbm
    IntMax = 32767
    Values = {v1}
    NULL = NULL
    DELETED = DELETED
    HT_BASE_SIZE = 2
    MaxSize = 23
    MaxItems = 2
INVARIANT EmptyHashIsDeleted
