SPECIFICATION FairSpec
CONSTANTS
    Keys = {"a", "b", "d", "g", "i"}
    djb2 <- MCdjb2
    sdbm <- MCsdbm
    IntMax = 32767
    Values = {v1, v2}
    NULL = NULL
    DELETED = DELETED
    HT_BASE_SIZE = 2
    MaxSize = 23
INVARIANTS
    TypeOK
    LookupFindsStored
    UsedBounds
    OneOwner
PROPERTIES
    RefinesDictionary
    OnlyZeroStepsAreLost
    ResizeEnds
