SPECIFICATION Arguments
CONSTANTS
    Keys <- MCKeys
    djb2 <- MCdjb2
    sdbm <- MCsdbm
    IntMax = 32767
    MaxArgument = 181
    Hashes = {0, 1, 2, 3, 10, 97, 177673}
    MaxText = 4
    Nil = Nil
INVARIANTS
    SizesAreRight
    ProbesCoverAll
    TextsSurvive
    BuffersSuffice
CHECK_DEADLOCK FALSE
