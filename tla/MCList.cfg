SPECIFICATION FairSpec
CONSTANTS
    Nodes = {n1, n2, n3}
    Values = {x, y}
    Ids <- MCIds
    Counts <- MCCounts
    NULL = NULL
    OK = OK
    RangeError = RangeError
INVARIANTS
    TypeOK
    WellLinked
    NoUseAfterFree
PROPERTIES
    RefinesContents
    LoopsEnd
