SPECIFICATION FairSpec
CONSTANTS
    Letters = {"a", "b"}
    Blank = " "
    Quotes = {SingleQuote, DoubleQuote}
    NUL = NUL
    CommandNames <- MCCommandNames
    NULL = NULL
    MaxLength = 5
INVARIANTS
    TypeOK
    WalksAgree
    TokensAreRight
PROPERTIES
    ParseEnds
