SPECIFICATION FairSpec
CONSTANTS
    Clients = {c1, c2}
    Kinds = {"short", "long", "quit", "shutdown"}
    LongClients = {c1}
    MaxRequests = 4
    Backlog = 1
    LongReply = 3
    ReadSize = 2
    NULL = NULL
INVARIANTS
    TypeOK
    InStep
PROPERTIES
    KilledOnlyByItsClient
    EveryClientIsServed
    EveryWaitEnds
CHECK_DEADLOCK FALSE
