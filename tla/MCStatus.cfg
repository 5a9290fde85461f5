SPECIFICATION FairSpec
CONSTANTS
    Containers <- MCContainers
    Pool <- MCPool
    Clients <- MCClients
    ChanSize = 1
    MaxJoins = 2
INVARIANT TypeOK
INVARIANT StatusAddress
INVARIANT RequestsKept
PROPERTY StatusCatchesUp
PROPERTY WebAnswered
CHECK_DEADLOCK FALSE
