CONSTANTS
    n1 = n1
    n2 = n2
    e1 = e1
    e2 = e2
    Networks <- MCNetworks
    Endpoints <- MCOneEndpoint
    NetOf <- OneEndpoint
    ChanSize = 2
    MaxFaults = 2
SPECIFICATION FairSpec
INVARIANT TypeOK
INVARIANT ServiceKept
INVARIANT WaitGroupExact
INVARIANT JoinSeesNetwork
INVARIANT HandlersInOrder
INVARIANT DeleteReplyIsClean
INVARIANT WaitersHaveWork
PROPERTY ImplementsService
PROPERTY LeaveReturns
PROPERTY JoinReturns
PROPERTY DeleteReturns
CHECK_DEADLOCK FALSE
