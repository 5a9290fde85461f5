CONSTANTS
    n1 = n1
    n2 = n2
    e1 = e1
    e2 = e2
    Networks <- MCNetworks
    Endpoints <- MCEndpoints
    NetOf <- SameNet
    ChanSize = 2
    MaxFaults = 0
SPECIFICATION Spec
INVARIANT QuitDrains
CHECK_DEADLOCK FALSE
