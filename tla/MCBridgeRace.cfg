CONSTANTS
    e1 = e1
    e2 = e2
    a1 = a1
    a2 = a2
    a3 = a3
    None = None
    Endpoints <- MCTwoEndpoints
    ExtPorts <- MCOneExt
    AddPorts <- NoNames
    PatchNames <- NoNames
    LbPort = 99
    MaxPort = 3
    HasLocal = TRUE
    MaxFaults = 0
    MaxChanges = 2
    MaxRestarts = 0
SPECIFICATION Spec
INVARIANT ContainersApart
CHECK_DEADLOCK FALSE
