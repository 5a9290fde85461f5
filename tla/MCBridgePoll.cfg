CONSTANTS
    e1 = e1
    e2 = e2
    a1 = a1
    a2 = a2
    a3 = a3
    None = None
    Endpoints <- MCOneEndpoint
    ExtPorts <- MCPollExt
    AddPorts <- NoNames
    PatchNames <- MCPatch
    LbPort = 2
    MaxPort = 3
    HasLocal = TRUE
    MaxFaults = 1
    MaxChanges = 4
    MaxRestarts = 1
SPECIFICATION FairSpec
PROPERTY PollConfigures
CHECK_DEADLOCK FALSE
