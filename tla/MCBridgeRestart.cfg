CONSTANTS
    e1 = e1
    e2 = e2
    a1 = a1
    a2 = a2
    a3 = a3
    None = None
    Endpoints <- MCOneEndpoint
    ExtPorts <- NoNames
    AddPorts <- NoNames
    PatchNames <- NoNames
    LbPort = 99
    MaxPort = 2
    HasLocal = FALSE
    MaxFaults = 0
    MaxChanges = 0
    MaxRestarts = 1
SPECIFICATION Spec
PROPERTY RestartKeepsPorts
CHECK_DEADLOCK FALSE
