CONSTANTS
    e1 = e1
    e2 = e2
    a1 = a1
    a2 = a2
    a3 = a3
    None = None
    Endpoints <- MCTwoEndpoints
    ExtPorts <- MCTwoExt
    AddPorts <- MCOneExt
    PatchNames <- NoNames
    LbPort = 3
    MaxPort = 3
    HasLocal = FALSE
    MaxFaults = 1
    MaxChanges = 2
    MaxRestarts = 1
SPECIFICATION Spec
INVARIANT TypeOK
INVARIANT RecordedPortIsActual
INVARIANT ContainerHasInterface
INVARIANT LeaveIsClean
INVARIANT NoOrphanInterface
CHECK_DEADLOCK FALSE
