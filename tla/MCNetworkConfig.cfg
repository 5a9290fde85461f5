SPECIFICATION Spec
CONSTANTS
    Ifs <- MCIfs
    CoproIfs <- MCCopro
    Order <- MCOrder
    Requests <- MCRequests
    IPv4 <- MCIPv4
    MaxPort = 5
    MaxRestarts = 1
INVARIANT TypeOK
INVARIANT AcceptedIsConfigured
INVARIANT ExternalPortsConfigured
INVARIANT AclOnItsPort
INVARIANT AddressKept
 
CHECK_DEADLOCK FALSE
