SPECIFICATION Spec
CONSTANTS
    n1 = n1
    n2 = n2
    n3 = n3
    Networks <- MCThree
    NatNets <- MCOne
    Usings <- MCUsings
    HasIn = TRUE
    MaxPort = 5
    LocalPorts <- MCOnly
    MaxFaults = 1
    MaxDeaths = 1
SYMMETRY MCSymmetry
INVARIANT TypeOK
INVARIANT LinksAgree
INVARIANT MirrorTagged
INVARIANT DeleteIsClean
CHECK_DEADLOCK FALSE
