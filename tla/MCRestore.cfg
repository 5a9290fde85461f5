CONSTANTS
    n1 = n1
    n2 = n2
    n3 = n3
    Networks <- MCThree
    Flat <- MCFlat
    Found <- FoundAny
    Sharing = "mirror"
    MaxFaults = 2
    MaxRaces = 1
SPECIFICATION FairSpec
INVARIANT TypeOK
INVARIANT ServesRestored
INVARIANT BadBridgesSurvived
PROPERTY HealthyKept
PROPERTY RestartsEnd
PROPERTY RestoreConverges
CHECK_DEADLOCK FALSE
