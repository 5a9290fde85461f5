CONSTANTS
    n1 = n1
    n2 = n2
    n3 = n3
    Networks <- MCTwo
    Flat <- MCFlat
    Found <- FoundAny
    Sharing = "none"
    MaxFaults = 0
    MaxRaces = 0
SPECIFICATION Spec
INVARIANT RecoverySurvives
CHECK_DEADLOCK FALSE
