SPECIFICATION Spec
CONSTANTS
    c1 = c1  c2 = c2
    Calls <- TwoCalls
    MaxPairs = 3
    MaxFaults = 0
INVARIANTS
    ExpiredAccessIsNotSurfaced
CHECK_DEADLOCK FALSE
