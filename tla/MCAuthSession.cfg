SPECIFICATION Spec
CONSTANTS
    c1 = c1  c2 = c2
    Calls <- TwoCalls
    MaxPairs = 3
    MaxFaults = 1
INVARIANTS
    TypeOK
    OneLiveTokenPerLogin
    StoredPairIsBacked
PROPERTIES
    ImplementsSessions
    EveryCallReturns
CHECK_DEADLOCK FALSE
