SPECIFICATION Spec
CONSTANTS
    m1 = m1  x1 = x1  s1 = s1  s2 = s2  p1 = p1  p2 = p2
    Releases <- OneRelease
    Poison <- OnePoison
    Subscribers <- TwoSubscribers
    Replicas <- TwoReplicas
    MaxDeliver = 2
    MaxFaults = 2
INVARIANTS
    TypeOK
    SteadySubscribersAreNotified
    OnlyTheConfirmedAreTold
    SurplusRowsNeedFaults
PROPERTIES
    ReleasesAreFannedOut
CHECK_DEADLOCK FALSE
