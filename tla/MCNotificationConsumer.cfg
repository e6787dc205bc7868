SPECIFICATION Spec
CONSTANTS
    c1 = c1  x1 = x1  p1 = p1  p2 = p2
    Confirmations <- OneConfirmation
    Others = {}
    Poison <- OnePoison
    Replicas <- TwoReplicas
    MaxDeliver = 3
    MaxFaults = 3
INVARIANTS
    TypeOK
    AckedIsHandled
    GivingUpIsLastResort
    DuplicateMailNeedsFault
PROPERTIES
    EveryMessageSettles
    EveryConfirmationAnswered
CHECK_DEADLOCK FALSE
