SPECIFICATION Spec
CONSTANTS
    p1 = p1  p2 = p2
    Outboxes <- SharedStream
    Replicas <- TwoReplicas
    MaxId = 2
    BatchSize = 2
    MaxFaults = 1
INVARIANTS
    TypeOK
    MarkedIsStored
    DuplicatesNeedFaults
PROPERTIES
    ImplementsOutbox
CHECK_DEADLOCK FALSE
