SPECIFICATION Spec
CONSTANTS
    c1 = c1  x1 = x1  p1 = p1  p2 = p2
    Confirmations <- OneConfirmation
    Others = {}
    Poison = {}
    Replicas <- TwoReplicas
    MaxDeliver = 2
    MaxFaults = 1
INVARIANTS
    MaxRetryMessagesAreDead
CHECK_DEADLOCK FALSE
