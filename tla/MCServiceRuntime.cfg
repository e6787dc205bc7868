SPECIFICATION Spec
CONSTANTS
    Deployments <- TwoDeployments
    Clients <- OneClient
    MaxFaults = 2
INVARIANTS
    TypeOK
    PoolOutlivesRequests
    DeafOnlyAfterOutage
PROPERTIES
    EveryServiceServes
    DeliveryResumes
    RotationIsPickedUp
CHECK_DEADLOCK FALSE
