SPECIFICATION ServiceSpec
CONSTANTS
    r1 = r1
    r2 = r2
    a = a
    b = b
    Replicas <- OneReplica
    Mortal <- NoReplica
    Asked <- NoReplica
    Stopped <- OneReplica
    Keys <- OneKey
    LocalCost <- Cheap1
    RedisCost <- Cheap2
    MaxBytes = 6
    MaxHits = 2
PROPERTY StopLosesNothing
\* Every process may have shut down.
CHECK_DEADLOCK FALSE
