SPECIFICATION FairService
CONSTANTS
    r1 = r1
    r2 = r2
    a = a
    b = b
    Replicas <- OneReplica
    Mortal <- OneReplica
    Asked <- OneReplica
    Stopped <- OneReplica
    Keys <- OneKey
    LocalCost <- Cheap1
    RedisCost <- Cheap2
    MaxBytes = 6
    MaxHits = 3
PROPERTIES FreshAnswersShowOwnHits CleanStopLosesNothing CallersEnd
\* Every process may have shut down.
CHECK_DEADLOCK FALSE
