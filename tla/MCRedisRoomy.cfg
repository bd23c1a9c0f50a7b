SPECIFICATION FairSpec
CONSTANTS
    r1 = r1
    r2 = r2
    a = a
    b = b
    Replicas <- TwoReplicas
    Mortal <- OneReplica
    Keys <- TwoKeys
    LocalCost <- Cheap1
    RedisCost <- Cheap2
    MaxBytes = 6
    MaxHits = 2
INVARIANT NoHitLost
PROPERTY NoHitWaitsForever
