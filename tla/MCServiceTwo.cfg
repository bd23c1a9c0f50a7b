SPECIFICATION ServiceSpec
CONSTANTS
    r1 = r1
    r2 = r2
    a = a
    b = b
    Replicas <- TwoReplicas
    Mortal <- NoReplica
    Asked <- TwoReplicas
    Stopped <- NoReplica
    Keys <- TwoKeys
    LocalCost <- Cheap1
    RedisCost <- Cheap2
    MaxBytes = 3
    MaxHits = 1
SYMMETRY AlikeReplicas
INVARIANT WarningsAreTrue
PROPERTY AnswersNeverGoBack
