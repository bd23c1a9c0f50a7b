SPECIFICATION Spec
CONSTANTS
    Prefixes <- MCPrefixes
    StringCost <- MCStringCost
    PrefixCost = 10
    CountCost = 1
    MaxLimit = 3
    MaxBytes = 37
    Span = 4
    MaxHits = 3
INVARIANTS LeaderIsExact KeysAreDistinct ChargeIsExact
PROPERTY CountsExactly
