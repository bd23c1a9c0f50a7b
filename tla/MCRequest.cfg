SPECIFICATION RequestSpec
CONSTANTS
    MaxInt = 255
    MaxUint32 = 127
    PrefixCost = 4
    Requests <- MCRequests
    Limits <- MCLimits
    RawRequests <- MCRawRequests
    Environments <- MCEnvironments
    Defaults <- MCDefaults
INVARIANTS SizeIsExact AdviceIsTight
INVARIANTS AcceptsExactlyValid BlameIsFirst AcceptedFits
\* A request has one answer.
CHECK_DEADLOCK FALSE
