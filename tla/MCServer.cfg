SPECIFICATION ServerSpec
CONSTANTS
    h1 = h1
    h2 = h2
    h3 = h3
    Handlers <- ThreeHandlers
    Sizes <- TwoSizes
    ChunkBytes = 2
    MaxInflightBytes = 5
    MaxResponseBytes = 4
    Requests <- SomeRequests
    MaxRequests = 4
INVARIANTS ServerTypeOK ReservationsAddUp TransfersFit HitsAreServed ReadersAreCounted
PROPERTIES LargestCanRun ReservationsEnd
\* Every request may have been answered.
CHECK_DEADLOCK FALSE
