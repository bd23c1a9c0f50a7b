SPECIFICATION Spec
CONSTANTS
    Params <- MCParams
    Elements <- MCElements
    MapCap = 2
    MaxRuns = 3
INVARIANTS OneLiveRun VerdictIsTrue ShowsTheNewest
PROPERTY BusyEnds
\* The user may stop sending.
CHECK_DEADLOCK FALSE
