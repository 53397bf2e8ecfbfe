SPECIFICATION ReadSpec
CONSTANTS
    MaxLines = 5
    MaxOps = 3
    MaxTime = 3
    NResults = 4
INVARIANT FirstBlockIsScored
INVARIANT ExamplesAreCallAndResult
INVARIANT BusyIsTheUnion
INVARIANT PValueIsExact
CHECK_DEADLOCK FALSE
