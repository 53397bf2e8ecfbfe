SPECIFICATION FairSpec
CONSTANTS
    NEntries = 2
    Limit = 2
    MaxRuns = 2
    MaxRows = 2
INVARIANT PeakIsTheBenchs
INVARIANT OkRowsAreWhole
PROPERTY MatrixEnds
CHECK_DEADLOCK FALSE
