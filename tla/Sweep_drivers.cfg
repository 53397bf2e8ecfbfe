SPECIFICATION FairSpec
CONSTANTS
    Drivers = {"placement", "depth", "cell", "speed", "xcheck", "moe", "probes", "stack", "roundbudget", "nsys"}
    NCells = 2
    Reps = 2
    MaxRuns = 2
INVARIANT MeasuredAlone
INVARIANT NoOrphanWithoutAKill
PROPERTY ResumeKeepsAndRetries
PROPERTY SweepEnds
CHECK_DEADLOCK FALSE
