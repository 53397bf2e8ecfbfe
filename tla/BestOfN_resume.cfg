SPECIFICATION Spec
CONSTANTS
    NTasks = 2
    Examples = {1}
    Ks = {1, 2}
    MaxRuns = 3
INVARIANT WallTimeHonest
 
PROPERTY FinishedTasksKept
CHECK_DEADLOCK FALSE
