SPECIFICATION Spec
CONSTANTS
    ARMS <- MCARMS
    Wants <- MCWants
    ServerArms <- MCServerArms
    Depths = 2
    MaxRuns = 2
INVARIANT MeasuredUnderItsArm
INVARIANT MeasuredAlone
INVARIANT RevertUndoesTheArm
INVARIANT UnstableIsTheLast
CHECK_DEADLOCK FALSE
