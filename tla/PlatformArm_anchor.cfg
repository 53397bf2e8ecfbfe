SPECIFICATION Spec
CONSTANTS
    Sub4 <- MCOneBuild
    NTasks = 2
    GateN = 1
    Modes = {"takeover"}
INVARIANT AnchorIntact
CHECK_DEADLOCK FALSE
