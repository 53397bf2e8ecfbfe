SPECIFICATION FairSpec
CONSTANTS
    Sub4 <- MCOneBuild
    NTasks = 2
    GateN = 1
    Modes = {"chain", "faulty", "takeover"}
INVARIANT NothingPerturbs
INVARIANT AnswersAreTheBuilds
INVARIANT Sub4Intact
INVARIANT NoServerOutlivesItsArm
PROPERTY AnswersKept
PROPERTY ChainCompletes
PROPERTY AttributionCompletes
CHECK_DEADLOCK FALSE
