SPECIFICATION FairSpec
CONSTANT Iters = 3
INVARIANT JoinAfterBothSplits
INVARIANT NoJobDropped
INVARIANT WorkerUsesLiveObjects
PROPERTY JoinsInSeries
PROPERTY LoopEnds
CHECK_DEADLOCK FALSE
