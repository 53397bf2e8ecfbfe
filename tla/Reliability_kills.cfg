SPECIFICATION FairSpec
CONSTANTS
    Tasks = 2
    Budgets = {1, 2}
    MaxBudget = 2
    Limits = {1, 2}
    Pools = {1, 2}
    MaxRuns = 3
    TornWrites = TRUE
    KillRewrite = TRUE
INVARIANT RecordsWellFormed
INVARIANT DoneMeansSettled
PROPERTY SettledNeverRetried
PROPERTY TornLineCostsTwo
PROPERTY RunsFinish
CHECK_DEADLOCK FALSE
