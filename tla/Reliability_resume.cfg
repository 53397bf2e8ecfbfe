SPECIFICATION Spec
CONSTANTS
    Tasks = 2
    Budgets = {1, 2}
    MaxBudget = 2
    Limits = {1, 2}
    Pools = {1, 2}
    MaxRuns = 3
    TornWrites = FALSE
    KillRewrite = FALSE
PROPERTY LedgerSpec
CHECK_DEADLOCK FALSE
