SPECIFICATION FairSpec
CONSTANTS
    p1 = p1
    p2 = p2
    Procs = {p1, p2}
    Budgets <- MCBudgets
    MaxAttempts = 2
    MaxRedrives = 2
INVARIANTS
    SyncedWasTaken
    BudgetsKept
PROPERTIES
    RecordsDecided
    ClearedRecovers
    RaisedIsAudible
CHECK_DEADLOCK FALSE
