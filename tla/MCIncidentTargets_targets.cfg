SPECIFICATION FairSpec
CONSTANTS
    p1 = p1
    p2 = p2
    Procs = {p1, p2}
    Budgets <- MCBudgets
INVARIANTS
    TrustIsBacked
    PolicyIsLayered
PROPERTIES
    TrustReturns
CHECK_DEADLOCK FALSE
