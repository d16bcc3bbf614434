SPECIFICATION FairSpec
CONSTANTS
    Turns = {t1, t2}
    Messages <- MCMessages
    Budgets <- MCBudgets
    MaxFlows = 6
    QuotaLimit = 1
    PendingCap = 1
INVARIANTS
    ApprovalsBoundRuns
    QuotaOvershoot
PROPERTIES
    ApprovedActs
    PlansAreOneShot
CHECK_DEADLOCK FALSE
