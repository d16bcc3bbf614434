SPECIFICATION FairSpec
CONSTANTS
    p1 = p1
    p2 = p2
    a = a
    b = b
    c = c
    d = d
    Procs = {p1, p2}
    Docs = {a, b, c, d}
    Pages <- MCPages
    ChunkSize = 4
    Overlap = 1
    MinLen = 2
    MaxId = 3
    Budgets <- MCBudgets
INVARIANTS
    ListedIsFound
    OwnText
    StoresAccounted
PROPERTIES
    RequestsEnd
CHECK_DEADLOCK FALSE
