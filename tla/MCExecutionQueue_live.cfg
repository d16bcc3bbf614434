SPECIFICATION FairSpec
CONSTANTS
    Workers = {w1, w2}
    Clients = {c1, c2}
    Owners = {o1}
    Kinds <- MCTwoKinds
    HandledKinds <- MCArtifact
    Goals = {g1}
    MaxAttempts = 2
    ClassCap <- MCOneEach
    OwnerCap = 1
    SchedulingEnabled = TRUE
    ClientOps <- MCNoCancel
    MaxJobs = 2
    MaxCrashes = 0
    NoRow = NoRow
    NoWorker = NoWorker
INVARIANTS
    OneActivePerKey
PROPERTIES
    EveryJobEnds
