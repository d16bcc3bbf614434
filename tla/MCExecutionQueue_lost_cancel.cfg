SPECIFICATION Spec
CONSTANTS
    Workers = {w1}
    Clients = {c1}
    Owners = {o1}
    Kinds <- MCArtifact
    HandledKinds <- MCArtifact
    Goals = {g1}
    MaxAttempts = 1
    ClassCap <- MCUnbounded
    OwnerCap = 3
    SchedulingEnabled = TRUE
    ClientOps <- MCCancel
    MaxJobs = 1
    MaxCrashes = 0
    NoRow = NoRow
    NoWorker = NoWorker
INVARIANTS
    AcknowledgedCancelHonoured
