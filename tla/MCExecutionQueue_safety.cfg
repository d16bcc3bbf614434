SPECIFICATION Spec
CONSTANTS
    Workers = {w1, w2}
    Clients = {c1}
    Owners = {o1}
    Kinds <- MCArtifact
    HandledKinds <- MCArtifact
    Goals = {g1}
    MaxAttempts = 2
    ClassCap <- MCUnbounded
    OwnerCap = 3
    SchedulingEnabled = TRUE
    ClientOps <- MCNoReplay
    MaxJobs = 2
    MaxCrashes = 1
    NoRow = NoRow
    NoWorker = NoWorker
SYMMETRY Symmetric
INVARIANTS
    IInv
    InFlightIsExecuted
    OneActivePerKey
PROPERTIES
    ImplementsJobLease
