SPECIFICATION Spec
CONSTANTS
    d1 = d1
    d2 = d2
    s1 = s1
    s2 = s2
    Flushers = {f1}
    Routers = {r1, r2}
    Operators = {o1, o2}
    Dests = {d1}
    Signals = {s1}
    Event = Event
    DestSubscription <- SubscriptionOf
    DestKind <- KindOf
    DestMaxAttempts <- MaxAttemptsOf
    DestMinSeverity <- MinSeverityOf
    DestAlertFilter <- AlertFilterOf
    DestEscalateAfter <- EscalateAfterTwo
    DestWindow <- WindowOf
    GlobalMaxAttempts = 2
    RedriveLimit = 1
    CooldownThreshold = 2
    CooldownOn = TRUE
    BatchLimit = 2
    OperatorOps = {"redrive", "clear_cooldown", "update"}
    MaxDeliveries = 4
    MaxSweeps = 3
    MaxCrashes = 0
    Unset = Unset
    NoDelivery = NoDelivery
SYMMETRY Threads
INVARIANT VerdictsJustified
INVARIANT OneOpenPerSignal
INVARIANT RedrivesBounded
CHECK_DEADLOCK FALSE
