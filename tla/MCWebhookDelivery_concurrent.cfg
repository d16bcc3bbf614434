SPECIFICATION FairSpec
CONSTANTS
    d1 = d1
    d2 = d2
    s1 = s1
    s2 = s2
    Flushers = {f1, f2}
    Routers = {r1}
    Operators = {}
    Dests = {d2}
    Signals = {s1, s2}
    Event = Event
    DestSubscription <- SubscriptionOf
    DestKind <- KindOf
    DestMaxAttempts <- MaxAttemptsOf
    DestMinSeverity <- MinSeverityOf
    DestAlertFilter <- AlertFilterOf
    DestEscalateAfter <- EscalateNever
    DestWindow <- WindowOf
    GlobalMaxAttempts = 2
    RedriveLimit = 1
    CooldownThreshold = 2
    CooldownOn = TRUE
    BatchLimit = 1
    OperatorOps = {"create", "delete"}
    MaxDeliveries = 2
    MaxSweeps = 1
    MaxCrashes = 1
    Unset = Unset
    NoDelivery = NoDelivery
INVARIANT RacesKeepVerdicts
PROPERTY SettledStaysSettled
PROPERTY PendingSettles
CHECK_DEADLOCK FALSE
