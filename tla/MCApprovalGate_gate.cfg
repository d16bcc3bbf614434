SPECIFICATION FairSpec
CONSTANTS
    r1 = r1
    r2 = r2
    Requests = {q1, q2}
    Runs = {r1, r2}
    GoalsOf <- MCMixed
    MaxRetries = 2
    MaxCrashes = 1
    NoRun = NoRun
INVARIANTS
    CallsGoverned
    ResumeOwnsRun
    CompletedMeansDone
PROPERTIES
    SettledStays
    EveryRequestEnds
    ProcessingClears
CHECK_DEADLOCK FALSE
