SPECIFICATION FairLinkSpec
CONSTANTS
    p1 = p1
    p2 = p2
    Askers = {p1, p2}
    Own = "own"
    Others = {"other"}
    Opportunities <- MCOpportunities
INVARIANTS
    ObservedOnly
PROPERTIES
    DetachedStays
    VerdictSettles
CHECK_DEADLOCK FALSE
