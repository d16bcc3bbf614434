SPECIFICATION FairSpec
CONSTANTS
    Manifests <- MCManifests
    Boot = TRUE
INVARIANTS
    CompletedIsVerified
    ValidationIsHonest
PROPERTIES
    RunEnds
CHECK_DEADLOCK FALSE
