SPECIFICATION FairSpec
CONSTANTS
    p1 = p1
    p2 = p2
    Procs = {p1, p2}
    Modes <- CreateAndOpen
    Retention = "FOREVER"
    HardLinks = TRUE
    ShortWrites = FALSE
    BreakLive = FALSE
    MaxVersion = 4
    MaxFaults = 2
    MaxCrashes = 1
INVARIANTS
    SavedSurvivesByName
PROPERTIES
    RetrySucceeds
CHECK_DEADLOCK FALSE
