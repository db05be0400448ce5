SPECIFICATION Spec
CONSTANTS
    p1 = p1
    p2 = p2
    Procs = {p1, p2}
    Modes <- CreateAndOpen
    Retention = "FOREVER"
    HardLinks = FALSE
    ShortWrites = TRUE
    BreakLive = FALSE
    MaxVersion = 3
    MaxFaults = 1
    MaxCrashes = 0
INVARIANTS
    CleanMeansStored
CHECK_DEADLOCK FALSE
