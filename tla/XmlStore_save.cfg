SPECIFICATION Spec
CONSTANTS
    p1 = p1
    p2 = p2
    Procs = {p1, p2}
    Modes <- AllModes
    Retention = "DAYS"
    HardLinks = FALSE
    ShortWrites = FALSE
    BreakLive = FALSE
    MaxVersion = 5
    MaxFaults = 2
    MaxCrashes = 1
SYMMETRY Symmetry
INVARIANTS
    TypeOK
    LockExclusive
    CleanMeansStored
    SavedSurvives
PROPERTIES
    SavesAreAtomic
CHECK_DEADLOCK FALSE
