SPECIFICATION Spec
CONSTANTS
    p1 = p1
    p2 = p2
    t1 = t1
    t2 = t2
    Procs = {p1, p2}
    Tables = {t1, t2}
    Modes <- WriteModes
    BreakLive = FALSE
    MaxVersion = 5
    MaxFaults = 3
    MaxCrashes = 3
SYMMETRY Symmetry
CONSTRAINT Claimed
INVARIANTS
    TypeOK
    LockExclusive
    NothingLost
    LoadedIsSaved
PROPERTIES
    SavesAreAtomic
CHECK_DEADLOCK FALSE
