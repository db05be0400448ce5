SPECIFICATION FairSpec
CONSTANTS
    MaxHandlers = 3
    MaxEvents = 3
    MaxSuspend = 1
    MaxPending = 3
INVARIANTS
    TypeOK
    CursorInList
    NoTombstoneAtRest
PROPERTIES
    EveryLiveHandlerNotified
    TombstonesFreed

