SPECIFICATION Spec
CONSTANTS
    Entities = {"split"}
    TypeOf <- EntityTypes
    Events = {"modify"}
    MaxComponents = 3
    MaxWatches = 1
    MaxSuspends = 1
INVARIANTS
    TypeOK
    NothingForgotten
    DeliveredUnlessLate
    ClosingFollowsLive
