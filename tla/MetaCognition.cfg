SPECIFICATION FairSpec
CONSTANTS
    None = None
    c1 = c1
    c2 = c2
    Callers = {c1, c2}
    Copies = {1}
    RestartCycles = FALSE
    MaxDirectives = 1
    MaxShutdowns = 1
INVARIANTS
    TypeOK
    SessionOutlivesWorkers
    ReportsAgree
PROPERTIES
    CallsReturn
