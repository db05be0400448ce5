SPECIFICATION Spec
CONSTANTS
    None = None
    Other = Other
    Orphan = Orphan
    s1 = s1
    s2 = s2
    s3 = s3
    file = file
    database = database
    Sessions = {s1, s2, s3}
    Uris = {file, database}
    Sql = {database}
    MaxVersion = 3
    MaxDepth = 4
SYMMETRY Names
INVARIANTS
    TypeOK
    SessionsInPlace
    LocksAreUsed
    CleanUnlessDetached
PROPERTIES
    DiscardsAsked
CHECK_DEADLOCK FALSE
