SPECIFICATION Spec
CONSTANTS
    t1 = t1
    t2 = t2
    s1 = s1
    s2 = s2
    s3 = s3
    a1 = a1
    Imbalance = Imbalance
    Orphan = Orphan
    Trans = {t1, t2}
    Splits = {s1, s2, s3}
    UserAccounts = {a1}
    Values <- Entered
    MaxNest = 1
    MaxCalls = 5
    MaxValue = 1
    Rollbacks = FALSE
    Clears = TRUE
    MaxRefused = 2
SYMMETRY Symmetry
INVARIANTS
    MembershipAgrees
    BalanceIsSum
CHECK_DEADLOCK FALSE
