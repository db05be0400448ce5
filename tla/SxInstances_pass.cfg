SPECIFICATION Spec
CONSTANTS
    d1 = d1
    d2 = d2
    Dialogs = {d1, d2}
    Total = 0
    Remind = 1
    Database = FALSE
    MaxDate = 2
    MaxFailures = 1
    MaxChanges = 3
    MaxDeferred = 2
SYMMETRY Symmetry
INVARIANTS
    TypeOK
    RemindersLastUnlessExposed
    NoneForgottenUnlessWithdrawn
    CreatedOnceUnlessExposed
