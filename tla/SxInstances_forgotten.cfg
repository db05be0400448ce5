SPECIFICATION Spec
CONSTANTS
    d1 = d1
    Dialogs = {d1}
    Total = 0
    Remind = 0
    Database = FALSE
    MaxDate = 2
    MaxFailures = 0
    MaxChanges = 2
    MaxDeferred = 2
INVARIANT NoneForgotten
