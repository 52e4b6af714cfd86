\* An attempt outlives its deadline, or the worker is restarted in the middle of it.
CONSTANTS
    NumQualities = 2
    Task = {t1, t2}
    UploadTask = t1
    MaxRetry = 1
    Remote = FALSE
    AdminWaits = TRUE
    Faults <- CutShort
SPECIFICATION Spec
INVARIANTS
    NothingStranded
CHECK_DEADLOCK FALSE
