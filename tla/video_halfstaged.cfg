\* MinIO store, a worker that dies.
CONSTANTS
    NumQualities = 1
    Task = {t1}
    UploadTask = t1
    MaxRetry = 1
    Remote = TRUE
    AdminWaits = TRUE
    Faults <- WorkerDies
SPECIFICATION Spec
INVARIANT StagedRawIsWhole
CHECK_DEADLOCK FALSE
