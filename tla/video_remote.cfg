\* MinIO store, every fault but the loss of the worker process.
CONSTANTS
    NumQualities = 2
    Task = {t1, t2}
    UploadTask = t1
    MaxRetry = 1
    Remote = TRUE
    AdminWaits = TRUE
    Faults <- WorkerStaysUp
SPECIFICATION FairSpec
INVARIANTS
    StagedRawIsWhole
    DoneIsServed
    PublishedIsNeverLost
PROPERTY ReadyGetsServed
CHECK_DEADLOCK FALSE
