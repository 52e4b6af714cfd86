\* The queue is down while a video is uploaded.
CONSTANTS
    NumQualities = 2
    Task = {t1, t2}
    UploadTask = t1
    MaxRetry = 1
    Remote = FALSE
    AdminWaits = TRUE
    Faults <- QueueIsDown
SPECIFICATION Spec
INVARIANTS
    UnqueuedIsRetryable
CHECK_DEADLOCK FALSE
