\* A retry is requested while asynq still has one of its own scheduled.
CONSTANTS
    NumQualities = 1
    Task = {t1, t2}
    UploadTask = t1
    MaxRetry = 1
    Remote = FALSE
    AdminWaits = FALSE
    Faults <- BadSource
SPECIFICATION Spec
PROPERTIES
    ReadyIsFinal
CHECK_DEADLOCK FALSE
