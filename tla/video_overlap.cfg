\* Local store, retries while tasks are pending: two attempts may overlap.
CONSTANTS
    NumQualities = 2
    Task = {t1, t2}
    UploadTask = t1
    MaxRetry = 1
    Remote = FALSE
    AdminWaits = FALSE
    Faults <- FailingTools
SPECIFICATION FairSpec
INVARIANTS
    ProcessingIsOwned
    
PROPERTY ProcessingEnds
CHECK_DEADLOCK FALSE
