\* Local store, every fault, retries only when nothing is pending.
CONSTANTS
    NumQualities = 2
    Task = {t1, t2, t3}
    UploadTask = t1
    MaxRetry = 1
    Remote = FALSE
    AdminWaits = TRUE
    Faults <- EveryFault
SYMMETRY Interchangeable
SPECIFICATION Spec
INVARIANTS
    TypeOK
    ReadyIsPlayable
    
    ProgressIsHonest
PROPERTIES
    FollowsLifecycle
CHECK_DEADLOCK FALSE
