SPECIFICATION FairSpec
CHECK_DEADLOCK FALSE
CONSTANTS
    Task = {t1, t2, t3}
    BatchSize = 2
    BackoffBase = 1
    BackoffCap = 3
    MaxNotes = 1
    MaxFails = 2
INVARIANTS
    TypeOK
    BackoffIsDoubled
    WakesCoverDue
PROPERTIES
    DueReachesAWorker
