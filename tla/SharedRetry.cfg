SPECIFICATION FairSpec
CONSTANTS
    j1 = j1
    i1 = i1
    i2 = i2
    q1 = q1
    Instance = {i1, i2}
    NONE = NONE
    KeepAlive = 1
    ReenqueueAfter = 1
    MaxDelay = 0
    Job = {j1}
    Queue = {q1}
    JobQueueOf <- SameQueue
    InstQueueOf <- SameQueueI
    MaxAttempts <- TwoAttempts
    Priority <- NoPriority
    Key <- NoKeys
    SharedInst = {i1, i2}
    Storage <- OwnStorage
    Decodes <- EveryCodec
    Mortal = {}
    BatchSize = 1
    CopyId = {1}
    AttemptCap = 4
PROPERTIES
    FailedRunsAgain
