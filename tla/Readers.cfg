SPECIFICATION FairSpec
CHECK_DEADLOCK FALSE
CONSTANTS
    i1 = i1
    NONE = NONE
    Job = {1, 2, 3}
    Instance = {i1}
    Asked = {1, 2}
    Unreadable = {2}
    Queue = {"a", "b"}
    QueueOf <- TwoOfA
    RunAt <- TwoTimes
    DayLength = 2
    ActivityDays = 2
    MaxNow = 5
    Worker = {1, 2, 3}
    WorkerQueue <- TwoWorkA
    Timed = {1, 2}
    BadArgs = {3}
    PageSize = 1
    Window = 1
    WorkerLimit = 1
INVARIANTS
    TypeOK
    EndIsComplete
    ReportedOnceAndFinal
    BarsAreWholeDays
    NoNegativeDuration
    QuietBoardAgrees
    PagesAddUp
    LiveWorkersAreListed
PROPERTIES
    WaitEnds
