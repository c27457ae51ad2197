SPECIFICATION StartedSpec
CHECK_DEADLOCK FALSE
CONSTANTS
    t1 = t1
    t2 = t2
    t3 = t3
    t4 = t4
    t5 = t5
    a = a
    b = b
    Queue = {a, b}
    Task = {t1, t2, t3, t4, t5}
    TaskQueue <- ThreeOfB
    Unreadable = {t5}
    BufferSize = 1
    Limit = 3
    Mortal = {b}
INVARIANTS
    TypeOK
    ClaimsAreAccountedFor
    ChannelsAreBounded
PROPERTIES
    DriverKeepsRunning
    QueuesAreLines
