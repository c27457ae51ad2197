SPECIFICATION FairSpec
CONSTANTS
    m0 = m0
    m1 = m1
    m2 = m2
    m3 = m3
    p1 = p1
    p2 = p2
    NoKey = NoKey
    Sink = {p1, p2}
    Msg = {m0, m1, m2, m3}
    Present = {m0}
    SinkOf <- TwoSinks
    QueueOf <- OneQueue
    Id <- IdOfM0Again
    Key <- OneKey
    MaxTxRetries = 2
INVARIANTS
    TypeOK
    NothingForgotten
    KeysAreUnique
PROPERTIES
    ConflictsAreRetried
    SentIsSettled
