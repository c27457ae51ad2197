SPECIFICATION FairSpec
CONSTANTS
    Task = {1, 2, 3, 4}
    Unreadable = {3}
    BatchSize = 2
    MaxTxRetries = 5
INVARIANTS
    TypeOK
    ClaimsOnlyWhenDrained
PROPERTIES
    NothingClaimedAfterError
    DueIsHandedOn
    HandsOnInOrder
