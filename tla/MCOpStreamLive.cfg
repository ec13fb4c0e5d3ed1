CONSTANTS
    o1 = o1
    w1 = w1
    w2 = w2
    NoId = NoId
    Unset = Unset
    Ops <- OneOp
    Workers <- MCWorkers
    Ids = {1, 2, 3, 4, 5}
    MaxAge = 2
    ReclaimCount = 2
    MaxFaults = 1
SPECIFICATION FairSpec
INVARIANTS
    TypeOK
    NoOpLost
    NoEntryStranded
PROPERTIES
    ImplementsDelivery
    PendingClears
