CONSTANTS
    o1 = o1
    w1 = w1
    w2 = w2
    NoId = NoId
    Unset = Unset
    Ops <- OneOp
    Workers <- MCWorkers
    Ids = {1, 2, 3}
    MaxAge = 1
    ReclaimCount = 1
    MaxFaults = 0
SPECIFICATION Spec
INVARIANTS
    NoPhantomBacklog
