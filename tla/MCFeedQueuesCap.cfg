CONSTANTS
    u1 = u1
    u2 = u2
    p1 = p1
    probe = probe
    w1 = w1
    w2 = w2
    r1 = r1
    System = System
    NoUser = NoUser
    NoPost = NoPost
    Users <- MCUsers
    Posts <- MCPosts
    Workers <- MCWorkers
    Reviews <- MCReviews
    Probes <- MCProbes
    AuthorOf <- MCAuthorOf
    MaxSlots = 1
    ExcludeSeen = TRUE
    Fanout = 2
    SampleSize = 2
SPECIFICATION Spec
SYMMETRY Symmetry
INVARIANTS
    QueueCapped
