CONSTANTS
    r1 = r1
    r2 = r2
    alice = alice
    bob = bob
    root = root
    p1 = p1
    p2 = p2
    probe = probe
    g1 = g1
    nobody = nobody
    NoUser = NoUser
    NoPost = NoPost
    Users = {alice, bob, root}
    Superusers = {root}
    Publishers = {alice, root}
    Posts <- MCPosts
    Audience <- MCAudience
    Probes = {probe}
    Requests <- MCRequests
    Prices = {1}
    StartingTokens = 1
    MaxFaults = 0
    Clients <- MCRequests
    Accounts = {alice, bob}
    Identities = {g1}
    AddressOf <- MCAddressOf
    Elsewhere = nobody
    MaxResetAttempts = 1
    MaxResets = 2
    Forgetful = {alice}
SPECIFICATION AccountAlone
SYMMETRY MCSymmetry
INVARIANTS
    UserCountersExact
CHECK_DEADLOCK FALSE
