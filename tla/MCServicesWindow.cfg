CONSTANTS
    u1 = u1
    u2 = u2
    p1 = p1
    probe = probe
    w1 = w1
    w2 = w2
    r1 = r1
    System = System
    NoUser = NoUser
    NoPost = NoPost
    Users <- MCUsers
    Posts <- MCPosts
    Workers <- MCRequests
    Reviews <- MCReviews
    Probes <- MCProbes
    AuthorOf <- MCAuthorOf
    MaxSlots = 1
    ExcludeSeen = TRUE
    Fanout = 2
    SampleSize = 2
    h1 = h1
    h2 = h2
    f1 = f1
    f2 = f2
    q1 = q1
    q2 = q2
    ch1 = ch1
    ch2 = ch2
    a1 = a1
    a2 = a2
    ip1 = ip1
    nobody = nobody
    Handlers <- MCRequests
    MaxPayments = 3
    MaxMollieSubs = 2
    MaxDisturbances = 1
    Refreshers = {f1, f2}
    Quoters = {q1, q2}
    Routes = {ch1}
    Loads <- MCLoads
    Crews <- MCCrews
    Troubled = {f1}
    PriceMin = 1
    PriceMax = 2
    TargetMin = 2
    RefreshSeconds = 2
    PriceTtl = 3
    MaxDelay = 1
    Requests <- MCRequests
    StartInputs <- MCStartInputs
    ReviewManners <- MCManners
    ForwardRates <- MCRates
    ProbeConfidence = 3
    VolumeNeutral = 1
    VolumeFull = 3
    AnomalyConfidence = 2
    MinGapReviews = 1
    FeedFanout = 3
    MaxReviews = 4
    MaxAnswers = 2
    MaxProbes = 2
    Requesters <- MCRequests
    Addresses = {a1, a2}
    FirstAddress = a1
    MaxCodeAttempts = 1
    MaxCodes = 2
    MaxChanges = 1
    Editors <- MCRequests
    Channels = {ch1, ch2}
    Languages = {"de", "en"}
    MaxAccidents = 1
    Visitors <- MCRequests
    Visits <- MCVisits
    Nobody = nobody
    Limits <- MCLimits
    Window = 3
    Second = 2
    MaxTime = 4
    Uploads <- MCRequests
    Submissions <- MCSubmissions
    FfmpegSlots = 1
    MaxAttempts = 2
    StartTokens = 1
    MaxKeys = 2
    MaxMishaps = 1
    MaxBeside = 1
SPECIFICATION PricingAlone
SYMMETRY MCSymmetry
PROPERTIES
    WindowHonoured
CHECK_DEADLOCK FALSE
