SPECIFICATION SpecAll
CONSTANTS
    u1 = u1
    u2 = u2
    l1 = l1
    l2 = l2
    w1 = w1
    w2 = w2
    none = none
    count1 = count1
    det = det
    RE = RE
    c1 = c1
    d1 = d1
    d1b = d1b
    d2 = d2
    re1 = re1
    re2 = re2
    bad = bad
    g1 = g1
    g2 = g2
    s1 = s1
    s2 = s2
    User <- MCUser
    Nobody = none
    Login <- MCLogin
    Role <- MCRole
    Defaults <- MCDefaults
    Changes <- MCChanges
    ServerAnswers <- MCAnswers
    LoginKinds <- MCKinds
    Requests <- MCRequests
    UpdatePeriod = 1
    Expiration = 1
    SessionAge = 2
    AccessAge = 1
    RefreshAge = 2
    CodeAge = 1
    KeyAge = 1
    MaxTime = 3
    MaxSessions = 2
    MaxKeys = 2
    MaxCodes = 1
    MaxFailures = 1
    MaxRequests = 3
    MaxAttempts = 2
    MaxRestarts = 2
    MaxTroubles = 3
INVARIANTS
    
    ServerTrue
    ToldTrue
CHECK_DEADLOCK FALSE
SYMMETRY Alike
