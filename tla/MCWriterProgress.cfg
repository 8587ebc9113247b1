SPECIFICATION FairSpec
CONSTANTS
    p1 = p1
    p2 = p2
    h1 = h1
    h2 = h2
    h3 = h3
    d1 = d1
    d2 = d2
    k1 = k1
    k2 = k2
    s1 = s1
    a = a
    None = None
    Hole = Hole
    Ticker = Ticker
    Callers = {p1, p2}
    Handles = {h1}
    Digests = {d1}
    Chunks = {a}
    Content <- MCContent1
    Scopes = {s1}
    ScopeOf <- MCScopeOf
    Keys = {k1}
    Asks <- OneRequest
    MaxUploads = 2
    MaxUploadsPerScope = 2
    MaxRequestRecords = 2
    IdleLifetime = 1
    RequestRetention = 2
    MaxTime = 1
    Events = {"abort", "refusal"}
PROPERTIES
    CallsReturn
    ExpiredDiscarded
CHECK_DEADLOCK FALSE
