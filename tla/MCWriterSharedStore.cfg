SPECIFICATION Spec
CONSTANTS
    p1 = p1
    p2 = p2
    h1 = h1
    h2 = h2
    h3 = h3
    d1 = d1
    d2 = d2
    k1 = k1
    k2 = k2
    s1 = s1
    a = a
    None = None
    Hole = Hole
    Ticker = Ticker
    Callers = {p1, p2}
    Handles = {h1, h2}
    Digests = {d1, d2}
    Chunks = {a}
    Content <- MCContent2
    Scopes = {s1}
    ScopeOf <- MCScopeOf
    Keys = {k1, k2}
    Asks <- TwoObjects
    MaxUploads = 2
    MaxUploadsPerScope = 1
    MaxRequestRecords = 2
    IdleLifetime = 1
    RequestRetention = 2
    MaxTime = 0
    Events = {"publish", "proof", "remove"}
SYMMETRY Symmetry
INVARIANTS
    Limits
    
CHECK_DEADLOCK FALSE
