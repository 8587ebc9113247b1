SPECIFICATION Spec
CONSTANTS
    p1 = p1
    p2 = p2
    p3 = p3
    s1 = s1
    s2 = s2
    h1 = h1
    h2 = h2
    d1 = d1
    f1 = f1
    None = None
    Ticker = Ticker
    Closer = Closer
    Callers = {p1, p2, p3}
    Scopes = {s1, s2}
    ScopeOf <- MCScopeOf
    Handles = {h1, h2}
    Digests = {d1}
    Files = {f1}
    MaxResources = 1
    MaxPerScope = 1
    IdleLifetime = 1
    MaxTime = 1
    MaxVersion = 1
    Events = {"rewrite", "replace", "refuse", "close"}
SYMMETRY Symmetry
INVARIANTS
    ReaderInv
    WithinLimits
    FilesOwned
    ReadsOpenFile
    
