SPECIFICATION Spec
CONSTANTS
    p1 = p1
    p2 = p2
    s1 = s1
    s2 = s2
    ta = ta
    tb = tb
    tc = tc
    d1 = d1
    d2 = d2
    t1 = t1
    t2 = t2
    t3 = t3
    None = None
    Callers = {p1, p2}
    Scopes = {s1, s2}
    ScopeOf <- MCScopeOf
    Stores = {ta, tb, tc}
    Digests = {d1, d2}
    SourceCount = 2
    Accepted <- MCAccepted
    Contents <- MCContents
    Readable <- MCReadable
    Tokens = {t1, t2}
    MaxInventoryPage = 2
    MaxInventoryRecords = 3
    MaxSnapshots = 1
    SnapshotIdle = 0
    MaxTime = 1
    Events = {"gate", "policy", "source", "change", "close"}
CONSTRAINT LookupsAlone
SYMMETRY Symmetry
INVARIANTS
    
    ComposedWhole
    PagesGuarded
    PagesExact
    ClientAccepts
