SPECIFICATION Spec
CONSTANTS
    c1 = c1
    c2 = c2
    w1 = w1
    w2 = w2
    t1 = t1
    t2 = t2
    t3 = t3
    None = None
    Digests = {1, 2}
    Clients = {c1, c2}
    Writers = {w1}
    Tokens = {t1, t2}
    Readable <- MCReadable
    Capacity = 1
    PageSize = 1
    MaxSnapshots = 1
    MaxChangeWaiters = 1
    SnapshotIdle = 1
    MaxSteps = 2
    MaxTime = 1
    MaxEpoch = 1
    Events = {"remove", "listing", "policy", "restart", "cancel", "close"}
CONSTRAINTS Together Apart
SYMMETRY Symmetry
PROPERTIES ImplementsFeed
INVARIANTS
    ViewsExact
    NoLostWakeup
    SlotsHeld
    JournalExact
CHECK_DEADLOCK FALSE
