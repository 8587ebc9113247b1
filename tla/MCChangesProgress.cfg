SPECIFICATION FairSpec
CONSTANTS
    c1 = c1
    c2 = c2
    w1 = w1
    w2 = w2
    t1 = t1
    t2 = t2
    t3 = t3
    None = None
    Digests = {1}
    Clients = {c1}
    Writers = {w1}
    Tokens = {t1}
    Readable <- MCReadable
    Capacity = 1
    PageSize = 1
    MaxSnapshots = 1
    MaxChangeWaiters = 1
    SnapshotIdle = 1
    MaxSteps = 3
    MaxTime = 0
    MaxEpoch = 1
    Events = {"external", "remove", "restart"}
PROPERTIES
    ClientsCatchUp
CHECK_DEADLOCK FALSE
