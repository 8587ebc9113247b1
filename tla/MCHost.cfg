SPECIFICATION FairSpec
CONSTANTS
    c1 = c1
    c2 = c2
    h1 = h1
    None = None
    Nothing = Nothing
    Connections = {c1, c2}
    Slots = 1
    Profiles = {"changes"}
    HostClosers = {h1}
    ComponentClosers = {}
    Names = {"own", "other", "cache"}
    Roots = {1, 2}
    Digests = {1}
    Malformed = 0
    Absent = Absent
    DepthLimit = 9
    WordBits = 8
    CharBits = 4
INVARIANTS
    HostInv
    ServeJoins
    ClosedForGood
    ConnectionsBounded
    OfferedIsSwept
PROPERTIES
    ServesEncodesExactly
    ServesReadsOnlyTheSchema
    ServesIntegersExact
    ServesTextsExact
    ServesCallsExact
    ServesRunsOnlyTyped
    ServesRoutesExactly
    HostStops
CHECK_DEADLOCK FALSE
