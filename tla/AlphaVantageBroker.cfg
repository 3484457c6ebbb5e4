\* Three calls for two or three keys, two requests in flight, two attempts each.
CONSTANTS
    c1 = c1
    c2 = c2
    c3 = c3
    k1 = k1
    k2 = k2
    k3 = k3
    Callers = {c1, c2, c3}
    Research = {c3}
    Keys = {k1, k2, k3}
    Asks <- SharedOrOwn
    MaxInFlight = 2
    Attempts = 2
    None = None
SPECIFICATION FairSpec
INVARIANTS
    LeasesAreAccounted
    FetchesAreShared
PROPERTY EveryCallReturns
CHECK_DEADLOCK FALSE
