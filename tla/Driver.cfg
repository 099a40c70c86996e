\* Two Opens and the cleanup function; nothing is known about instance u2.
CONSTANTS
    s1 = s1
    s2 = s2
    u1 = u1
    u2 = u2
    o1 = o1
    o2 = o2
    DSNs = {s1, s2}
    URIs = {u1, u2}
    Host <- MCHost
    Pools <- MCPools
    Hung = {u2}
    Dials = {o1, o2}
    Closers = {x1}
    None = None
SPECIFICATION FairSpec
CHECK_DEADLOCK FALSE
INVARIANTS
    OneConfigPerDSN
    DialsItsInstance
    LocksAreOrdered
PROPERTIES
    dbURIReturns
    HungInstanceHoldsNobodyUp
    CloseReturns
