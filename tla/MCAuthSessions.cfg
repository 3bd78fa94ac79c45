SPECIFICATION Spec
CONSTANTS
    s1 = s1
    s2 = s2
    t1 = t1
    t2 = t2
    t3 = t3
    r1 = r1
    r2 = r2
    None = None
    Requests <- TwoRequests
    Limit = 1
    Sessions <- TwoSessions
    Tokens <- ThreeTokens
    MaxCrashes = 1
SYMMETRY Symmetry
INVARIANTS
    RevocationReachesTokens
    SessionsWithinLimit
PROPERTIES
    RevocationIsFinal
CHECK_DEADLOCK FALSE
