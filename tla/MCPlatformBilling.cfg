SPECIFICATION FairSpec
CONSTANTS
    o1 = o1
    p1 = p1
    r1 = r1
    r2 = r2
    None = None
    Orders <- OneOrder
    Plans <- OnePlan
    Cycle <- ShortCycle
    Requests <- TwoRequests
    Horizon = 1
    MaxFailures = 1
INVARIANTS
    PaidMeansApplied
    ExpiryMatchesInvoice
    LockoutMeansLapse
PROPERTIES
    CapturedIsEventuallyPaid
CHECK_DEADLOCK FALSE
