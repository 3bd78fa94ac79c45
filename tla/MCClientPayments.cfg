SPECIFICATION FairSpec
CONSTANTS
    i1 = i1
    l1 = l1
    p1 = p1
    p2 = p2
    n1 = n1
    c1 = c1
    c2 = c2
    None = None
    Invoices <- OneInvoice
    Links <- OneLink
    Payments <- TwoPayments
    Copies <- TwoCopies
    Typed <- ClashingNumber
    MaxCrashes = 1
INVARIANTS
    TwiceBookedMeansRenumbered
PROPERTIES
    ImplementsCollection
    CapturedIsEventuallyBooked
CHECK_DEADLOCK FALSE
