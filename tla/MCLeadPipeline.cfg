SPECIFICATION LeadSpec
CONSTANTS
    Leads = {l1, l2}
    Businesses = {b1}
    Contacts = {k1, k2}
    Users = {u1, u2}
    OtherTypes = {}
    Callers = {c1, c2}
    Representative = Representative
    Unset = Unset
SYMMETRY Interchangeable
INVARIANTS
    TwoPrimariesOverlapped
    ConversionIsWhole
    OwnersAccountedFor
PROPERTIES
    PrimaryContactIsKept
CONSTRAINT OneSideAtATime
CHECK_DEADLOCK FALSE
