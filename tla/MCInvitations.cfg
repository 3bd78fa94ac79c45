SPECIFICATION Spec
CONSTANTS
    Ids = {i1, i2}
    Emails = {e1, e2}
    Contacts = {c1}
    Requests = {r1, r2}
    None = None
SYMMETRY Interchangeable
INVARIANTS
    OneWayIn
    UserHasItsInvitation
    ContactHasItsClient
PROPERTY OnlyStaleChecksFail
CHECK_DEADLOCK FALSE
