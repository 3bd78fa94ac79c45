SPECIFICATION Spec
CONSTANTS
    Ids = {i1, i2}
    Emails = {e1, e2}
    Contacts = {c1}
    Requests = {r1}
    None = None
INVARIANT ClientStaysClient
CHECK_DEADLOCK FALSE
