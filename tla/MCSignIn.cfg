SPECIFICATION SignInSpec
CONSTANTS
    Requests = {r1, r2, r3}
    Links = {l1, l2}
    MaxAttempts = 2
    MaxLogins = 4
    None = None
SYMMETRY Interchangeable
INVARIANTS
    LockoutIsEarned
    NoticeOncePerLockout
    OneUsableLink
    LinkIsSpentOnce
PROPERTIES
    LockHoldsUntilItLapses
CHECK_DEADLOCK FALSE
