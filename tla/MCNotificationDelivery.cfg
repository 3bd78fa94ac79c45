SPECIFICATION Spec
CONSTANTS
    n1 = n1
    n2 = n2
    Sends <- TwoSends
    Attempts = 2
    MaxCrashes = 2
CONSTRAINT SecondCrashAlone
SYMMETRY Symmetry
INVARIANTS
    PendingIsCaredFor
    DeliveriesRecorded
CHECK_DEADLOCK FALSE
