SPECIFICATION ReminderSpec
CONSTANTS
    Subjects = {s1}
    Users = {u1}
    Runs = {r1, r2}
    LastDay = 3
    DueDays = {0, 2}
    WeekLength = 2
    TaskNotice = {1}
    OtherNotice = {1}
    MaxFaults = 1
    MaxEdits = 1
    None = None
INVARIANTS
    TwiceForAReason
    LedgerTellsWhatWasSent
PROPERTIES
    AptUnlessStale
    OverdueIsReminded
CHECK_DEADLOCK FALSE
