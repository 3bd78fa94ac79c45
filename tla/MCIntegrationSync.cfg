SPECIFICATION Spec
CONSTANTS
    Syncs = {s1, s2}
    Events = {e1}
    Callers = {c1, c2}
    Attempts = 2
    MaxFaults = 3
    None = None
SYMMETRY Interchangeable
CONSTRAINT FaultsApart
INVARIANTS
    RunsAccountedFor
    EventsAccountedFor
    OverlapsExplained
    DisconnectedIsNotDue
CHECK_DEADLOCK FALSE
