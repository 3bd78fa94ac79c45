SPECIFICATION Spec
CONSTANTS
    Calls = {c1, c2, c3}
    MaxRounds = 2
SYMMETRY Interchangeable
INVARIANTS
    CompletionNeedsApproval
    InconsistentOnlyIfOvertaken
PROPERTY FinalUnlessOvertaken
CHECK_DEADLOCK FALSE
