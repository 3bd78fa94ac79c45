SPECIFICATION Spec
CONSTANTS
    Docs = {d1, d2, d3}
    Folders = {f1, f2}
    Owners = {b1, b2}
    Names = {n1}
    Requests = {r1, r2}
    BusinessQuota = 2
    TenantQuota = 2
    None = None
CONSTRAINT FoldersApart
SYMMETRY Interchangeable
INVARIANTS
    OneLatestVersion
    HeadLostByDeletion
    OvershootBounded
    OrphansWereOvertaken
CHECK_DEADLOCK FALSE
