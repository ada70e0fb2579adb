CONSTANTS
    Ids = {c1, c2}
    Websites = {s1, s2}
    URLs = {root, page1, page2}
    Root = root
    MaxPages = 2
    Faults = {"error", "lost", "timeout", "late"}
    CanRestart = TRUE
    None = None
SPECIFICATION Spec
SYMMETRY ServiceSymmetry
INVARIANTS
    TypeOK
    RowsConsistent
    PagesMatchRow
    RepliesNameTheRightCrawl
    OneRunPerWebsite
    InflightTracksRuns
PROPERTIES
    RowsNeverGoBack
    ImplementsLifecycle
CHECK_DEADLOCK FALSE
