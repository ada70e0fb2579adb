CONSTANTS
    Ids = {c1, c2, c3}
    Websites = {s1, s2}
    URLs = {root}
    Root = root
    MaxPages = 0
    Faults = {"lost"}
    CanRestart = FALSE
    None = None
SPECIFICATION Spec
INVARIANTS
    OpenRowHasOwner
    FinishedRunLeavesFinalRow
PROPERTIES
    EveryCrawlFinishes
CHECK_DEADLOCK FALSE
