CONSTANTS
    Ids = {c1}
    Websites = {s1}
    URLs = {root, page1}
    Root = root
    MaxPages = 0
    Faults = {"timeout"}
    CanRestart = FALSE
    None = None
SPECIFICATION Spec
INVARIANTS
    FinishedRunLeavesFinalRow
CHECK_DEADLOCK FALSE
