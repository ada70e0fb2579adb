CONSTANTS
    Ids = {c1, c2}
    Websites = {s1}
    URLs = {root}
    Root = root
    MaxPages = 0
    Faults = {}
    CanRestart = TRUE
    None = None
SPECIFICATION Spec
PROPERTIES
    EveryCrawlFinishes
CHECK_DEADLOCK FALSE
