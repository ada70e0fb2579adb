CONSTANTS
    Ids = {c1, c2}
    Websites = {s1}
    URLs = {root}
    Root = root
    MaxPages = 0
    Faults = {}
    CanRestart = FALSE
    None = None
SPECIFICATION Spec
INVARIANTS
    NoServerErrorFromHealthyDatabase
CHECK_DEADLOCK FALSE
