CONSTANTS
    Ids = {c1, c2}
    Websites = {s1, s2}
    URLs = {root}
    Root = root
    MaxPages = 0
    Faults = {"error", "lost"}
    CanRestart = TRUE
    None = None
SPECIFICATION ServerSpec
INVARIANTS
    CleanShutdownStrandsNothing
PROPERTIES
    EveryRequestEnds
    InflightIsReleased
CHECK_DEADLOCK FALSE
