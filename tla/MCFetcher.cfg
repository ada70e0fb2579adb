CONSTANTS
    Targets = {t1, t2, t3}
    Settings <- MCSettings
    HardMaxRedirects = 3
SPECIFICATION Spec
INVARIANTS
    TypeOK
    ReportsTheEndOfTheChain
PROPERTIES
    RedirectsEnd
CHECK_DEADLOCK FALSE
