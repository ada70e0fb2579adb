CONSTANTS
    c1 = c1
    c2 = c2
    u1 = u1
    u2 = u2
    Ids = {c1, c2}
    URLs = {u1, u2}
    Order <- MCOrder
    RawWebsites <- MCRawWebsites
    Limits <- MCLimits
    Offsets <- MCOffsets
    DefaultLimit = 2
    MaxLimit = 2
    MaxOffset = 2
    Missing = Missing
    NotANumber = NotANumber
    NoWebsite = NoWebsite
    BadId = BadId
SPECIFICATION Spec
INVARIANTS
    OneEnvelope
CHECK_DEADLOCK FALSE
