CONSTANTS
    SitemapXml = m1
    SitemapIndexXml = m2
    Maps = {m1, m2, m3}
    URLs = {u1}
    MaxLocs = 2
    MaxDepth = 2
    HasDeadline = TRUE
    Documents <- MCDocuments
    Directives <- MCDirectives
    CommonPaths <- MCCommonPaths
SPECIFICATION Spec
INVARIANTS
    TypeOK
    NoDuplicateURLs
    FindsAllWithinDepth
    OnlyRobotsIsLostSilently
PROPERTIES
    DiscoveryEnds
CHECK_DEADLOCK FALSE
