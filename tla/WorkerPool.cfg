CONSTANTS
    Workers = {w1, w2, w3}
    NumJobs = 4
    Cancellable = TRUE
SPECIFICATION Spec
INVARIANTS
    TypeOK
    NoSendAfterClose
    SendNeverBlocks
    EveryTakenJobAccountedFor
    ReturnsEveryJob
    NothingOutlivesRun
PROPERTIES
    RunReturns
    ImplementsParallelMap
CHECK_DEADLOCK FALSE
