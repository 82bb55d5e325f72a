SPECIFICATION FairSpec
CONSTANTS
    Threads = {t1}
    Kinds = {"short", "data", "longargs", "longres", "service", "unknown"}
    MaxCalls = 2
    Late = TRUE
    GarbageValid = FALSE
    None = None
INVARIANTS
    TypeOK
    OwnBuffers
    WaitTellsTruth
PROPERTIES
    WaitsReturn
CHECK_DEADLOCK FALSE
