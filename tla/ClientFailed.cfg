SPECIFICATION Spec
CONSTANTS
    Threads = {t1}
    Kinds = {"short", "data", "longargs", "longres", "service"}
    MaxCalls = 2
    Late = TRUE
    GarbageValid = TRUE
    None = None
INVARIANTS NoStrayReply WaitTellsTruth
PROPERTY FailedCallsAreOver
CHECK_DEADLOCK FALSE
