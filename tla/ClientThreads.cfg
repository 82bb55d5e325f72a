SPECIFICATION Spec
CONSTANTS
    Threads = {t1, t2}
    Kinds = {"short"}
    MaxCalls = 2
    Late = FALSE
    GarbageValid = FALSE
    None = None
INVARIANT OwnBuffers
CHECK_DEADLOCK FALSE
