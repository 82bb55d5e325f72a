SPECIFICATION Spec
CONSTANTS
    Threads = {t1}
    Uids = {0, 6, 12}
    MaxCid = 2
    NumContainerOps = 4
    SetArgs <- Lists
    OpArgs <- SomeOps
    AnyCid = anycid
    MaxReqs = 3
    MaxKeys = 2
    NoAcl = noacl
    NoRequest = norequest
    HalfWord = 8
    LongIs32 = FALSE
    CrayPortals = FALSE
INVARIANTS
    EverybodyFound
CHECK_DEADLOCK FALSE
