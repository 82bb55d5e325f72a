SPECIFICATION Spec
CONSTANTS
    Threads = {t1, t2}
    Uids = {1}
    MaxCid = 1
    NumContainerOps = 3
    SetArgs <- NoUsers
    OpArgs <- EachOp
    AnyCid = anycid
    MaxReqs = 5
    MaxKeys = 1
    NoAcl = noacl
    NoRequest = norequest
    HalfWord = 4
    LongIs32 = TRUE
    CrayPortals = FALSE
INVARIANT
    OneContainerPerCid
CHECK_DEADLOCK FALSE
