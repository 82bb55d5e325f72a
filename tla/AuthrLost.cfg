SPECIFICATION Spec
CONSTANTS
    Threads = {t1, t2}
    Uids = {1, 2}
    MaxCid = 2
    NumContainerOps = 3
    SetArgs <- ShortLists
    OpArgs <- JustModAcl
    AnyCid = anycid
    MaxReqs = 3
    MaxKeys = 1
    NoAcl = noacl
    NoRequest = norequest
    HalfWord = 4
    LongIs32 = TRUE
    CrayPortals = FALSE
CHECK_DEADLOCK FALSE
PROPERTY
    ImplementsAclService
INVARIANT
    WholeOrGone
