SPECIFICATION Spec
CONSTANTS
    Threads = {t1}
    Uids = {0, 6, 12}
    MaxCid = 2
    NumContainerOps = 4
    SetArgs <- Lists
    OpArgs <- SomeOps
    AnyCid = anycid
    MaxReqs = 3
    MaxKeys = 2
    NoAcl = noacl
    NoRequest = norequest
    HalfWord = 8
    LongIs32 = TRUE
    CrayPortals = FALSE
INVARIANTS
    TypeOK
    LookupsAgree
    OneContainerPerCid
PROPERTY
    ImplementsAclService
CHECK_DEADLOCK FALSE
