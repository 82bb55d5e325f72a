SPECIFICATION Spec
CONSTANTS
    Threads = {t1}
    Objs = {o1}
    Names = {n1, cid}
    CidName = cid
    CachingArgs = {TRUE, FALSE}
    Fails = {"data", "open", "put", "trunc"}
    CapArgs = {{"READ", "WRITE"}, {"READ"}}
    OpArgs = {"create", "remove", "read", "write", "fsync", "stat", "trunc", "listattrs", "getattrs", "setattrs", "rmattrs", "getattr", "setattr", "rmattr"}
    MaxReqs = 4
    MaxChanges = 1
    None = none
INVARIANTS
    TypeOK
    EffectWasAllowed
    NothingLeftBehind
    OkMeansDone
CHECK_DEADLOCK FALSE
