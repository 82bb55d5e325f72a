SPECIFICATION Spec
CONSTANTS
    Threads = {t1}
    Objs = {o1}
    Names = {n1, cid}
    CidName = cid
    CachingArgs = {TRUE, FALSE}
    Fails = {"data", "open", "put"}
    CapArgs = {{"READ", "WRITE"}, {"READ"}}
    OpArgs = {"create", "remove", "read", "write", "fsync", "stat", "trunc", "listattrs", "getattrs", "setattrs", "rmattrs"}
    MaxReqs = 3
    MaxChanges = 1
    None = none
INVARIANT NoStaleService
CHECK_DEADLOCK FALSE
