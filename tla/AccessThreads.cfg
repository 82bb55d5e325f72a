SPECIFICATION Spec
CONSTANTS
    Threads = {t1, t2}
    Objs = {o1}
    Names = {n1, cid}
    CidName = cid
    CachingArgs = {TRUE, FALSE}
    Fails = {}
    CapArgs = {{"READ", "WRITE"}, {"READ"}}
    OpArgs = {"create", "remove", "setattrs", "rmattrs", "listattrs"}
    MaxReqs = 4
    MaxChanges = 1
    None = none
INVARIANTS AttrsHaveObjects ListFits
CHECK_DEADLOCK FALSE
