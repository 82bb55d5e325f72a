SPECIFICATION Spec
CONSTANTS
    Threads = {t1, t2}
    ThreadedArgs = {TRUE}
    Names = {"a", "b", "c"}
    Ops = {}
    ThreadedOps = {"create_namespace", "create_file", "create_link", "unlink"}
    MaxOps = 4
    MaxRestarts = 0
INVARIANTS
    RefCountExact
    EntriesResolve
