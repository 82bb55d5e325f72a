SPECIFICATION Spec
CONSTANTS
    Threads = {t1}
    ThreadedArgs = {FALSE}
    Names = {"a", "/"}
    Ops = {"create_namespace", "remove_namespace"}
    ThreadedOps = {}
    MaxOps = 2
    MaxRestarts = 0
INVARIANTS
    NoAbort
