SPECIFICATION Spec
CONSTANTS
    Threads = {t1}
    ThreadedArgs = {FALSE}
    Names = {"a", "b"}
    Ops = {"create_namespace", "create_file", "create_link", "unlink"}
    ThreadedOps = {}
    MaxOps = 3
    MaxRestarts = 1
INVARIANTS
    Recovered
