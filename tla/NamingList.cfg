SPECIFICATION Spec
CONSTANTS
    Threads = {t1, t2}
    ThreadedArgs = {TRUE}
    Names = {"a", "b"}
    Ops = {}
    ThreadedOps = {"create_namespace", "create_file", "list_dir"}
    MaxOps = 4
    MaxRestarts = 0
INVARIANTS
    ListFits
