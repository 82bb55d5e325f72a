SPECIFICATION Spec
CONSTANTS
    Threads = {t1, t2}
    ThreadedArgs = {TRUE, FALSE}
    Names = {a, b}
    Ops = {"create_namespace", "remove_namespace", "get_namespace", "create_dir",
           "create_file", "create_link", "remove_dir", "unlink"}
    ThreadedOps = {"create_namespace", "remove_namespace", "create_dir", "create_file",
                   "unlink", "lookup", "list_dir"}
    MaxOps = 4
    MaxRestarts = 1
SYMMETRY Alike
INVARIANTS
    TypeOK
    AgreeUntilCrash
    NoAbort
