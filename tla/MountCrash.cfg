\* None of these holds; each is to be checked alone.
SPECIFICATION MountSpec
CONSTANTS
    Users = {u1, u2}
    Twice = {u1}
    ThreadedArgs = {TRUE, FALSE}
    Midway = TRUE
    MaxKeys = 2
    MaxEnds = 0
    NoAcl = noAcl
INVARIANTS
    FirstTryMounts
    CachedCapsVerify
PROPERTIES
    SerialMountedInTheEnd
    MountedInTheEnd
CHECK_DEADLOCK FALSE
