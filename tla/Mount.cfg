SPECIFICATION MountSpec
CONSTANTS
    Users = {u1, u2}
    Twice = {u1}
    ThreadedArgs = {TRUE, FALSE}
    Midway = FALSE
    MaxKeys = 2
    MaxEnds = 1
    NoAcl = noAcl
INVARIANTS
    MountedHasAccess
    SerialFirstTryMounts
PROPERTIES
    SerialMountedInTheEnd
CHECK_DEADLOCK FALSE
