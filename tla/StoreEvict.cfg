SPECIFICATION Spec
CONSTANTS
  Threads = {t1}
  NumOids = 3
  MAX_OPEN_FILES = 2
  NumFds = 4
  OpenErrors = TRUE
  NumCells = 3
  Ops = {"create", "read", "write", "trunc"}
  Serialized = FALSE
  Stored = {1, 2}
  MaxOps = 4
  MaxCrashes = 1
INVARIANTS
  TypeOK
  DescriptorsAccounted
  IOGoesToItsObject
