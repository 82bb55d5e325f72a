SPECIFICATION Spec
CONSTANTS
  Threads = {t1, t2, t3}
  NumOids = 3
  MAX_OPEN_FILES = 1
  NumFds = 4
  OpenErrors = FALSE
  NumCells = 3
  Ops = {"read"}
  Serialized = TRUE
  Stored = {1, 2, 3}
  MaxOps = 3
  MaxCrashes = 0
INVARIANTS
  IOGoesToItsObject
