SPECIFICATION Spec
CONSTANTS
  Threads = {t1, t2}
  NumOids = 1
  MAX_OPEN_FILES = 4
  NumFds = 4
  OpenErrors = FALSE
  NumCells = 2
  Ops = {"create"}
  Serialized = FALSE
  Stored = {}
  MaxOps = 3
  MaxCrashes = 0
INVARIANTS
  OneElementPerObject
