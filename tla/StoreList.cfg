SPECIFICATION Spec
CONSTANTS
  Threads = {t1}
  NumOids = 1
  MAX_OPEN_FILES = 2
  NumFds = 2
  OpenErrors = FALSE
  NumCells = 2
  Ops = {"create", "read", "remove"}
  Serialized = TRUE
  Stored = {}
  MaxOps = 3
  MaxCrashes = 0
INVARIANTS
  ListHoldsLiveElements
