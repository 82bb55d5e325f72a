SPECIFICATION Spec
CONSTANTS
  Threads = {t1, t2}
  NumOids = 2
  MAX_OPEN_FILES = 5
  NumFds = 3
  OpenErrors = FALSE
  NumCells = 3
  Ops = {"create", "remove", "read", "write", "trunc"}
  Serialized = TRUE
  Stored = {1}
  MaxOps = 4
  MaxCrashes = 1
INVARIANTS
  TablesAgree
  ElementStaysInUse
  TransfersHitTheirPlace
