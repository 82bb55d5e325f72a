SPECIFICATION Spec
CONSTANTS
  Threads = {t1, t2}
  NumOids = 1
  MAX_OPEN_FILES = 4
  NumFds = 4
  OpenErrors = FALSE
  NumCells = 1
  Ops = {"read", "write", "remove"}
  Serialized = FALSE
  Stored = {1}
  MaxOps = 3
  MaxCrashes = 0
INVARIANTS
  IOAtItsOffset
  NoDescriptorLeak
  UsesLiveElement
  NoSegfault
