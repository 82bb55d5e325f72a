SPECIFICATION Spec
CONSTANTS
  ss_obj_count = 2
  chunk_size = 2
  Clients = {p1, p2}
  Names = {"a", "b"}
  Ops = {"open", "link", "unlink", "rename", "io"}
  Counts = {1, 4}
  Existing = "a"
  ExistingLen = 3
  SeekPast = FALSE
  Torn = FALSE
  GoesOn = FALSE
  Swaps = FALSE
  Mishaps = {}
  ErrCode = 1
  MaxOps = 4
  MaxLen = 6
  MaxFaults = 1
INVARIANTS
  RenameKeepsOthers
CHECK_DEADLOCK FALSE
