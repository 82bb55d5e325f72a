SPECIFICATION FairSpec
CONSTANTS
  ReqsPerQueue = 1
  EqSlots = 8
  NumWorkers = 2
  UseThreads = TRUE
  MaxReqs = 3
  MemLimited = FALSE
  NetTimeouts = FALSE
  Kinds = {"longres"}
  MaxMsgs = 3
INVARIANTS
  BufferAccounting
PROPERTIES
  PoolIsWorkQueue
  ServiceGetsOn
