SPECIFICATION Spec
CONSTANTS
  ReqsPerQueue = 2
  EqSlots = 8
  NumWorkers = 1
  UseThreads = FALSE
  MaxReqs = 9
  MemLimited = TRUE
  NetTimeouts = TRUE
  Kinds = {"longargs", "longres"}
  MaxMsgs = 2
INVARIANTS OpNotRunWithoutArgs ResultOutlivesFetch MemoryLimitExits
