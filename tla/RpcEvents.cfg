SPECIFICATION Spec
CONSTANTS
  ReqsPerQueue = 4
  EqSlots = 4
  NumWorkers = 1
  UseThreads = TRUE
  MaxReqs = 9
  MemLimited = FALSE
  NetTimeouts = FALSE
  Kinds = {"short"}
  MaxMsgs = 4
INVARIANT EveryRequestSeen
