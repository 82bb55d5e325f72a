SPECIFICATION Spec
CONSTANTS
  ReqsPerQueue = 2
  EqSlots = 8
  NumWorkers = 1
  UseThreads = TRUE
  MaxReqs = 2
  MemLimited = FALSE
  NetTimeouts = FALSE
  Kinds = {"short"}
  MaxMsgs = 2
INVARIANT DecodesLiveBuffer
