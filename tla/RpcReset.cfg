SPECIFICATION Spec
CONSTANTS
  ReqsPerQueue = 1
  EqSlots = 8
  NumWorkers = 1
  UseThreads = TRUE
  MaxReqs = 9
  MemLimited = FALSE
  NetTimeouts = FALSE
  Kinds = {"short"}
  MaxMsgs = 3
INVARIANT AnswersOwnRequest
