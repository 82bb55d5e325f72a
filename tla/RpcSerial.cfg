SPECIFICATION Spec
CONSTANTS
  ReqsPerQueue = 1
  EqSlots = 8
  NumWorkers = 1
  UseThreads = FALSE
  MaxReqs = 3
  MemLimited = TRUE
  NetTimeouts = FALSE
  Kinds = {"short", "longargs", "longres", "unknown", "kill"}
  MaxMsgs = 4
INVARIANTS
  TypeOK
  DecodesWhatCame
  NothingCutShort
