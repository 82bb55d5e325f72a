SPECIFICATION FairSpec
CONSTANTS
  MinArg = 1
  MaxArg = 3
  InitialArg = 2
  LowArg = 1
  HighArg = 1
  MaxRequests = 5
INVARIANTS
  TypeOK
  EachRequestOnce
  NoLostWakeup
  DrainedUnlessExit
  NoThreadOutlivesPool
PROPERTIES
  ImplementsWorkQueue
  PoolGetsOn
