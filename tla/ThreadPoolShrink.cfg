SPECIFICATION Spec
CONSTANTS
  MinArg = 1
  MaxArg = 3
  InitialArg = 2
  LowArg = 1
  HighArg = 1
  MaxRequests = 2
PROPERTY LowWatermarkShrinksPool
