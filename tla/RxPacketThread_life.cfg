SPECIFICATION FairSpec
CONSTANTS
  MayFail <- MCFailures
  Repairs <- Defects
INVARIANTS
  TypeOK StopTakesEffect HandleClosedOnce
PROPERTIES
  ControlReturns
CHECK_DEADLOCK FALSE
