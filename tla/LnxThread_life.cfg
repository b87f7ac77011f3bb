SPECIFICATION Spec
CONSTANTS
  Timed = {TRUE, FALSE}
  MayFail <- MCFailures
  QueueLen = 2
  MaxPosts = 2
  Repairs <- Defects
INVARIANTS
  TypeOK StartFailsWithoutThread
PROPERTIES
  ImplementsThreadLife StartReturns TimedExitReturns
CHECK_DEADLOCK FALSE
