SPECIFICATION Spec
CONSTANTS
  Timed = {TRUE}
  MayFail <- MCFailures
  QueueLen = 2
  MaxPosts = 2
  Repairs <- MCAsIs
PROPERTIES
  TimedExitReturns
CHECK_DEADLOCK FALSE
