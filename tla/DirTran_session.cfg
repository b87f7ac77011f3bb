SPECIFICATION Spec
CONSTANTS
  MaxUnits = 2
  MaxQueue = 1
  Sessions <- MCSessions
  Repairs <- Defects
INVARIANTS
  TypeOK NothingFreedIsUsed SessionIsCurrent QueueIsServed
PROPERTIES
  RightServer ControlReturns
