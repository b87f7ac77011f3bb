SPECIFICATION Spec
CONSTANTS
  Slices <- MCSlices
  RetryCount = 3
  Faults <- Kinds
  MaxFaults = 4
  Repairs <- MCTryLockAsItIs
INVARIANTS
  DeliveredWhole EventsAlive
PROPERTIES
  ImplementsDelivery SendEnds
CHECK_DEADLOCK FALSE
