SPECIFICATION Spec
CONSTANTS
  Slices <- MCSlices
  RetryCount = 3
  Faults <- Kinds
  MaxFaults = 4
  Repairs <- Defects
INVARIANTS
  TypeOK RetriesSuffice
CHECK_DEADLOCK FALSE
