SPECIFICATION Spec
CONSTANTS
  StartTimeout = 3
  AuthTimeout = 3
  HeldTimeout = 1
  StartNumber = 2
  QueueLen = 2
  MaxInputs = 5
  Offered <- MCDialogue
  Vendors = {"ruijie"}
  Repairs <- Defects
INVARIANTS
  TypeOK WaitIsTimed GateNotWedged ReconnectFailMeansLogoff
PROPERTIES
  LogoffIsFinal
CHECK_DEADLOCK FALSE
