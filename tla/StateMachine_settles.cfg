SPECIFICATION Spec
CONSTANTS
  StartTimeout = 3
  AuthTimeout = 3
  HeldTimeout = 1
  StartNumber = 2
  QueueLen = 1
  MaxInputs = 4
  Offered <- MCEverything
  Vendors = {"ruijie", "other"}
  Repairs <- Defects
INVARIANTS
  TimersOwned RequestsAnswered
PROPERTIES
  ReportsTrueSuccess Settles
CHECK_DEADLOCK FALSE
