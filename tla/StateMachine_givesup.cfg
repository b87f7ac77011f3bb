SPECIFICATION Spec
CONSTANTS
  StartTimeout = 3
  AuthTimeout = 3
  HeldTimeout = 1
  StartNumber = 2
  QueueLen = 2
  MaxInputs = 3
  Offered <- MCEverything
  Vendors = {"ruijie", "other"}
  Repairs <- MCAsIs
PROPERTIES
  GivesUpAfterAllTries
CHECK_DEADLOCK FALSE
