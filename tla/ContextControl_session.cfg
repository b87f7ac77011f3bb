SPECIFICATION Spec
CONSTANTS
  Switches = {"ruijie"}
  Dhcp = {TRUE}
  OfferLimit = 0
  Offered <- MCOffered
  MaxEvents = 2
  MaxStarts = 2
  QueueLen = 1
  Repairs <- Defects
INVARIANTS
  TypeOK SessionIsCurrent MachineOutlivesSession LogoffPrecedesClose LogoffIsQuiet
  TimersOwned SecondStepHasAddress
CHECK_DEADLOCK FALSE
