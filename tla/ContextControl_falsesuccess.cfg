SPECIFICATION Spec
CONSTANTS
  Switches = {"ruijie"}
  Dhcp = {FALSE}
  OfferLimit = 0
  Offered <- MCDhcp
  MaxEvents = 1
  MaxStarts = 2
  QueueLen = 2
  Repairs <- MCNone
INVARIANTS
  SessionIsCurrent
CHECK_DEADLOCK FALSE
