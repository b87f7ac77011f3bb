SPECIFICATION FairSpec
CONSTANTS
  Switches = {"other"}
  Dhcp = {TRUE}
  OfferLimit = 1
  Offered <- MCDhcp
  MaxEvents = 1
  MaxStarts = 1
  QueueLen = 1
  Repairs <- Defects
PROPERTIES
  SessionEndsForCause QuitEnds DhcpEnds
CHECK_DEADLOCK FALSE
