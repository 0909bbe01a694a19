SPECIFICATION ReconnectingSpec
CONSTANTS
  Packets = {p1, p2}
  Drainers = {d1}
  Channel = "whatsapp"
  OutboundQueueMax = 1
  MaxInFlight = 2
  MaxCrashes = 1
  MaxStoreFaults = 1
  SendMayFail = TRUE
INVARIANT TypeOK
INVARIANT LossIsAccounted
PROPERTY ImplementsOutbox
PROPERTY QueueEventuallyDrains
