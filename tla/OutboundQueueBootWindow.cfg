SPECIFICATION Spec
CONSTANTS
  Packets = {p1}
  Drainers = {d1}
  Channel = "whatsapp"
  OutboundQueueMax = 1
  MaxInFlight = 2
  MaxCrashes = 1
  MaxStoreFaults = 0
  SendMayFail = TRUE
INVARIANT DeliveredWasSent
SYMMETRY Symmetry
