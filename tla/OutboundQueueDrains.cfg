SPECIFICATION Spec
CONSTANTS
  Packets = {p1, p2, p3}
  Drainers = {d1, d2}
  Channel = "whatsapp"
  OutboundQueueMax = 1
  MaxInFlight = 2
  MaxCrashes = 0
  MaxStoreFaults = 0
  SendMayFail = TRUE
INVARIANT QueueBound
INVARIANT DrainInOrder
INVARIANT SentAtMostOnce
INVARIANT DeliveredWasSent
SYMMETRY Symmetry
