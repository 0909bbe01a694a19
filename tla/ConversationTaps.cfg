SPECIFICATION Spec
CONSTANTS
  People = {a}
  Owner = owner
  Requests = {r1}
  MaxNumbers = 0
  MaxPackets = 2
  RingSize = 2
  MaxEvents = 1
INVARIANT TapsReachTheirPacket
CHECK_DEADLOCK FALSE
