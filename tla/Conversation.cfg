SPECIFICATION Spec
CONSTANTS
  People = {a, b}
  Owner = owner
  Requests = {r1}
  MaxNumbers = 1
  MaxPackets = 2
  RingSize = 2
  MaxEvents = 3
INVARIANT TypeOK
INVARIANT NumberUsedOnce
INVARIANT ListsAsSaid
INVARIANT OnlyCustomersEnter
INVARIANT OnlyOperatorsDecide
INVARIANT RecordedAsMeant
INVARIANT A0Contained
SYMMETRY Symmetry
CHECK_DEADLOCK FALSE
