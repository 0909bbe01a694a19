SPECIFICATION Spec
CONSTANTS
  Clients = {c1, c2}
  Calls = {k1, k2}
  MaxEvents = 1
  MaxReports = 2
INVARIANT TypeOK
INVARIANT NoOrphanSession
INVARIANT StatusesAgree
SYMMETRY Symmetry
CHECK_DEADLOCK FALSE
