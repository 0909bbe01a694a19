SPECIFICATION Spec
CONSTANTS
  Cases = {c1, c2}
  Replays = {r1}
  Promotions = {q1, q2}
  Sayings = {"no gst", "photos"}
  Photos = {"false"}
  Clients = {"new"}
  MaxFailures = 1
INVARIANT TypeOK
INVARIANT DecidedByItsVersion
INVARIANT ReplayReproduces
INVARIANT LearnedStaysLearned
INVARIANT WritesAreApproved
SYMMETRY Symmetry
CHECK_DEADLOCK FALSE
