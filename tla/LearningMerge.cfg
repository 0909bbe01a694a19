SPECIFICATION Spec
CONSTANTS
  Corrections = {c1, c2, c3, c4}
  Promotions = {q1}
  Cases = {k1, k2}
  Patterns = {t1}
  Actions = {a1, a2}
  MaxInFlight = 2
  MaxFailures = 1
INVARIANT TypeOK
INVARIANT UnderReviewIsEarned
INVARIANT EvidenceKept
INVARIANT ContradictionNoticed
SYMMETRY Symmetry
CHECK_DEADLOCK FALSE
