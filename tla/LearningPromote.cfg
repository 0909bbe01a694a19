SPECIFICATION Spec
CONSTANTS
  Corrections = {c1, c2}
  Promotions = {q1, q2, q3}
  Cases = {k1}
  Patterns = {t1, t2}
  Actions = {a1}
  MaxInFlight = 2
  MaxFailures = 1
INVARIANT OneActiveRule
INVARIANT ManifestIsCurrent
SYMMETRY Symmetry
CHECK_DEADLOCK FALSE
