SPECIFICATION Spec
CONSTANTS
  Messages = {m1, m2}
  Deliveries = {d1, d2, d3}
  MaxFailures = 1
INVARIANT TypeOK
INVARIANT EffectsHaveEvidence
INVARIANT MergedAtMostOnce
INVARIANT ResolvedTookEffect
INVARIANT LastReplyDecides
INVARIANT ReplySentOnce
SYMMETRY Symmetry
CHECK_DEADLOCK FALSE
