SPECIFICATION Spec
CONSTANTS
  Deliveries = {d1, d2, d3, d4}
  MaxFailures = 2
INVARIANT TypeOK
INVARIANT AnswerIsComplete
INVARIANT AnswersAgree
PROPERTY RecordIsKept
SYMMETRY Symmetry
CHECK_DEADLOCK FALSE
