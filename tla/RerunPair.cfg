CONSTANTS
  c1 = c1
  c2 = c2
  Requests <- MCCalls
  Decoded <- MCNone
  MaxAttempts = 2
  Responses <- MCResponses
  Inputs <- MCFewInputs
SPECIFICATION Spec
INVARIANTS TypeOK AuditIsTruthful AnswerIsAudited AnswerIsTruthful
SYMMETRY MCSymmetry
CHECK_DEADLOCK FALSE
