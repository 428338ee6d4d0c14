CONSTANTS
  c1 = c1
  c2 = c2
  Requests <- MCOne
  Decoded <- MCNone
  MaxAttempts = 3
  Responses <- MCAllResponses
  Inputs <- MCInputs
SPECIFICATION Spec
INVARIANTS MutationGate
PROPERTIES AdmittedIsAnswered
CHECK_DEADLOCK FALSE
