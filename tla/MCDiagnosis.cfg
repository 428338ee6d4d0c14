CONSTANTS
  References <- MCReferences
  JobLists <- MCJobLists
  Logs <- MCLogs
  Pieces <- MCPieces
SPECIFICATION Spec
INVARIANTS TypeOK NoGateMissed ErrorsExplained DiagnosisIsBest
CHECK_DEADLOCK FALSE
