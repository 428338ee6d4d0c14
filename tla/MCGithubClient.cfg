CONSTANTS
  r1 = r1
  Requests <- MCRequests
  Decoded <- MCRequests
  MaxAttempts = 3
  Responses <- MCResponses
SPECIFICATION ClientSpec
INVARIANTS ClientTypeOK CleanFailure ExecutionsExplained RetryIsJustified
PROPERTIES RequestEnds RemoteSpec
CHECK_DEADLOCK FALSE
