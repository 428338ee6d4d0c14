CONSTANTS
  a1 = a1
  a2 = a2
  b1 = b1
  p1 = p1
  p2 = p2
  Nobody = Nobody
  Calls <- MCCalls
  Procs <- MCProcs
  Home <- MCHome
SPECIFICATION Spec
INVARIANT AckedIsReadable
CHECK_DEADLOCK FALSE
