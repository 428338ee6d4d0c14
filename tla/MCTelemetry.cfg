CONSTANTS
  c1 = c1
  c2 = c2
  c3 = c3
  t1 = t1
  t2 = t2
  Nobody = Nobody
  Calls <- MCCalls
  Tools <- MCTools
  Observations <- MCObservations
  Window = 22
SPECIFICATION MCSpec
INVARIANTS TypeOK MetricsMatchHistory P95SplitsWindow ExportIsCurrent
PROPERTIES ObserveReturns
CHECK_DEADLOCK FALSE
