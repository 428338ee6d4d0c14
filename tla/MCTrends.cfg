CONSTANTS
  Calls <- MCCalls
  Histories <- MCHistories
  Tests = {"t1", "t2", "t3"}
  TicksPerSecond = 2
  Day = 4
  DefaultLookback = 4
  MaxLookback = 3
  Limit = 4
  TenPages = 3
  TopSize = 2
  Start = 22
  End = 26
SPECIFICATION Spec
INVARIANTS TypeOK WindowsCover SnapshotMatchesRuns FlakyCountsMatch
CHECK_DEADLOCK FALSE
