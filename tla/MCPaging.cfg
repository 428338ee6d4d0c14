CONSTANTS
  Limits <- MCLimits
  PageSizes <- MCPageSizes
  DefaultSize = 2
  MaxPages = 3
  Lengths <- MCLengths
  MaxArrivals = 2
  MaxDepartures = 2
SPECIFICATION Spec
INVARIANTS TypeOK DriftIsBounded EndSeenIsComplete
CHECK_DEADLOCK FALSE
