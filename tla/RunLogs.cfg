CONSTANTS
  ConfigLimits <- MCConfigLimits
  AskedLimits <- MCAskedLimits
  DefaultLimit = 6
  Bodies <- MCBodies
SPECIFICATION Spec
INVARIANTS TypeOK PassesLimitByHeader OnlyLastIsCut BelowLimitIsComplete
CHECK_DEADLOCK FALSE
