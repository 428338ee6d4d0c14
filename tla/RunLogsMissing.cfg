CONSTANTS
  ConfigLimits <- MCConfigLimits
  AskedLimits <- MCAskedLimits
  DefaultLimit = 6
  Bodies <- MCBodies
SPECIFICATION Spec
INVARIANT MissingLogsAreUnavailable
CHECK_DEADLOCK FALSE
