SPECIFICATION Spec
CONSTANTS
  Entries = {a}
  Instants <- MCInstants
  Keep = 1
  Batch = 1
  MaxRestarts = 0
  MaxCalls = 1
  Filters <- StartOfSecond
  NoFilter = NoFilter
  PageSize = 1
  MaxPages = 1
  MaxClicks = 2
INVARIANT FilterIsExact
CHECK_DEADLOCK FALSE
