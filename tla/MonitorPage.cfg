SPECIFICATION MCSpec
CONSTANTS
  Entries = {a, b, c}
  Instants <- MCInstants
  Keep = 1
  Batch = 2
  MaxRestarts = 1
  MaxCalls = 2
  Filters <- MCFilters
  NoFilter = NoFilter
  PageSize = 1
  MaxPages = 2
  MaxClicks = 3
INVARIANTS RetentionBound ShownAnswersChoice SpinnerMeansCall
PROPERTIES TrimsTheOldest ShowsTheLog
CHECK_DEADLOCK FALSE
