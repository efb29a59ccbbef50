SPECIFICATION FairSpec
CONSTANTS
  Capacity = 3
  Shown = 2
  NoGeneration = NoGeneration
  Undefined = Undefined
  BodiesGetLost = TRUE
  MaxEntries = 5
  MaxProcesses = 2
INVARIANTS Contiguous OnePollDue ShowsNewest
PROPERTIES CatchesUp
CHECK_DEADLOCK FALSE
