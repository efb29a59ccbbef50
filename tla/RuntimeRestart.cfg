SPECIFICATION Spec
CONSTANTS
  Capacity = 3
  Shown = 2
  NoGeneration = NoGeneration
  Undefined = Undefined
  BodiesGetLost = FALSE
  MaxEntries = 4
  MaxProcesses = 2
INVARIANT ShownAreNewest
CHECK_DEADLOCK FALSE
