SPECIFICATION Spec
CONSTANTS
  Pairs <- AllPairs
  MaxPieces = 3
  MaxItems = 2
INVARIANTS NothingLost BlocksApart WellOrdered DoneTellsAll Prompt EndsWithUpstream
CHECK_DEADLOCK FALSE
