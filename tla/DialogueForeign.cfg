SPECIFICATION Spec
CONSTANTS
  Settings <- MCPlainOnly
  Shapes <- MCThoughts
  Ends = {"done"}
  Usages <- MCUsages
  MaxTurns = 2
INVARIANT ThinkingIsSigned
CHECK_DEADLOCK FALSE
