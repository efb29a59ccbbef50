SPECIFICATION Spec
CONSTANTS
  Settings <- MCSettings
  Shapes <- MCShapes
  Ends = {"done", "limit", "filter", "sequence", "failed"}
  Usages <- MCUsages
  MaxTurns = 3
INVARIANTS ToldEverything ToolsAnswered SettingsKept RefusedForCause AnswerKept
CHECK_DEADLOCK FALSE
