SPECIFICATION Spec
CONSTANTS
  Requests = {r1, r2, r3}
  Names = {gpt}
  MaxTargets = 3
  Statuses = {200, 400, 429}
  Free = Free
SYMMETRY RequestSymmetry
INVARIANTS EachTargetOnce FailoverDiscipline FairTurns
PROPERTIES ImplementsRoundRobin
