SPECIFICATION Spec
CONSTANTS
  Archetypes = {"researcher", "coder", "tester"}
  Goals <- MCGoals
  Templates = {"feature", "bugfix"}
  Capabilities <- MCCapabilities
  MaxIterations = 20
  Names <- MCNames
  Retries = {0, 1, 2, 7, 15}
  Usize = 16
CHECK_DEADLOCK FALSE
INVARIANTS PlanIsMinimal UnreachableHasNoPlan CompletedOnLastRuns FailedForAReason BudgetIsSlack
PROPERTY RunEnds
