SPECIFICATION Spec
CONSTANTS
  NumOps = 3
  Kinds = {"op", "read_file", "parallel_group"}
  Children = {c1, c2}
  MaxRuns = 3
  MaxFaults = 3
CHECK_DEADLOCK FALSE
SYMMETRY Symmetry
INVARIANTS SuccessMeansAllDone RecordedWorkIsNotRepeated
PROPERTY EffectsFollowOrder
