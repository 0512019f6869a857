CONSTANTS
  Agents = {a1}
  Tasks = {t1, t2, t3}
  CreateLoads <- Unloaded
  MaxSwarms = 1
SYMMETRY Symmetry
SPECIFICATION Spec
INVARIANTS DependenciesFormDAG NoTaskWaitsOnFailure CycleWalkIsReachability FailureWalkIsLeastCascade AcceptLoopIsOrderFree
