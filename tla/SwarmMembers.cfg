CONSTANTS
  Agents = {a1, a2}
  Tasks = {t1, t2}
  CreateLoads <- Loaded
  MaxSwarms = 2
SYMMETRY Symmetry
SPECIFICATION Spec
INVARIANTS RunningTaskIsHeld
PROPERTY AssignedWorkIsConserved
