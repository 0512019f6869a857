SPECIFICATION Spec
CONSTANTS
  p1 = p1
  p2 = p2
  n1 = n1
  n2 = n2
  Procs = {p1, p2}
  Updates = {u1, u2, u3}
  Inodes = {i1, i2, i3, i4}
  TmpNames = {n1, n2}
  TmpNamings <- EitherNaming
  Locked = TRUE
CHECK_DEADLOCK FALSE
SYMMETRY Symmetry
INVARIANTS TypeOK StoreIsWhole AcknowledgedUpdatesSurvive
PROPERTY ImplementsAtomicStore
