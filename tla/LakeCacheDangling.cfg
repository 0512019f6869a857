SPECIFICATION Spec
CONSTANTS
  Keys = {k1}
  Threads = {p1, p2}
  DataRefs = {d1}
  DataOf <- SharedData
  MaxGen = 1
  MaxEntries = 1
  None = None
INVARIANT PointersResolve
