SPECIFICATION Spec
CONSTANTS
  Procs = {p1, p2}
  Tasks = {t1, t2}
  MaxRetries = 3
  MaxCrashes = 2
CHECK_DEADLOCK FALSE
INVARIANT TypeOK
PROPERTIES DeletedRowStaysDeleted ImplementsDurableWork PendingRowIsSettled
