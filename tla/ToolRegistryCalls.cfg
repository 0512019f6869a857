SPECIFICATION Spec
CONSTANTS
  Slots = {c1, c2}
  Tools = {t1, t2}
  Limit = 1
  MaxTries = 2
  MaxCalls = 4
CHECK_DEADLOCK FALSE
INVARIANTS OverrunIsBounded AdmittedCallsAreCharged UsageLogIsOrdered
PROPERTY CallsEnd
