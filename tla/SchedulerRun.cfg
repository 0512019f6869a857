SPECIFICATION SchedulerSpec
CONSTANTS
  Tasks = {t1, t2, t3}
  MaxCrashes = 1
  MaxResets = 1
CHECK_DEADLOCK FALSE
INVARIANTS SchedulerTypeOK StartsAfterDependencies
PROPERTY EndedWorkIsNotStarted WorkEndsOrHasAReason
