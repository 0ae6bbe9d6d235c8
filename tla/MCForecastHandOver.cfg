CONSTANTS
  Horizon = 9
  RestartInterval = 3
  RangeUnit = 3
  FgatHour = 6
  NumJobs = 2
  MaxFailures = 1
SPECIFICATION Spec
INVARIANT HandedOverAfterCompletion
CHECK_DEADLOCK FALSE
