CONSTANTS
  Horizon = 12
  RestartInterval = 3
  RangeUnit = 3
  FgatHour = 6
  NumJobs = 2
  MaxFailures = 4
SPECIFICATION Spec
INVARIANTS
  TypeOK
  NewestIsLatest
  HolesOnlyWhereResumed
  CleanCompletion
PROPERTIES
  CheckpointsSurvive
  HandOverIsFinal
  Termination
  RecoversWhenFailuresCease
  ImplementsCheckpointRestart
\* the chain of jobs ends, and nothing happens after it
CHECK_DEADLOCK FALSE
