CONSTANTS
  AlarmIDs = {restart}
  StartTime = 0
  StopTime = 9
  TimeSteps = {1, 2}
  Intervals = {0, 1, 3, 4}
  LookAheads = {0, 1, 2}
  None = None
SPECIFICATION Spec
INVARIANTS
  TypeOK
  RingsOnGrid
PROPERTIES
  ResetSkipsNothing
  CalibratedRingsNext
  AdjustedRingsSoon
