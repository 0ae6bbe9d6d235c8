CONSTANTS
  NoFile = NoFile
  Horizon = 4
  Intervals = {1, 2}
  FileIntervals = {0}
  RestartInterval = 1
  Modes = {"overwrite"}
  MaxRuns = 2
SPECIFICATION Spec
PROPERTIES
  NewTimesGoToTheEnd
\* no further run is started after the last one
CHECK_DEADLOCK FALSE
