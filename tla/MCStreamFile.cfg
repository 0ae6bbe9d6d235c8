CONSTANTS
  NoFile = NoFile
  Horizon = 5
  Intervals = {1}
  FileIntervals = {0, 1, 2, 3}
  RestartInterval = 1
  Modes = {"never_modify", "append", "replace_files", "overwrite"}
  MaxRuns = 3
SPECIFICATION Spec
INVARIANTS
  TypeOK
  NoGaps
  RecordsAscend
  RunIsRecorded
PROPERTIES
  OldRecordsKept
  ImplementsRecordStore
\* no further run is started after the last one
CHECK_DEADLOCK FALSE
