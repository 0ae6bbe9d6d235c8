CONSTANTS
  Horizon = 8
  RestartInterval = 4
  OutputInterval = 2
  Modes = {"never_modify", "replace_files", "overwrite"}
  MaxFailures = 3
SPECIFICATION FairSpec
INVARIANTS
  TypeOK
  StampIsSound
  GridComplete
PROPERTIES
  PastIsKept
  RunCompletes
\* a finished run stops, and so does one whose restart file is not whole
CHECK_DEADLOCK FALSE
