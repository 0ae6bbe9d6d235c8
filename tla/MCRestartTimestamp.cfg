CONSTANTS
  Horizon = 8
  RestartInterval = 4
  OutputInterval = 2
  Modes = {"never_modify"}
  MaxFailures = 3
SPECIFICATION Spec
INVARIANTS
  StampNamesWholeRestart
\* a finished run stops, and so does one whose restart file is not whole
CHECK_DEADLOCK FALSE
