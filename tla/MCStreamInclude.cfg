CONSTANTS
  Registry <- MCRegistry
  Fields = {"f", "g", "h", "k"}
  FieldFile = {"k"}
  Templates = {"m.nc", "r.nc", "a.nc", "b.nc"}
  Times = {"6h", "12h"}
  MeshStream = "mesh"
  Configs <- MCConfigs
SPECIFICATION Spec
INVARIANTS
  MutableIncluded
\* the program ends when it has read the file, or refused it
CHECK_DEADLOCK FALSE
