SPECIFICATION Spec
CONSTANTS
  a = a
  b = b
  lib = lib
  NoImport = NoImport
  NoFile = NoFile
  Names = {a, b}
  Imports = {lib}
  Probe <- MCProbe
  Near <- MCNear
  Files = {1, 2, 3}
  Contents <- MCSmall
  Generated = {}
  SymBatch = 2
  MaxRamEdges = 2
  MaxEdits = 0
  MaxRuns = 2
  Crashes = FALSE
PROPERTIES
  CallersKept
CHECK_DEADLOCK FALSE
