SPECIFICATION Spec
CONSTANTS
  a = a
  b = b
  lib = lib
  NoImport = NoImport
  NoFile = NoFile
  Names = {a, b}
  Imports = {lib}
  Probe <- MCProbe
  Near <- MCNear
  Files = {1, 2, 3}
  Contents <- MCContents
  Generated = {1}
  SymBatch = 2
  MaxRamEdges = 2
  MaxEdits = 1
  MaxRuns = 2
  Crashes = TRUE
INVARIANTS
  CallsPointToSymbols
PROPERTIES
  
  IncrementalScoped
  ReplayRecovers
CHECK_DEADLOCK FALSE
