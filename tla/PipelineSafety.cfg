SPECIFICATION Spec
CONSTANTS
  f1 = f1
  f2 = f2
  Files = {f1, f2}
  ChunksOf <- MCChunksOf
  BatchSize = 2
  MaxEdits = 3
  MaxCopies = 2
  AbortPhases <- AbortSafely
  SwallowedErrors = FALSE
  AtomicParse = TRUE
  NoItem = NoItem
INVARIANTS
  TypeOK
  CommitMarker
PROPERTIES
  
  RebuildIsExact
