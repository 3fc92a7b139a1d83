SPECIFICATION Spec
CONSTANTS
  f1 = f1
  f2 = f2
  Files = {f1, f2}
  ChunksOf <- MCChunksOf
  BatchSize = 2
  MaxEdits = 2
  MaxCopies = 2
  AbortPhases <- AbortAnywhere
  SwallowedErrors = FALSE
  AtomicParse = TRUE
  NoItem = NoItem
INVARIANTS
  CommitMarker
