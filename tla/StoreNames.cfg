SPECIFICATION Spec
CONSTANTS
  Openers = {run, read}
  Runs = {run}
  Remover = remover
  Migs = {m1, m2}
  Nobody = Nobody
  Ids = {1, 2, 3}
  OldCalls = {1, 2, 3}
  OldChunks = {1, 2}
  Page = 2
  OpenTries = 2
  RemoveTries = 2
  MaxOpens = 2
  MaxWrites = 1
  MaxStops = 1
INVARIANTS
  IndexedNamesMatch
CHECK_DEADLOCK FALSE
