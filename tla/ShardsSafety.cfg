SPECIFICATION Spec
CONSTANTS
  r1 = r1
  r2 = r2
  r3 = r3
  t1 = t1
  t2 = t2
  Repos = {r1, r2, r3}
  FilesOf <- MCFilesOf
  ChunksOf <- MCChunksOf
  Tasks = {t1, t2}
  NoRepo = NoRepo
  Dim = 2
  Unembedded <- MCUnembedded
  Rank <- MCRank
  Cap = 8
  TopK = 2
  MaxRuns = 2
  MaxQueries = 3
INVARIANTS
  TypeOK
  SingleFlight
  
  
PROPERTIES
  EvictionIsLru
CHECK_DEADLOCK FALSE
SYMMETRY MCTasks
