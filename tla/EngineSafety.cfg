SPECIFICATION Spec
CONSTANTS
  Repos = {r1, r2}
  Tasks = {t1, t2}
  Clients = {c1}
  None = None
  QueueCap = 1
  IndexConcurrency = 2
SYMMETRY Symmetry
INVARIANTS
  TypeOK
  PermitsConserved
  LockDiscipline
  CancelReachesTheRun
  IndexingMeansRunning
PROPERTIES
  SerialSpec
CHECK_DEADLOCK TRUE
