SPECIFICATION Spec
CONSTANTS
  Repos = {r1}
  Tasks = {t1}
  Clients = {c1}
  None = None
  QueueCap = 1
  IndexConcurrency = 1
PROPERTIES
  DirRemovedOnlyWhenClosed
