SPECIFICATION FairSpec
CONSTANTS
  Repos = {r1}
  Tasks = {t1, t2}
  Clients = {c1}
  None = None
  QueueCap = 1
  IndexConcurrency = 2
PROPERTIES
  AcceptedTriggerRuns
  RunsEnd
  RequestsEnd
