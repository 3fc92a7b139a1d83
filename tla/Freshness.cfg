SPECIFICATION LiveSpec
CONSTANTS
  Files = {f1, f2}
  Clients = {c1}
  QueueCap = 1
  WaitPolls = 1
  GatePermits = 1
  MaxEdits = 2
  MaxFaults = 1
  MaxAsks = 1
INVARIANTS
  EditsOnTheWay
PROPERTIES
  PollingCatchesUp
  RequestsAnswered
CHECK_DEADLOCK FALSE
