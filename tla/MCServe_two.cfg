CONSTANTS
  w1 = w1
  d1 = d1
  NoTask = NoTask
  Task = {a1, a2}
  Event = {}
  Job = {j1, j2}
  Persistent = {w1}
  Disposable = {}
  WorkerOf <- OnPersistent
  Slow = {}
  QueueCap = 1
  MaxRetries = 1
  MaxWriteBack = 1
  MaxFaults = 0
SYMMETRY FullSymmetry
SPECIFICATION Spec
INVARIANTS SingleFlight
CHECK_DEADLOCK FALSE
