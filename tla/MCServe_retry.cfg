CONSTANTS
  w1 = w1
  d1 = d1
  NoTask = NoTask
  Task = {a1}
  Event = {}
  Job = {j1}
  Persistent = {w1}
  Disposable = {}
  WorkerOf <- OnPersistent
  Slow = {}
  QueueCap = 1
  MaxRetries = 3
  MaxWriteBack = 1
  MaxFaults = 0
SPECIFICATION Spec
PROPERTY RetryReachesWorker
CHECK_DEADLOCK FALSE
