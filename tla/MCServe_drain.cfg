CONSTANTS
  w1 = w1
  d1 = d1
  NoTask = NoTask
  Task = {a1}
  Event = {}
  Job = {j1}
  Persistent = {w1}
  Disposable = {}
  WorkerOf <- OnPersistent
  Slow = {}
  QueueCap = 1
  MaxRetries = 2
  MaxWriteBack = 1
  MaxFaults = 1
SPECIFICATION Spec
PROPERTY DrainRecordsResult
CHECK_DEADLOCK FALSE
