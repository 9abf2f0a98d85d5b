CONSTANTS
  w1 = w1
  d1 = d1
  NoTask = NoTask
  Task = {e1}
  Event = {e1}
  Job = {j1}
  Persistent = {w1}
  Disposable = {}
  WorkerOf <- OnPersistent
  Slow = {}
  QueueCap = 1
  MaxRetries = 2
  MaxWriteBack = 2
  MaxFaults = 1
SPECIFICATION FairSpec
PROPERTY EventNotOrphaned
CHECK_DEADLOCK FALSE
