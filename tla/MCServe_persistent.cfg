CONSTANTS
  w1 = w1
  d1 = d1
  NoTask = NoTask
  Task = {e1}
  Event = {e1}
  Job = {j1, j2}
  Persistent = {w1}
  Disposable = {}
  WorkerOf <- OnPersistent
  Slow = {}
  QueueCap = 1
  MaxRetries = 2
  MaxWriteBack = 2
  MaxFaults = 1
SYMMETRY JobSymmetry
SPECIFICATION Spec
INVARIANTS TypeOK SingleFlight WriteBackOnce EventFollowsTask
PROPERTIES WorkerHandedBack ImplementsContract OrphanedOnlyBy FailedOnlyBy
CHECK_DEADLOCK FALSE
