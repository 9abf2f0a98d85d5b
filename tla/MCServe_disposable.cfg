CONSTANTS
  w1 = w1
  d1 = d1
  NoTask = NoTask
  Task = {e1}
  Event = {e1}
  Job = {j1, j2}
  Persistent = {}
  Disposable = {d1}
  WorkerOf <- OnDisposable
  Slow = {e1}
  QueueCap = 1
  MaxRetries = 3
  MaxWriteBack = 1
  MaxFaults = 1
SYMMETRY JobSymmetry
SPECIFICATION Spec
INVARIANTS WriteBackOnce RetryBudget EventFollowsTask
CHECK_DEADLOCK FALSE
